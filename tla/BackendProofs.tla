--------------------------- MODULE BackendProofs ---------------------------
(***************************************************************************)
(* What holds of the backend's smaller components - Limiter, MediaQueue    *)
(* and MigrationPackage - for every number of requests, attachments and    *)
(* builds.                                                                 *)
(***************************************************************************)
EXTENDS Limiter, MediaQueue, MigrationPackage, FiniteSetTheorems, TLAPS

-----------------------------------------------------------------------------
(* The rate limiter. *)

\* The first second of a window, and that after its last.
Opens(b) == b * WindowSeconds
Closes(b) == Opens(b) + WindowSeconds

AnsweredIn(c, b, V) == {r \in Requests : c[r].bucket = b /\ c[r].pc \in V}
Answered(b) == AnsweredIn(checks, b, Verdicts)
LetThrough(b) == AnsweredIn(checks, b, {"passed", "unchecked"})

\* A request on its way was sent in its bucket's window, not long ago.
OnItsWay ==
    \A r \in Requests : checks[r].pc = "sent" =>
        /\ checks[r].bucket = Bucket(checks[r].at)
        /\ checks[r].at <= clock /\ clock <= checks[r].at + CallSeconds

\* A counter outlives every request on its way to it; it counts no request
\* that has no answer, all that passed, and as many as were let through until
\* those reach the limit.
CounterInv(b) ==
    /\ counters[b].count = 0 \/ Closes(b) < counters[b].expires
    /\ counters[b].count <= Cardinality(Answered(b))
    /\ Cardinality(Passed(b)) <= counters[b].count
    /\ \/ counters[b].count <= Cardinality(LetThrough(b))
       \/ WindowLimit <= Cardinality(LetThrough(b))

LimiterInv ==
    /\ LimiterTypeOK /\ OnItsWay /\ WindowRespected
    /\ \A b \in Buckets : CounterInv(b)

\* The buckets of the seconds.
LEMMA BucketBounds ==
    ASSUME NEW t \in 0..LastSecond
    PROVE  /\ Bucket(t) \in Buckets
           /\ Opens(Bucket(t)) \in Nat
           /\ Opens(Bucket(t)) <= t /\ t < Closes(Bucket(t))
<1>1. WindowSeconds \in Nat \ {0} /\ LastSecond \in Nat /\ t \in Nat /\ t <= LastSecond
  BY LimiterAssumption
<1>2. t \div WindowSeconds \in Nat /\ t \div WindowSeconds <= LastSecond \div WindowSeconds
  BY ONLY <1>1
<1>3. LastSecond \div WindowSeconds \in Nat
  BY ONLY <1>1
<1>4. PICK b \in Nat : b = t \div WindowSeconds
  BY <1>2
<1>5. b * WindowSeconds \in Nat /\ b * WindowSeconds <= t /\ t < b * WindowSeconds + WindowSeconds
  BY ONLY <1>1, <1>4
<1>. QED  BY <1>2, <1>3, <1>4, <1>5 DEF Bucket, Buckets, Opens, Closes

\* How the sets that a request belongs to change with its answer.
LEMMA AnswerCounts ==
    ASSUME NEW c, NEW d, NEW b, NEW V, V \subseteq Verdicts, NEW r \in Requests, NEW v,
           c[r].pc = "sent", c[r].bucket = b, d[r].pc = v, d[r].bucket = b,
           \A q \in Requests \ {r} : d[q] = c[q]
    PROVE  /\ Cardinality(AnsweredIn(c, b, V)) \in Nat
           /\ Cardinality(AnsweredIn(d, b, V)) =
                IF v \in V THEN Cardinality(AnsweredIn(c, b, V)) + 1
                           ELSE Cardinality(AnsweredIn(c, b, V))
<1>1. IsFiniteSet(AnsweredIn(c, b, V)) /\ Cardinality(AnsweredIn(c, b, V)) \in Nat
  <2>1. AnsweredIn(c, b, V) \subseteq Requests
    BY DEF AnsweredIn
  <2>. QED  BY <2>1, FS_Subset, FS_CardinalityType, LimiterAssumption
<1>2. r \notin AnsweredIn(c, b, V)
  BY DEF AnsweredIn, Verdicts
<1>3. AnsweredIn(d, b, V) = IF v \in V THEN AnsweredIn(c, b, V) \cup {r} ELSE AnsweredIn(c, b, V)
  BY <1>2 DEF AnsweredIn
<1>4. Cardinality(AnsweredIn(c, b, V) \cup {r}) = Cardinality(AnsweredIn(c, b, V)) + 1
  BY <1>1, <1>2, FS_AddElement
<1>. QED  BY <1>1, <1>3, <1>4

\* The passed requests of a window are one of those sets.
LEMMA PassedIsAnswered == \A b \in Buckets : Passed(b) = AnsweredIn(checks, b, {"passed"})
BY DEF Passed, AnsweredIn

\* A request reaches its counter while the counter lives.
LEMMA CounterLives ==
    ASSUME LimiterInv, NEW r \in Requests, checks[r].pc = "sent"
    PROVE  LET b == checks[r].bucket IN
           /\ b \in Buckets
           /\ Incremented(counters[b]).count = counters[b].count + 1
           /\ Closes(b) < Incremented(counters[b]).expires
           /\ Incremented(counters[b]).expires \in Nat
           /\ counters[b] \in [count : 0..Cardinality(Requests), expires : Nat]
<1>1. PICK b \in Buckets : b = checks[r].bucket
  BY DEF LimiterInv, LimiterTypeOK
<1>2. PICK t \in 0..LastSecond : t = checks[r].at
  BY DEF LimiterInv, LimiterTypeOK
<1>3. b = Bucket(t) /\ t <= clock /\ clock <= t + CallSeconds
  BY <1>1, <1>2 DEF LimiterInv, OnItsWay
<1>4. Opens(b) \in Nat /\ Opens(b) <= t /\ t < Closes(b)
  BY <1>2, <1>3, BucketBounds
<1>5. counters[b] \in [count : 0..Cardinality(Requests), expires : Nat] /\ clock \in Nat
  BY DEF LimiterInv, LimiterTypeOK
<1>6. counters[b].count = 0 \/ Closes(b) < counters[b].expires
  BY DEF LimiterInv, CounterInv
<1>7. Cardinality(Requests) \in Nat /\ WindowSeconds \in Nat /\ CallSeconds \in {0, 1}
  BY LimiterAssumption, FS_CardinalityType
<1>8. counters[b].count \in Nat /\ counters[b].expires \in Nat
  BY <1>5, <1>7
<1>9. PICK o \in Nat : o = Opens(b)
  BY <1>4
<1>10. Live(counters[b]) = counters[b].count
  BY <1>3, <1>4, <1>5, <1>6, <1>7, <1>8, <1>9 DEF Live, Closes
<1>11. Closes(b) < clock + WindowSeconds + 1 /\ clock + WindowSeconds + 1 \in Nat
  BY <1>3, <1>4, <1>5, <1>7, <1>9 DEF Closes
<1>. QED  BY <1>1, <1>5, <1>10, <1>11 DEF Incremented

\* An answer keeps the counter of its window in line with its requests.
LEMMA AnswerKeeps ==
    ASSUME LimiterInv, NEW r \in Requests, RedisAnswers(r) \/ RedisFails(r)
    PROVE  LimiterInv'
<1>1. PICK b \in Buckets : b = checks[r].bucket
  BY DEF LimiterInv, LimiterTypeOK
<1>2. PICK v \in Verdicts : /\ checks[r].pc = "sent"
                            /\ checks' = [checks EXCEPT ![r].pc = v]
                            /\ clock' = clock
  BY DEF RedisAnswers, RedisFails, Verdicts
<1>3. PICK n \in Nat : n = counters[b].count
  BY LimiterAssumption, FS_CardinalityType DEF LimiterInv, LimiterTypeOK
<1>4. /\ Incremented(counters[b]).count = n + 1
      /\ Closes(b) < Incremented(counters[b]).expires
      /\ Incremented(counters[b]).expires \in Nat
  BY <1>1, <1>2, <1>3, CounterLives
<1>5. /\ \/ counters' = [counters EXCEPT ![b] = Incremented(counters[b])]
         \/ v = "unchecked" /\ counters' = counters
      /\ v = "passed" => n + 1 <= WindowLimit
      /\ v = "refused" => n + 1 > WindowLimit
  <2>1. /\ v = checks'[r].pc
        /\ checks'[r].pc # "unchecked" => RedisAnswers(r)
    BY <1>2 DEF LimiterInv, LimiterTypeOK, RedisFails
  <2>2. CASE RedisAnswers(r)
    BY <1>1, <1>2, <1>4, <2>1, <2>2, LimiterAssumption DEF RedisAnswers, LimiterInv, LimiterTypeOK
  <2>3. CASE RedisFails(r)
    BY <1>1, <2>1, <2>3 DEF RedisFails, LimiterInv, LimiterTypeOK
  <2>. QED  BY <2>2, <2>3
<1>6. /\ counters \in [Buckets -> [count : 0..Cardinality(Requests), expires : Nat]]
      /\ checks \in [Requests -> [pc : {"new", "sent"} \cup Verdicts,
                                  bucket : Buckets, at : 0..LastSecond]]
  BY DEF LimiterInv, LimiterTypeOK
<1>7. /\ counters'[b].count = n + 1 \/ (v = "unchecked" /\ counters'[b].count = n)
      /\ counters'[b].count = 0 \/ Closes(b) < counters'[b].expires
      /\ counters'[b].count \in Nat /\ counters'[b].expires \in Nat
      /\ DOMAIN counters' = Buckets
      /\ \A c \in Buckets \ {b} : counters'[c] = counters[c]
  <2>1. CASE counters' = [counters EXCEPT ![b] = Incremented(counters[b])]
    BY <1>3, <1>4, <1>6, <2>1
  <2>2. CASE v = "unchecked" /\ counters' = counters
    <3>1. CounterInv(b)
      BY DEF LimiterInv
    <3>. QED  BY <1>3, <1>6, <2>2, <3>1 DEF CounterInv
  <2>. QED  BY <1>5, <2>1, <2>2
<1>8. ASSUME NEW c \in Buckets, c # b, NEW V
      PROVE  AnsweredIn(checks', c, V) = AnsweredIn(checks, c, V)
  <2>1. \A q \in Requests : /\ checks'[q].bucket = checks[q].bucket
                            /\ q # r => checks'[q] = checks[q]
    BY <1>2, <1>6
  <2>. QED  BY <1>1, <1>8, <2>1 DEF AnsweredIn
<1>. DEFINE P == Cardinality(Passed(b))
            A == Cardinality(Answered(b))
            L == Cardinality(LetThrough(b))
<1>9. /\ P \in Nat /\ P' = IF v = "passed" THEN P + 1 ELSE P
      /\ A \in Nat /\ A' = A + 1
      /\ L \in Nat /\ L' = IF v = "refused" THEN L ELSE L + 1
  <2>1. ASSUME NEW V, V \subseteq Verdicts
        PROVE  /\ Cardinality(AnsweredIn(checks, b, V)) \in Nat
               /\ Cardinality(AnsweredIn(checks', b, V)) =
                    IF v \in V THEN Cardinality(AnsweredIn(checks, b, V)) + 1
                               ELSE Cardinality(AnsweredIn(checks, b, V))
    <3>1. /\ checks[r].bucket = b /\ checks[r].pc = "sent"
          /\ checks'[r].bucket = b /\ checks'[r].pc = v
          /\ \A q \in Requests \ {r} : checks'[q] = checks[q]
      BY <1>1, <1>2, <1>6
    <3>. QED  BY <2>1, <3>1, AnswerCounts
  <2>2. P \in Nat /\ P' = IF v = "passed" THEN P + 1 ELSE P
    <3>1. Passed(b)' = AnsweredIn(checks', b, {"passed"})
      BY DEF Passed, AnsweredIn
    <3>. QED  BY <2>1, <3>1, PassedIsAnswered DEF Verdicts
  <2>3. A \in Nat /\ A' = A + 1
    BY <2>1 DEF Answered
  <2>4. L \in Nat /\ L' = IF v \in {"passed", "unchecked"} THEN L + 1 ELSE L
    BY <2>1 DEF LetThrough, Verdicts
  <2>. QED  BY <2>2, <2>3, <2>4 DEF Verdicts
<1>10. /\ n <= A /\ P <= n /\ (n <= L \/ WindowLimit <= L)
       /\ P <= WindowLimit
       /\ AnsweredIn(checks, b, {"refused"}) # {} => WindowLimit <= L
  <2>1. CounterInv(b)
    BY DEF LimiterInv
  <2>2. {q \in Requests : checks[q].bucket = b /\ checks[q].pc \in {"passed", "unchecked"}}
          = LetThrough(b)
    BY DEF LetThrough, AnsweredIn
  <2>. QED  BY <1>3, <1>9, <2>1, <2>2, LimiterAssumption
            DEF LimiterInv, CounterInv, WindowRespected, AnsweredIn
<1>11. \A c \in Buckets : CounterInv(c)'
  <2>1. CounterInv(b)'
    BY <1>5, <1>7, <1>9, <1>10, LimiterAssumption DEF CounterInv, Closes, Opens, Verdicts
  <2>2. ASSUME NEW c \in Buckets, c # b PROVE CounterInv(c)'
    <3>1. Passed(c)' = Passed(c) /\ LetThrough(c)' = LetThrough(c) /\ Answered(c)' = Answered(c)
      <4>1. Passed(c)' = AnsweredIn(checks', c, {"passed"})
        BY DEF Passed, AnsweredIn
      <4>. QED  BY <1>8, <2>2, <4>1, PassedIsAnswered DEF LetThrough, Answered
    <3>. QED  BY <1>7, <2>2, <3>1 DEF LimiterInv, CounterInv, Closes, Opens
  <2>. QED  BY <2>1, <2>2
<1>12. WindowRespected'
  <2>1. P' <= WindowLimit
    BY <1>3, <1>5, <1>9, <1>10, LimiterAssumption
  <2>2. AnsweredIn(checks', b, {"refused"}) # {} => WindowLimit <= L'
    <3>1. CASE v = "refused"
      BY <1>3, <1>5, <1>9, <1>10, <3>1, LimiterAssumption
    <3>2. CASE v # "refused"
      <4>1. AnsweredIn(checks', b, {"refused"}) \subseteq AnsweredIn(checks, b, {"refused"})
        BY <1>2, <1>6, <3>2 DEF AnsweredIn
      <4>. QED  BY <1>9, <1>10, <3>2, <4>1, LimiterAssumption
    <3>. QED  BY <3>1, <3>2
  <2>3. ASSUME NEW c \in Buckets, c # b
        PROVE  /\ Cardinality(Passed(c)') <= WindowLimit
               /\ AnsweredIn(checks', c, {"refused"}) # {} => WindowLimit <= Cardinality(LetThrough(c)')
    <3>1. Passed(c)' = AnsweredIn(checks', c, {"passed"})
      BY DEF Passed, AnsweredIn
    <3>2. Passed(c)' = Passed(c) /\ LetThrough(c)' = LetThrough(c)
      BY <1>8, <2>3, <3>1, PassedIsAnswered DEF LetThrough
    <3>3. {q \in Requests : checks[q].bucket = c /\ checks[q].pc \in {"passed", "unchecked"}}
            = LetThrough(c)
      BY DEF LetThrough, AnsweredIn
    <3>4. /\ Cardinality(Passed(c)) <= WindowLimit
          /\ AnsweredIn(checks, c, {"refused"}) # {} => WindowLimit <= Cardinality(LetThrough(c))
      BY <3>3 DEF LimiterInv, WindowRespected, AnsweredIn
    <3>5. AnsweredIn(checks', c, {"refused"}) = AnsweredIn(checks, c, {"refused"})
      BY <1>8, <2>3
    <3>. QED  BY <3>2, <3>4, <3>5
  <2>4. \A c \in Buckets :
          {q \in Requests : checks'[q].bucket = c /\ checks'[q].pc \in {"passed", "unchecked"}}
            = LetThrough(c)'
    BY DEF LetThrough, AnsweredIn
  <2>. QED  BY <2>1, <2>2, <2>3, <2>4 DEF WindowRespected, AnsweredIn
<1>13. LimiterTypeOK'
  <2>1. A' \in Nat /\ A' <= Cardinality(Requests) /\ Cardinality(Requests) \in Nat
    <3>1. Answered(b)' \subseteq Requests
      BY DEF Answered, AnsweredIn
    <3>. QED  BY <3>1, LimiterAssumption, FS_Subset, FS_CardinalityType
  <2>2. counters'[b].count \in 0..Cardinality(Requests)
    BY <1>7, <1>9, <1>10, <2>1
  <2>3. counters' \in [Buckets -> [count : 0..Cardinality(Requests), expires : Nat]]
    <3>1. CASE counters' = counters
      BY <1>6, <3>1
    <3>2. CASE counters' = [counters EXCEPT ![b] = Incremented(counters[b])]
      <4>1. Incremented(counters[b]) \in [count : 0..Cardinality(Requests), expires : Nat]
        BY <1>4, <1>6, <2>2, <3>2 DEF Incremented
      <4>. QED  BY <1>6, <3>2, <4>1
    <3>. QED  BY <1>5, <3>1, <3>2
  <2>4. checks' \in [Requests -> [pc : {"new", "sent"} \cup Verdicts,
                                 bucket : Buckets, at : 0..LastSecond]]
    BY <1>2, <1>6
  <2>. QED  BY <1>2, <2>3, <2>4 DEF LimiterInv, LimiterTypeOK
<1>14. OnItsWay'
  BY <1>2, <1>6 DEF LimiterInv, OnItsWay, Verdicts
<1>. QED  BY <1>11, <1>12, <1>13, <1>14 DEF LimiterInv

\* The invariant holds in every state.
THEOREM LimiterInvariant == LimiterSpec => []LimiterInv
<1>1. LimiterInit => LimiterInv
  <2>. SUFFICES ASSUME LimiterInit PROVE LimiterInv
    OBVIOUS
  <2>1. /\ \A r \in Requests : checks[r] = [pc |-> "new", bucket |-> 0, at |-> 0]
        /\ \A b \in Buckets : counters[b] = NoCounter
    BY DEF LimiterInit
  <2>2. IsFiniteSet(Requests) /\ Cardinality(Requests) \in Nat /\ 0 \in Buckets /\ LastSecond \in Nat
    <3>1. 0 \in 0..LastSecond /\ LastSecond \div WindowSeconds \in Nat
      BY LimiterAssumption
    <3>. QED  BY <3>1, LimiterAssumption, FS_CardinalityType DEF Buckets
  <2>3. LimiterTypeOK
    BY <2>1, <2>2 DEF LimiterInit, LimiterTypeOK, NoCounter
  <2>4. \A b : Passed(b) = {} /\ Answered(b) = {} /\ LetThrough(b) = {}
    BY <2>1 DEF Passed, Answered, LetThrough, AnsweredIn, Verdicts
  <2>5. Cardinality({}) = 0
    BY FS_EmptySet
  <2>6. WindowRespected
    BY <2>1, <2>4, <2>5, LimiterAssumption DEF WindowRespected
  <2>7. \A b \in Buckets : CounterInv(b)
    BY <2>1, <2>4, <2>5 DEF CounterInv, NoCounter
  <2>. QED  BY <2>1, <2>3, <2>6, <2>7 DEF LimiterInv, OnItsWay
<1>2. LimiterInv /\ [LimiterNext]_limiterVars => LimiterInv'
  <2>. SUFFICES ASSUME LimiterInv, [LimiterNext]_limiterVars PROVE LimiterInv'
    OBVIOUS
  <2>0. LimiterTypeOK /\ OnItsWay /\ LastSecond \in Nat
    BY LimiterAssumption DEF LimiterInv
\* What only moves requests that have no answer before and after.
  <2>1. ASSUME LimiterTypeOK', OnItsWay', counters' = counters,
               \A r \in Requests : \/ checks'[r] = checks[r]
                                   \/ checks[r].pc \notin Verdicts
                                      /\ checks'[r].pc \notin Verdicts
        PROVE  LimiterInv'
    <3>1. ASSUME NEW b, NEW V, V \subseteq Verdicts
          PROVE  AnsweredIn(checks', b, V) = AnsweredIn(checks, b, V)
      BY <2>1, <3>1 DEF AnsweredIn
    <3>2. ASSUME NEW b \in Buckets
          PROVE  Passed(b)' = Passed(b) /\ Answered(b)' = Answered(b) /\ LetThrough(b)' = LetThrough(b)
      <4>1. Passed(b)' = AnsweredIn(checks', b, {"passed"})
        BY DEF Passed, AnsweredIn
      <4>. QED  BY <3>1, <4>1, PassedIsAnswered DEF Answered, LetThrough, Verdicts
    <3>3. \A b \in Buckets : CounterInv(b)'
      BY <2>1, <3>2 DEF LimiterInv, CounterInv, Closes, Opens
    <3>4. WindowRespected'
      <4>1. ASSUME NEW b \in Buckets
            PROVE  /\ AnsweredIn(checks', b, {"refused"}) = AnsweredIn(checks, b, {"refused"})
                   /\ {r \in Requests : checks'[r].bucket = b /\ checks'[r].pc \in {"passed", "unchecked"}}
                        = LetThrough(b)
                   /\ {r \in Requests : checks[r].bucket = b /\ checks[r].pc \in {"passed", "unchecked"}}
                        = LetThrough(b)
        <5>1. {"refused"} \subseteq Verdicts
          BY DEF Verdicts
        <5>2. LetThrough(b)' = LetThrough(b)
          BY <3>2
        <5>3. LetThrough(b)' =
                {r \in Requests : checks'[r].bucket = b /\ checks'[r].pc \in {"passed", "unchecked"}}
          BY DEF LetThrough, AnsweredIn
        <5>4. LetThrough(b) =
                {r \in Requests : checks[r].bucket = b /\ checks[r].pc \in {"passed", "unchecked"}}
          BY DEF LetThrough, AnsweredIn
        <5>. QED  BY <3>1, <5>1, <5>2, <5>3, <5>4
      <4>2. ASSUME NEW b \in Buckets
            PROVE  /\ Cardinality(Passed(b)) <= WindowLimit
                   /\ AnsweredIn(checks, b, {"refused"}) # {} => WindowLimit <= Cardinality(LetThrough(b))
        BY <4>1 DEF LimiterInv, WindowRespected, AnsweredIn
      <4>3. ASSUME NEW b \in Buckets, NEW q \in Requests,
                   checks'[q].pc = "refused", checks'[q].bucket = b
            PROVE  WindowLimit <= Cardinality(LetThrough(b))
        <5>1. q \in AnsweredIn(checks', b, {"refused"})
          BY <4>3 DEF AnsweredIn
        <5>. QED  BY <4>1, <4>2, <5>1
      <4>. QED  BY <3>2, <4>1, <4>2, <4>3 DEF WindowRespected
    <3>. QED  BY <2>1, <3>3, <3>4 DEF LimiterInv
  <2>2. ASSUME NEW r \in Requests, SendCheck(r) PROVE LimiterInv'
    <3>1. /\ checks[r].pc = "new" /\ counters' = counters /\ clock' = clock
          /\ checks' = [checks EXCEPT ![r] = [pc |-> "sent", bucket |-> Bucket(clock), at |-> clock]]
      BY <2>2 DEF SendCheck
    <3>2. clock \in 0..LastSecond /\ Bucket(clock) \in Buckets
      BY <2>0, BucketBounds DEF LimiterTypeOK
    <3>3. /\ checks'[r] = [pc |-> "sent", bucket |-> Bucket(clock), at |-> clock]
          /\ \A q \in Requests \ {r} : checks'[q] = checks[q]
      BY <2>0, <3>1 DEF LimiterTypeOK
    <3>4. LimiterTypeOK'
      BY <2>0, <3>1, <3>2 DEF LimiterTypeOK
    <3>5. OnItsWay'
      <4>1. clock <= clock + CallSeconds /\ clock <= clock
        BY <3>2, LimiterAssumption
      <4>. QED  BY <2>0, <3>1, <3>3, <4>1 DEF OnItsWay
    <3>6. \A q \in Requests : \/ checks'[q] = checks[q]
                              \/ checks[q].pc \notin Verdicts
                                 /\ checks'[q].pc \notin Verdicts
      BY <3>1, <3>3 DEF Verdicts
    <3>. QED  BY <2>1, <3>1, <3>4, <3>5, <3>6
  <2>3. ASSUME NEW r \in Requests, RedisAnswers(r) \/ RedisFails(r) PROVE LimiterInv'
    BY <2>3, AnswerKeeps
  <2>4. CASE Second
    <3>1. /\ clock' = clock + 1 /\ clock < LastSecond /\ counters' = counters /\ checks' = checks
          /\ \A r \in Requests : checks[r].pc = "sent" => clock < checks[r].at + CallSeconds
      BY <2>4 DEF Second
    <3>2. LimiterTypeOK'
      BY <2>0, <3>1 DEF LimiterTypeOK
    <3>3. OnItsWay'
      <4>1. ASSUME NEW r \in Requests, checks[r].pc = "sent"
            PROVE  checks[r].at <= clock + 1 /\ clock + 1 <= checks[r].at + CallSeconds
        <5>1. checks[r].at \in Nat /\ clock \in Nat
          BY <2>0 DEF LimiterTypeOK
        <5>. QED  BY <2>0, <3>1, <4>1, <5>1, LimiterAssumption DEF OnItsWay
      <4>. QED  BY <2>0, <3>1, <4>1 DEF OnItsWay
    <3>. QED  BY <2>1, <3>1, <3>2, <3>3
  <2>5. CASE UNCHANGED limiterVars
    <3>1. clock' = clock /\ counters' = counters /\ checks' = checks
      BY <2>5 DEF limiterVars
    <3>2. LimiterTypeOK' /\ OnItsWay'
      BY <2>0, <3>1 DEF LimiterTypeOK, OnItsWay
    <3>. QED  BY <2>1, <3>1, <3>2
  <2>. QED  BY <2>2, <2>3, <2>4, <2>5 DEF LimiterNext
<1>. QED  BY <1>1, <1>2, PTL DEF LimiterSpec

\* However late the transactions of a window reach Redis, no more than the
\* limit pass, and nobody is refused before the limit is reached
\* (FixedWindowLimiter.check): EXPIRE's extra second is enough for every
\* window, limit and number of requests.
THEOREM WindowIsRespected == LimiterSpec => []WindowRespected
<1>1. LimiterInv => WindowRespected
  BY DEF LimiterInv
<1>. QED  BY <1>1, LimiterInvariant, PTL

-----------------------------------------------------------------------------
(* A batch of the media downloader. *)

\* Where a task is, what it has found, and what its row says.
TaskInv(a) ==
    /\ task[a].step = "asleep" => task[a].attempt # 1
    /\ task[a].step \in {"recording", "updating", "committing"} => task[a].verdict # "none"
    /\ task[a].step = "updating" => task[a].verdict = "downloaded"
    /\ task[a].verdict = "failed" => task[a].attempt = MaxAttempts
    /\ task[a].value <= tally
    /\ a \in lostCommits => task[a].step = "done"
    /\ IF task[a].step = "done" THEN ledger[a].status = "pending" => a \in lostCommits
                                ELSE ledger[a].status \in {"pending", "deleted"}
    /\ ledger[a].status = "failed" => task[a].attempt = MaxAttempts

\* The first attempt at a name of its own finds no file there, and makes one.
OwnInv(a) ==
    Distinct(a) /\ task[a].attempt = 1 =>
        /\ task[a].step = "queued" => files[FileName(a)] = NoFile
        /\ task[a].step = "fetching" => task[a].own /\ files[FileName(a)] = Part(a)
        /\ task[a].verdict = "downloaded" => task[a].sha = Whole(a)
        /\ ledger[a].status = "downloaded" => ledger[a].sha = Whole(a)

\* The tasks that have read their row, and those behind an increment of the
\* counter as long as the rows are there.
HaveRead == {a \in Attachments : task[a].step \in {"updating", "committing", "done"}}
Counted ==
    {a \in Attachments : \/ task[a].verdict = "downloaded" /\ task[a].step \in {"updating", "committing"}
                         \/ ledger[a].status = "downloaded"
                         \/ a \in lostCommits}
NoneDeleted == \A a \in Attachments : ledger[a].status # "deleted"

TallyInv ==
    /\ stored <= tally /\ tally <= Cardinality(HaveRead)
    /\ NoneDeleted \/ \A a \in Attachments : ledger[a].status = "deleted"
    /\ NoneDeleted => tally <= Cardinality(Counted)

MediaInv ==
    /\ MediaTypeOK /\ TallyInv
    /\ \A a \in Attachments : TaskInv(a) /\ OwnInv(a)

\* An attachment unlike all others has a path of its own.
LEMMA PathOfItsOwn ==
    ASSUME NEW a \in Attachments, Distinct(a), NEW b \in Attachments, b # a
    PROVE  FileName(b) # FileName(a)
<1>1. page[a].kind # page[b].kind \/ page[a].ext # page[b].ext \/ SizeOf(a) # SizeOf(b)
  BY DEF Distinct
<1>. QED  BY <1>1 DEF FileName

\* Sets of attachments can be counted.
LEMMA AttachmentCounts ==
    ASSUME NEW S \in SUBSET Attachments
    PROVE  /\ IsFiniteSet(S) /\ Cardinality(S) \in Nat
           /\ Cardinality(Attachments) \in Nat
           /\ Cardinality(S) <= Cardinality(Attachments)
           /\ \A T \in SUBSET S : Cardinality(T) \in Nat /\ Cardinality(T) <= Cardinality(S)
           /\ \A T \in SUBSET S : \A a \in S \ T : Cardinality(T) + 1 <= Cardinality(S)
<1>1. IsFiniteSet(S) /\ IsFiniteSet(Attachments) /\ Cardinality(S) <= Cardinality(Attachments)
  BY MediaAssumption, FS_Subset
<1>2. ASSUME NEW T \in SUBSET S
      PROVE  IsFiniteSet(T) /\ Cardinality(T) \in Nat /\ Cardinality(T) <= Cardinality(S)
  BY <1>1, FS_Subset, FS_CardinalityType
<1>3. ASSUME NEW T \in SUBSET S, NEW a \in S \ T
      PROVE  Cardinality(T) + 1 <= Cardinality(S)
  <2>1. Cardinality(T \cup {a}) = Cardinality(T) + 1
    BY <1>2, FS_AddElement
  <2>2. T \cup {a} \in SUBSET S
    OBVIOUS
  <2>. QED  BY <1>2, <2>1, <2>2
<1>. QED  BY <1>1, <1>2, <1>3, FS_CardinalityType

\* A step of one task leaves what is known of the others.
LEMMA OthersKeep ==
    ASSUME MediaInv, NEW a \in Attachments, page' = page,
           tally' \in Nat, tally <= tally',
           \A p \in Paths : p # FileName(a) => files'[p] = files[p],
           \A b \in Attachments \ {a} : /\ task'[b] = task[b] /\ ledger'[b] = ledger[b]
                                        /\ b \in lostCommits' <=> b \in lostCommits
    PROVE  \A b \in Attachments \ {a} : TaskInv(b)' /\ OwnInv(b)'
<1>. SUFFICES ASSUME NEW b \in Attachments \ {a} PROVE TaskInv(b)' /\ OwnInv(b)'
  OBVIOUS
<1>1. TaskInv(b) /\ OwnInv(b) /\ task[b].value \in Nat /\ tally \in Nat
  <2>1. task[b] \in TaskRecords
    BY DEF MediaInv, MediaTypeOK
  <2>. QED  BY <2>1, AttachmentCounts DEF MediaInv, MediaTypeOK, TaskRecords
<1>2. TaskInv(b)'
  <2>1. task'[b].value <= tally'
    BY <1>1 DEF TaskInv
  <2>. QED  BY <1>1, <2>1 DEF TaskInv
<1>3. Distinct(b)' = Distinct(b) /\ FileName(b)' = FileName(b)
  BY DEF Distinct, FileName, SizeOf
<1>4. Distinct(b) => files'[FileName(b)] = files[FileName(b)]
  BY PathOfItsOwn DEF Paths
<1>5. OwnInv(b)'
  BY <1>1, <1>3, <1>4 DEF OwnInv, Part, Whole, NoFile
<1>. QED  BY <1>2, <1>5

\* What a task knows of itself and what its record holds.
LEMMA TaskFacts ==
    ASSUME MediaInv, NEW a \in Attachments
    PROVE  /\ TaskInv(a) /\ OwnInv(a)
           /\ task[a] \in TaskRecords /\ task \in [Attachments -> TaskRecords]
           /\ files \in [Paths -> FileContents] /\ FileName(a) \in Paths
           /\ files[FileName(a)] \in FileContents
           /\ tally \in Nat /\ stored \in Nat /\ task[a].value \in Nat
           /\ task[a].attempt \in 1..MaxAttempts /\ MaxAttempts \in Nat
           /\ NoFile \in FileContents /\ Part(a) \in FileContents /\ Whole(a) \in FileContents
<1>1. task[a] \in TaskRecords /\ Cardinality(Attachments) \in Nat /\ FileName(a) \in Paths
  BY AttachmentCounts DEF MediaInv, MediaTypeOK, Paths
<1>2. NoFile \in FileContents /\ Part(a) \in FileContents /\ Whole(a) \in FileContents
  BY DEF FileContents, NoFile, Part, Whole
<1>. QED  BY <1>1, <1>2, MediaAssumption DEF MediaInv, MediaTypeOK, TaskRecords

\* A step that only works on the file moves no counter.
LEMMA FileStep ==
    ASSUME MediaInv, NEW a \in Attachments, page' = page,
           Fetch(a) \/ Fetched(a) \/ FetchFails(a)
    PROVE  MediaInv'
<1>1. /\ ledger' = ledger /\ tally' = tally /\ stored' = stored /\ lostCommits' = lostCommits
      /\ task[a].step \in {"queued", "asleep", "fetching"}
  BY DEF Fetch, Fetched, FetchFails
<1>2. /\ TaskInv(a) /\ OwnInv(a) /\ task[a] \in TaskRecords /\ task \in [Attachments -> TaskRecords]
      /\ files \in [Paths -> FileContents] /\ FileName(a) \in Paths
      /\ files[FileName(a)] \in FileContents
      /\ task[a].attempt \in 1..MaxAttempts /\ MaxAttempts \in Nat
      /\ Part(a) \in FileContents
  BY TaskFacts
<1>3. Distinct(a)' = Distinct(a) /\ FileName(a)' = FileName(a) /\ Paths' = Paths
  BY DEF Distinct, FileName, SizeOf, Paths
<1>4. /\ files' \in [Paths -> FileContents]
      /\ \A p \in Paths : p # FileName(a) => files'[p] = files[p]
      /\ task' \in [Attachments -> TaskRecords]
      /\ \A b \in Attachments \ {a} : task'[b] = task[b]
      /\ task'[a].step \in {"fetching", "recording", "asleep"} /\ task'[a].value = task[a].value
      /\ TaskInv(a)' /\ OwnInv(a)'
  <2>1. CASE Fetch(a)
    <3>1. /\ task' = [task EXCEPT ![a].step = "fetching", ![a].own = (files[FileName(a)] = NoFile)]
          /\ files' = IF files[FileName(a)] = NoFile THEN [files EXCEPT ![FileName(a)] = Part(a)] ELSE files
          /\ task[a].step \in {"queued", "asleep"}
      BY <2>1 DEF Fetch
    <3>2. /\ task'[a] = [task[a] EXCEPT !.step = "fetching", !.own = (files[FileName(a)] = NoFile)]
          /\ \A b \in Attachments \ {a} : task'[b] = task[b]
          /\ task' \in [Attachments -> TaskRecords]
      BY <1>2, <3>1 DEF TaskRecords
    <3>3. files' \in [Paths -> FileContents] /\ \A p \in Paths : p # FileName(a) => files'[p] = files[p]
      BY <1>2, <3>1
    <3>4. TaskInv(a)'
      BY <1>1, <1>2, <3>1, <3>2 DEF TaskInv, TaskRecords
    <3>5. OwnInv(a)'
      BY <1>1, <1>2, <1>3, <3>1, <3>2 DEF OwnInv, TaskInv, TaskRecords
    <3>. QED  BY <1>2, <3>2, <3>3, <3>4, <3>5 DEF TaskRecords
  <2>2. CASE Fetched(a)
    <3>. DEFINE now == IF task[a].own THEN [files EXCEPT ![FileName(a)].whole = TRUE] ELSE files
    <3>1. /\ task' = [task EXCEPT ![a].step = "recording", ![a].sha = now[FileName(a)],
                                  ![a].verdict = "downloaded"]
          /\ files' = now /\ task[a].step = "fetching"
      BY <2>2 DEF Fetched
    <3>2. now \in [Paths -> FileContents] /\ \A p \in Paths : p # FileName(a) => now[p] = files[p]
      BY <1>2 DEF FileContents
    <3>3. /\ task'[a] = [task[a] EXCEPT !.step = "recording", !.sha = now[FileName(a)],
                                        !.verdict = "downloaded"]
          /\ \A b \in Attachments \ {a} : task'[b] = task[b]
          /\ task' \in [Attachments -> TaskRecords]
      BY <1>2, <3>1, <3>2 DEF TaskRecords
    <3>4. TaskInv(a)'
      BY <1>1, <1>2, <3>1, <3>3 DEF TaskInv, TaskRecords
    <3>5. task[a].own /\ files[FileName(a)] = Part(a) => now[FileName(a)] = Whole(a)
      <4>1. ASSUME task[a].own, files[FileName(a)] = Part(a)
            PROVE  now[FileName(a)].of = a /\ now[FileName(a)].whole = TRUE
        BY <1>2, <4>1 DEF Part
      <4>2. \A x \in FileContents : x.of = a /\ x.whole = TRUE => x = Whole(a)
        BY DEF FileContents, Whole
      <4>3. now[FileName(a)] \in FileContents
        BY <1>2, <3>2
      <4>. QED  BY <4>1, <4>2, <4>3
    <3>6. OwnInv(a)'
      BY <1>1, <1>2, <1>3, <3>1, <3>3, <3>5 DEF OwnInv, TaskInv, TaskRecords
    <3>. QED  BY <1>2, <3>1, <3>2, <3>3, <3>4, <3>6 DEF TaskRecords
  <2>3. CASE FetchFails(a)
    <3>1. /\ task' = IF task[a].attempt < MaxAttempts
                     THEN [task EXCEPT ![a].step = "asleep", ![a].attempt = task[a].attempt + 1]
                     ELSE [task EXCEPT ![a].step = "recording", ![a].verdict = "failed"]
          /\ files' = files /\ task[a].step = "fetching"
      BY <2>3 DEF FetchFails
    <3>2. /\ task'[a] = IF task[a].attempt < MaxAttempts
                        THEN [task[a] EXCEPT !.step = "asleep", !.attempt = task[a].attempt + 1]
                        ELSE [task[a] EXCEPT !.step = "recording", !.verdict = "failed"]
          /\ \A b \in Attachments \ {a} : task'[b] = task[b]
          /\ task' \in [Attachments -> TaskRecords]
      <4>1. task[a].attempt < MaxAttempts => task[a].attempt + 1 \in 1..MaxAttempts
        BY <1>2
      <4>2. CASE task[a].attempt < MaxAttempts
        BY <1>2, <3>1, <4>1, <4>2 DEF TaskRecords
      <4>3. CASE ~(task[a].attempt < MaxAttempts)
        BY <1>2, <3>1, <4>3 DEF TaskRecords
      <4>. QED  BY <4>2, <4>3
    <3>3. TaskInv(a)'
      BY <1>1, <1>2, <3>1, <3>2 DEF TaskInv, TaskRecords
    <3>4. OwnInv(a)'
      BY <1>1, <1>2, <1>3, <3>1, <3>2 DEF OwnInv, TaskInv, TaskRecords
    <3>. QED  BY <1>2, <3>1, <3>2, <3>3, <3>4 DEF TaskRecords
  <2>. QED  BY <2>1, <2>2, <2>3
<1>5. MediaTypeOK'
  BY <1>1, <1>3, <1>4 DEF MediaInv, MediaTypeOK
<1>6. TallyInv'
  <2>1. HaveRead' = HaveRead
    BY <1>1, <1>4 DEF HaveRead
  <2>2. Counted' = Counted
    BY <1>1, <1>4 DEF Counted
  <2>3. NoneDeleted' = NoneDeleted
    BY <1>1 DEF NoneDeleted
  <2>. QED  BY <1>1, <2>1, <2>2, <2>3 DEF MediaInv, TallyInv
<1>7. \A b \in Attachments \ {a} : TaskInv(b)' /\ OwnInv(b)'
  <2>1. tally \in Nat /\ tally <= tally
    BY TaskFacts
  <2>. QED  BY <1>1, <1>4, <2>1, OthersKeep
<1>. QED  BY <1>4, <1>5, <1>6, <1>7 DEF MediaInv

\* A step that reads or writes the row of a task.
LEMMA RowStep ==
    ASSUME MediaInv, NEW a \in Attachments, page' = page,
           ReadRow(a) \/ UpdateCounter(a) \/ CommitRow(a) \/ DatabaseFails(a)
    PROVE  MediaInv'
<1>1. /\ files' = files /\ task[a].step \in {"recording", "updating", "committing"}
      /\ ledger[a].status \in {"pending", "deleted"} /\ a \notin lostCommits
  <2>1. TaskInv(a)
    BY TaskFacts
  <2>. QED  BY <2>1 DEF ReadRow, UpdateCounter, CommitRow, DatabaseFails, TaskInv
<1>2. /\ TaskInv(a) /\ OwnInv(a) /\ task[a] \in TaskRecords /\ task \in [Attachments -> TaskRecords]
      /\ tally \in Nat /\ stored \in Nat /\ task[a].value \in Nat
  BY TaskFacts
<1>3. Distinct(a)' = Distinct(a) /\ FileName(a)' = FileName(a) /\ Paths' = Paths
  BY DEF Distinct, FileName, SizeOf, Paths
<1>4. tally + 1 <= Cardinality(Attachments) \/ task[a].step # "recording"
  <2>1. CASE task[a].step = "recording"
    <3>1. HaveRead \in SUBSET Attachments /\ a \in Attachments \ HaveRead
      BY <2>1 DEF HaveRead
    <3>2. Cardinality(HaveRead) + 1 <= Cardinality(Attachments) /\ Cardinality(HaveRead) \in Nat
          /\ Cardinality(Attachments) \in Nat
      BY <3>1, AttachmentCounts
    <3>. QED  BY <1>2, <3>2 DEF MediaInv, TallyInv
  <2>. QED  BY <2>1
\* What the four steps have in common.
<1>5. /\ task' \in [Attachments -> TaskRecords]
      /\ \A b \in Attachments \ {a} : /\ task'[b] = task[b] /\ ledger'[b] = ledger[b]
                                      /\ b \in lostCommits' <=> b \in lostCommits
      /\ task'[a].attempt = task[a].attempt /\ task'[a].verdict = task[a].verdict
      /\ task'[a].sha = task[a].sha
      /\ task'[a].step \in {"updating", "committing", "done"}
      /\ task'[a].step = "updating" => task[a].verdict = "downloaded"
      /\ task'[a].value \in {task[a].value, tally'}
      /\ \/ tally' = tally
         \/ /\ tally' = tally + 1 /\ task[a].step = "recording" /\ task[a].verdict = "downloaded"
            /\ task'[a].step \in {"updating", "committing"}
      /\ stored' \in {stored, task[a].value}
      /\ lostCommits' \in {lostCommits, lostCommits \cup {a}}
      /\ a \in lostCommits' => task'[a].step = "done"
      /\ \/ ledger' = ledger
         \/ /\ task'[a].step = "done" /\ ledger[a].status # "deleted"
            /\ ledger' = [ledger EXCEPT ![a] = [status |-> task[a].verdict, sha |-> task[a].sha]]
      /\ task'[a].step = "done" /\ ledger[a].status = "pending" /\ ledger' = ledger => a \in lostCommits'
  <2>1. CASE ReadRow(a)
    <3>1. CASE ledger[a].status = "deleted"
      <4>1. /\ task' = [task EXCEPT ![a].step = "done"] /\ tally' = tally
            /\ ledger' = ledger /\ stored' = stored /\ lostCommits' = lostCommits
        BY <2>1, <3>1 DEF ReadRow
      <4>2. task'[a] = [task[a] EXCEPT !.step = "done"] /\ task' \in [Attachments -> TaskRecords]
        BY <1>2, <4>1 DEF TaskRecords
      <4>. QED  BY <1>1, <1>2, <3>1, <4>1, <4>2 DEF TaskRecords
    <3>2. CASE ledger[a].status # "deleted" /\ task[a].verdict = "downloaded"
      <4>1. /\ task' = [task EXCEPT ![a].step = "updating", ![a].value = tally + 1]
            /\ tally' = tally + 1 /\ task[a].step = "recording"
            /\ ledger' = ledger /\ stored' = stored /\ lostCommits' = lostCommits
        BY <2>1, <3>2 DEF ReadRow
      <4>2. /\ task'[a] = [task[a] EXCEPT !.step = "updating", !.value = tally + 1]
            /\ task' \in [Attachments -> TaskRecords]
        <5>1. tally + 1 \in 0..Cardinality(Attachments)
          <6>1. Cardinality(Attachments) \in Nat
            BY AttachmentCounts
          <6>. QED  BY <1>2, <1>4, <4>1, <6>1
        <5>. QED  BY <1>2, <4>1, <5>1 DEF TaskRecords
      <4>. QED  BY <1>1, <1>2, <3>2, <4>1, <4>2 DEF TaskRecords
    <3>3. CASE ledger[a].status # "deleted" /\ task[a].verdict = "failed"
      <4>1. /\ task' = [task EXCEPT ![a].step = "committing"] /\ tally' = tally
            /\ ledger' = ledger /\ stored' = stored /\ lostCommits' = lostCommits
        BY <2>1, <3>3 DEF ReadRow
      <4>2. task'[a] = [task[a] EXCEPT !.step = "committing"] /\ task' \in [Attachments -> TaskRecords]
        BY <1>2, <4>1 DEF TaskRecords
      <4>. QED  BY <1>1, <1>2, <3>3, <4>1, <4>2 DEF TaskRecords
    <3>. QED  BY <2>1, <3>1, <3>2, <3>3 DEF ReadRow
  <2>2. CASE UpdateCounter(a)
    <3>1. /\ task' = [task EXCEPT ![a].step = "committing"] /\ tally' = tally
          /\ ledger' = ledger /\ stored' = stored /\ lostCommits' = lostCommits
      BY <2>2 DEF UpdateCounter
    <3>2. task'[a] = [task[a] EXCEPT !.step = "committing"] /\ task' \in [Attachments -> TaskRecords]
      BY <1>2, <3>1 DEF TaskRecords
    <3>. QED  BY <1>1, <1>2, <3>1, <3>2 DEF TaskRecords
  <2>3. CASE CommitRow(a)
    <3>1. /\ task' = [task EXCEPT ![a].step = "done"] /\ tally' = tally /\ lostCommits' = lostCommits
          /\ \/ ledger[a].status = "deleted" /\ ledger' = ledger /\ stored' = stored
             \/ /\ ledger[a].status # "deleted"
                /\ ledger' = [ledger EXCEPT ![a] = [status |-> task[a].verdict, sha |-> task[a].sha]]
                /\ stored' = IF task[a].verdict = "downloaded" THEN task[a].value ELSE stored
      BY <2>3 DEF CommitRow
    <3>2. task'[a] = [task[a] EXCEPT !.step = "done"] /\ task' \in [Attachments -> TaskRecords]
      BY <1>2, <3>1 DEF TaskRecords
    <3>3. \A b \in Attachments \ {a} : ledger'[b] = ledger[b]
      BY <3>1 DEF MediaInv, MediaTypeOK
    <3>4. /\ stored' \in {stored, task[a].value}
          /\ \/ ledger' = ledger
             \/ /\ ledger[a].status # "deleted"
                /\ ledger' = [ledger EXCEPT ![a] = [status |-> task[a].verdict, sha |-> task[a].sha]]
      BY <3>1
    <3>5. ledger[a].status = "pending" /\ ledger' = ledger => FALSE
      <4>1. SUFFICES ASSUME ledger[a].status = "pending", ledger' = ledger PROVE FALSE
        OBVIOUS
      <4>2. ledger'[a] = [status |-> task[a].verdict, sha |-> task[a].sha]
        BY <3>1, <4>1 DEF MediaInv, MediaTypeOK
      <4>3. task[a].verdict = "pending"
        BY <4>1, <4>2
      <4>. QED  BY <1>2, <4>3 DEF TaskRecords
    <3>. QED  BY <1>1, <1>2, <3>1, <3>2, <3>3, <3>4, <3>5 DEF TaskRecords
  <2>4. CASE DatabaseFails(a)
    <3>1. /\ task' = [task EXCEPT ![a].step = "done"] /\ tally' = tally
          /\ ledger' = ledger /\ stored' = stored /\ lostCommits' = lostCommits \cup {a}
      BY <2>4 DEF DatabaseFails
    <3>2. task'[a] = [task[a] EXCEPT !.step = "done"] /\ task' \in [Attachments -> TaskRecords]
      BY <1>2, <3>1 DEF TaskRecords
    <3>. QED  BY <1>1, <1>2, <3>1, <3>2 DEF TaskRecords
  <2>. QED  BY <2>1, <2>2, <2>3, <2>4
<1>6. tally' \in Nat /\ tally <= tally' /\ tally' <= tally + 1
  BY <1>2, <1>5
<1>7. ledger' \in [Attachments -> MediaRows] /\ ledger'[a].status \in {ledger[a].status, task[a].verdict}
      /\ (ledger' # ledger => ledger'[a] = [status |-> task[a].verdict, sha |-> task[a].sha])
  <2>1. CASE ledger' = ledger
    BY <2>1 DEF MediaInv, MediaTypeOK
  <2>2. CASE ledger' = [ledger EXCEPT ![a] = [status |-> task[a].verdict, sha |-> task[a].sha]]
    <3>1. task[a].verdict \in {"downloaded", "failed"} /\ task[a].sha \in FileContents
      BY <1>1, <1>2 DEF TaskInv, TaskRecords
    <3>2. [status |-> task[a].verdict, sha |-> task[a].sha] \in MediaRows
      BY <3>1 DEF MediaRows
    <3>3. ledger'[a] = [status |-> task[a].verdict, sha |-> task[a].sha]
      BY <2>2 DEF MediaInv, MediaTypeOK
    <3>. QED  BY <2>2, <3>2, <3>3 DEF MediaInv, MediaTypeOK
  <2>. QED  BY <1>5, <2>1, <2>2
<1>8. TaskInv(a)'
  <2>1. task'[a].value <= tally'
    BY <1>2, <1>5, <1>6 DEF TaskInv
  <2>2. task'[a].step = "done" /\ ledger'[a].status = "pending" => a \in lostCommits'
    <3>1. CASE ledger' = ledger
      BY <1>1, <1>5, <3>1
    <3>2. CASE ledger' # ledger
      <4>1. ledger'[a].status = task[a].verdict
        BY <1>7, <3>2
      <4>. QED  BY <1>1, <1>2, <4>1 DEF TaskInv, TaskRecords
    <3>. QED  BY <3>1, <3>2
  <2>3. task'[a].step # "done" => ledger'[a].status \in {"pending", "deleted"}
    BY <1>1, <1>5
  <2>4. ledger'[a].status = "failed" => task[a].attempt = MaxAttempts
    BY <1>1, <1>2, <1>7 DEF TaskInv
  <2>. QED  BY <1>1, <1>2, <1>5, <2>1, <2>2, <2>3, <2>4 DEF TaskInv
<1>9. OwnInv(a)'
  <2>1. SUFFICES ASSUME Distinct(a), task[a].attempt = 1, task[a].verdict = "downloaded" => task[a].sha = Whole(a),
                        ledger'[a].status = "downloaded"
                 PROVE  ledger'[a].sha = Whole(a)
    BY <1>2, <1>3, <1>5 DEF OwnInv, Whole
  <2>. QED  BY <1>1, <1>7, <2>1
<1>10. \A b \in Attachments \ {a} : TaskInv(b)' /\ OwnInv(b)'
  <2>1. \A p \in Paths : p # FileName(a) => files'[p] = files[p]
    BY <1>1
  <2>. QED  BY <1>5, <1>6, <2>1, OthersKeep
<1>11. TallyInv'
  <2>1. /\ stored <= tally /\ tally <= Cardinality(HaveRead)
        /\ NoneDeleted \/ \A b \in Attachments : ledger[b].status = "deleted"
        /\ NoneDeleted => tally <= Cardinality(Counted)
    BY DEF MediaInv, TallyInv
  <2>2. stored' <= tally'
    BY <1>2, <1>5, <1>6, <2>1 DEF TaskInv
  <2>3. tally' <= Cardinality(HaveRead')
    <3>1. /\ HaveRead' \in SUBSET Attachments /\ HaveRead \in SUBSET HaveRead'
          /\ tally' = tally + 1 => a \in HaveRead' \ HaveRead
      BY <1>1, <1>2, <1>5 DEF HaveRead
    <3>2. /\ Cardinality(HaveRead) \in Nat /\ Cardinality(HaveRead') \in Nat
          /\ Cardinality(HaveRead) <= Cardinality(HaveRead')
          /\ tally' = tally + 1 => Cardinality(HaveRead) + 1 <= Cardinality(HaveRead')
      BY <3>1, AttachmentCounts
    <3>. QED  BY <1>2, <1>5, <2>1, <3>2
  <2>4. /\ ledger[a].status = "deleted" => ledger'[a].status = "deleted"
        /\ ledger[a].status # "deleted" => ledger'[a].status # "deleted"
    <3>1. task[a].verdict # "deleted"
      BY <1>2 DEF TaskRecords
    <3>2. ledger[a].status = "deleted" => ledger' = ledger
      BY <1>5
    <3>. QED  BY <1>7, <3>1, <3>2
  <2>5. /\ NoneDeleted' <=> NoneDeleted
        /\ NoneDeleted' \/ \A b \in Attachments : ledger'[b].status = "deleted"
    BY <1>5, <2>1, <2>4 DEF NoneDeleted
  <2>6. ASSUME NoneDeleted PROVE tally' <= Cardinality(Counted')
    <3>1. ledger[a].status = "pending"
      BY <1>1, <2>6 DEF NoneDeleted
    <3>2. a \in Counted => a \in Counted'
      <4>1. SUFFICES ASSUME a \in Counted, task'[a].step = "done", a \notin lostCommits'
                     PROVE  ledger'[a].status = "downloaded"
        BY <1>1, <1>5, <3>1 DEF Counted
      <4>2. task[a].verdict = "downloaded"
        BY <1>1, <3>1, <4>1 DEF Counted
      <4>. QED  BY <1>5, <1>7, <3>1, <4>1, <4>2
    <3>3. Counted' \in SUBSET Attachments /\ Counted \in SUBSET Counted'
      <4>1. \A b \in Attachments \ {a} : b \in Counted <=> b \in Counted'
        BY <1>5 DEF Counted
      <4>2. Counted \subseteq Attachments /\ Counted' \subseteq Attachments
        BY DEF Counted
      <4>. QED  BY <3>2, <4>1, <4>2
    <3>4. tally' = tally + 1 => a \in Counted' \ Counted
      BY <1>1, <1>2, <1>5, <3>1 DEF Counted
    <3>5. /\ Cardinality(Counted) \in Nat /\ Cardinality(Counted') \in Nat
          /\ Cardinality(Counted) <= Cardinality(Counted')
          /\ tally' = tally + 1 => Cardinality(Counted) + 1 <= Cardinality(Counted')
      BY <3>3, <3>4, AttachmentCounts
    <3>. QED  BY <1>2, <1>5, <2>1, <2>6, <3>5
  <2>. QED  BY <2>2, <2>3, <2>5, <2>6 DEF TallyInv
<1>12. MediaTypeOK'
  <2>1. tally' \in 0..Cardinality(Attachments)
    <3>1. Cardinality(Attachments) \in Nat
      BY AttachmentCounts
    <3>. QED  BY <1>4, <1>5, <1>6, <3>1 DEF MediaInv, MediaTypeOK
  <2>2. stored' \in 0..Cardinality(Attachments)
    BY <1>2, <1>5 DEF MediaInv, MediaTypeOK, TaskRecords
  <2>3. lostCommits' \subseteq Attachments /\ files' \in [Paths' -> FileContents]
    BY <1>1, <1>3, <1>5 DEF MediaInv, MediaTypeOK
  <2>. QED  BY <1>5, <1>7, <2>1, <2>2, <2>3 DEF MediaInv, MediaTypeOK
<1>. QED  BY <1>8, <1>9, <1>10, <1>11, <1>12 DEF MediaInv

\* A purge takes every row at once, and the claims about rows with them.
LEMMA PurgeStep ==
    ASSUME MediaInv, page' = page, RowsDeleted
    PROVE  MediaInv'
<1>1. /\ ledger' = [a \in Attachments |-> [status |-> "deleted", sha |-> NoFile]]
      /\ task' = task /\ files' = files /\ tally' = tally /\ stored' = stored
      /\ lostCommits' = lostCommits
  BY DEF RowsDeleted
<1>2. \A a \in Attachments : ledger'[a].status = "deleted"
  BY <1>1
<1>3. MediaTypeOK'
  <2>1. [status |-> "deleted", sha |-> NoFile] \in MediaRows
    BY DEF MediaRows, FileContents, NoFile
  <2>2. ledger' \in [Attachments -> MediaRows]
    BY <1>1, <2>1
  <2>3. Paths' = Paths
    BY DEF Paths, FileName, SizeOf
  <2>. QED  BY <1>1, <2>2, <2>3 DEF MediaInv, MediaTypeOK
<1>4. ASSUME NEW a \in Attachments PROVE TaskInv(a)' /\ OwnInv(a)'
  <2>1. TaskInv(a) /\ OwnInv(a) /\ ledger'[a].status = "deleted"
    BY <1>2 DEF MediaInv
  <2>2. TaskInv(a)'
    BY <1>1, <2>1 DEF TaskInv
  <2>3. Distinct(a)' = Distinct(a) /\ FileName(a)' = FileName(a)
    BY DEF Distinct, FileName, SizeOf
  <2>4. OwnInv(a)'
    BY <1>1, <2>1, <2>3 DEF OwnInv, Part, Whole, NoFile
  <2>. QED  BY <2>2, <2>4
<1>5. TallyInv'
  <2>1. HaveRead' = HaveRead
    BY <1>1 DEF HaveRead
  <2>2. NoneDeleted' => tally' <= Cardinality(Counted')
    <3>1. CASE Attachments = {}
      <4>1. Counted' = {} /\ Counted = {} /\ NoneDeleted
        BY <3>1 DEF Counted, NoneDeleted
      <4>. QED  BY <1>1, <4>1 DEF MediaInv, TallyInv
    <3>2. CASE Attachments # {}
      BY <1>2, <3>2 DEF NoneDeleted
    <3>. QED  BY <3>1, <3>2
  <2>. QED  BY <1>1, <1>2, <2>1, <2>2 DEF MediaInv, TallyInv
<1>. QED  BY <1>3, <1>4, <1>5 DEF MediaInv

\* The invariant holds in every state.
THEOREM MediaInvariant == MediaSpec => []MediaInv
<1>1. MediaInit => MediaInv
  <2>. SUFFICES ASSUME MediaInit PROVE MediaInv
    OBVIOUS
  <2>1. /\ \A a \in Attachments :
             /\ task[a] = [step |-> "queued", attempt |-> 1, own |-> FALSE,
                           verdict |-> "none", sha |-> NoFile, value |-> 0]
             /\ ledger[a] = [status |-> "pending", sha |-> NoFile]
        /\ \A p \in Paths : files[p] = NoFile
        /\ tally = 0 /\ stored = 0 /\ lostCommits = {}
    BY DEF MediaInit
  <2>2. MediaTypeOK
    <3>1. NoFile \in FileContents
      BY DEF NoFile, FileContents
    <3>2. 0 \in 0..Cardinality(Attachments)
      <4>1. Cardinality(Attachments) \in Nat
        BY AttachmentCounts
      <4>. QED  BY <4>1
    <3>3. 1 \in 1..MaxAttempts
      BY MediaAssumption
    <3>4. [step |-> "queued", attempt |-> 1, own |-> FALSE,
           verdict |-> "none", sha |-> NoFile, value |-> 0] \in TaskRecords
      BY <3>1, <3>2, <3>3 DEF TaskRecords
    <3>5. [status |-> "pending", sha |-> NoFile] \in MediaRows
      BY <3>1 DEF MediaRows
    <3>. QED  BY <3>1, <3>2, <3>4, <3>5 DEF MediaInit, MediaTypeOK
  <2>3. ASSUME NEW a \in Attachments PROVE TaskInv(a) /\ OwnInv(a)
    <3>1. FileName(a) \in Paths
      BY DEF Paths
    <3>. QED  BY <2>1, <3>1 DEF TaskInv, OwnInv
  <2>4. TallyInv
    <3>1. Cardinality(HaveRead) \in Nat /\ Cardinality(Counted) \in Nat
      <4>1. HaveRead \in SUBSET Attachments /\ Counted \in SUBSET Attachments
        BY DEF HaveRead, Counted
      <4>. QED  BY <4>1, AttachmentCounts
    <3>. QED  BY <2>1, <3>1 DEF TallyInv, NoneDeleted
  <2>. QED  BY <2>2, <2>3, <2>4 DEF MediaInv
<1>2. MediaInv /\ [MediaNext]_mediaVars => MediaInv'
  <2>. SUFFICES ASSUME MediaInv, [MediaNext]_mediaVars PROVE MediaInv'
    OBVIOUS
  <2>1. CASE MediaNext
    <3>1. page' = page
      BY <2>1 DEF MediaNext
    <3>. QED  BY <2>1, <3>1, FileStep, RowStep, PurgeStep DEF MediaNext
  <2>2. CASE UNCHANGED mediaVars
    <3>0. /\ page' = page /\ task' = task /\ files' = files /\ ledger' = ledger
          /\ tally' = tally /\ stored' = stored /\ lostCommits' = lostCommits
      BY <2>2 DEF mediaVars
    <3>1. MediaTypeOK'
      BY <3>0 DEF MediaInv, MediaTypeOK, Paths, FileName, SizeOf
    <3>2. TallyInv'
      BY <3>0 DEF MediaInv, TallyInv, HaveRead, Counted, NoneDeleted
    <3>3. ASSUME NEW a \in Attachments PROVE TaskInv(a)' /\ OwnInv(a)'
      BY <3>0 DEF MediaInv, TaskInv, OwnInv, Distinct, FileName, SizeOf, Part, Whole, NoFile
    <3>. QED  BY <3>1, <3>2, <3>3 DEF MediaInv
  <2>. QED  BY <2>1, <2>2
<1>. QED  BY <1>1, <1>2, PTL DEF MediaSpec

\* Whatever downloads beside it, an attachment unlike the others of its page
\* is recorded with the hash of its own whole file when its first attempt
\* succeeds (_download_one): for every page and every semaphore.
THEOREM FirstAttemptsAreOwn == MediaSpec => []OwnFile
<1>1. MediaInv => OwnFile
  BY DEF MediaInv, OwnInv, OwnFile, Downloaded
<1>. QED  BY <1>1, MediaInvariant, PTL

\* After a batch no row is left pending but by its own failed transaction,
\* none failed before its last attempt, and files_downloaded exceeds the
\* downloaded rows by no more than the failed transactions (download_batch,
\* _set_status): for every number of attachments, attempts and failures.
THEOREM BatchesSettle == MediaSpec => []BatchSettles
<1>1. ASSUME MediaInv PROVE BatchSettles
  <2>. SUFFICES ASSUME \A b \in Attachments : task[b].step = "done", NEW a \in Attachments
                PROVE  /\ ledger[a].status = "pending" => a \in lostCommits
                       /\ ledger[a].status = "failed" => task[a].attempt = MaxAttempts
                       /\ ledger[a].status # "deleted" =>
                             stored <= Cardinality(Downloaded) + Cardinality(lostCommits)
    BY DEF BatchSettles
  <2>1. TaskInv(a) /\ TallyInv /\ tally \in Nat /\ stored \in Nat
    BY <1>1, TaskFacts DEF MediaInv
  <2>2. ASSUME ledger[a].status # "deleted"
        PROVE  stored <= Cardinality(Downloaded) + Cardinality(lostCommits)
    <3>1. stored <= tally /\ tally <= Cardinality(Counted)
      BY <2>1, <2>2 DEF TallyInv
    <3>2. Counted = Downloaded \cup lostCommits
      BY <1>1 DEF Counted, Downloaded, MediaInv, MediaTypeOK
    <3>3. /\ IsFiniteSet(Downloaded) /\ IsFiniteSet(lostCommits)
          /\ Cardinality(Downloaded) \in Nat /\ Cardinality(lostCommits) \in Nat
      <4>1. Downloaded \in SUBSET Attachments /\ lostCommits \in SUBSET Attachments
        BY <1>1 DEF Downloaded, MediaInv, MediaTypeOK
      <4>. QED  BY <4>1, AttachmentCounts
    <3>4. /\ Cardinality(Downloaded \cup lostCommits)
               = Cardinality(Downloaded) + Cardinality(lostCommits)
                   - Cardinality(Downloaded \cap lostCommits)
          /\ Cardinality(Downloaded \cap lostCommits) \in Nat
      BY <3>3, FS_Union, FS_Intersection, FS_CardinalityType
    <3>. QED  BY <2>1, <3>1, <3>2, <3>3, <3>4
  <2>. QED  BY <2>1, <2>2 DEF TaskInv
<1>. QED  BY <1>1, MediaInvariant, PTL

-----------------------------------------------------------------------------
(* The WhatsApp packages. *)

\* A run of the chat: its messages one after another, oldest first.
Run(s, first, n) ==
    /\ n \in Nat /\ DOMAIN s = 1..n /\ Len(s) = n
    /\ \A i \in 1..n : s[i] = first + i - 1

\* The messages of a package follow one another, a sender under one name.
Told(lines, n) ==
    /\ DOMAIN lines = 1..n /\ Len(lines) = n
    /\ \A i, j \in 1..n :
          /\ lines[i].message - lines[1].message = i - 1
          /\ Author[lines[i].message] = Author[lines[j].message] => lines[i].name = lines[j].name

\* The directory of a request holds the package it built.
Faithful(r) ==
    LET chat == Contents(r).chat IN
    /\ DOMAIN chat = 1..packages[r].messages
    /\ Len(chat) = packages[r].messages
    /\ \A i, j \in DOMAIN chat :
          /\ chat[i].message - chat[1].message = i - 1
          /\ build[r].kind # "sample" /\ Author[chat[i].message] = Author[chat[j].message]
               => chat[i].name = chat[j].name
    /\ build[r].kind = "migrate" => chat[Len(chat)].message = ChatLength

\* Where a request is, what its job's status says, and its directory.
BuildInv(r) ==
    /\ build[r].pc = "new" => build[r].kind = "migrate" /\ jobs[r] = "none"
    /\ build[r].pc \in {"building", "finishing", "failing"} =>
          build[r].kind = "migrate" /\ jobs[r] = "running"
    /\ build[r].pc = "building" => HasData
    /\ build[r].pc = "registering" => jobs[r] # "running"
    /\ build[r].pc = "done" /\ r \notin mishaps =>
          /\ jobs[r] # "running"
          /\ jobs[r] = "completed" => packages[r].row
    /\ packages[r].row => build[r].pc = "done"
    /\ packages[r].row \/ build[r].pc \in {"finishing", "registering"} =>
          (BuiltAlone(r) => Faithful(r))

BuildPcs == {"new", "building", "finishing", "failing", "registering", "done"}
PackageShape ==
    /\ export \in [form : ExportForms, held : 0..ChatLength, files : SUBSET Illustrated]
    /\ export.form = "torn" => export.held < ChatLength
    /\ build \in [Builds -> [pc : BuildPcs, kind : {"migrate", "test", "sample"},
                             count : TestCounts \cup {0}, second : Seconds]]
    /\ \A r \in Builds : build[r].kind # "migrate" => build[r].count \in TestCounts
    /\ jobs \in [Builds -> JobStatuses]
    /\ packages \in [Builds -> [row : BOOLEAN, messages : Nat,
                                validation : {"pending", "valid", "warnings", "invalid"}]]
    /\ dirs = [d \in Dirs |-> dirs[d]]

PackageInv == PackageShape /\ \A r \in Builds : BuildInv(r)

\* What the converter reads is a run of the chat that ends with its last
\* message.
LEMMA OrderedRun ==
    ASSUME PackageShape, HasData
    PROVE  \E n \in 1..ChatLength : Run(Ordered, ChatLength + 1 - n, n)
<1>1. ChatLength \in Nat \ {0} /\ export.held \in 1..ChatLength
  BY PackageAssumption DEF PackageShape, HasData
<1>2. CASE export.form = "archive"
  <2>1. Ordered = [m \in 1..ChatLength |-> m]
    BY <1>2 DEF Ordered, Chat
  <2>2. Len(Ordered) = ChatLength
    BY <1>1, <2>1
  <2>3. Run(Ordered, ChatLength + 1 - ChatLength, ChatLength)
    BY <1>1, <2>1, <2>2 DEF Run
  <2>. QED  BY <1>1, <2>3
<1>3. CASE export.form # "archive"
  <2>1. PICK h \in 1..ChatLength : h = export.held
    BY <1>1
  <2>2. DOMAIN Workfile = 1..h /\ \A i \in 1..h : Workfile[i] = ChatLength + 1 - i
    BY <2>1 DEF Workfile
  <2>3. Len(Workfile) = h
    BY <1>1, <2>1, <2>2 DEF Workfile
  <2>4. Ordered = [i \in 1..h |-> Workfile[(h - i) + 1]]
    BY <1>3, <2>3 DEF Ordered, Reverse
  <2>5. \A i \in 1..h : Ordered[i] = (ChatLength + 1 - h) + i - 1
    BY <1>1, <2>1, <2>2, <2>4
  <2>6. Len(Ordered) = h
    BY <1>1, <2>1, <2>4
  <2>7. Run(Ordered, ChatLength + 1 - h, h)
    <3>1. h \in Nat /\ DOMAIN Ordered = 1..h
      BY <1>1, <2>1, <2>4
    <3>. QED  BY <2>5, <2>6, <3>1 DEF Run
  <2>. QED  BY <2>1, <2>7
<1>. QED  BY <1>2, <1>3

\* So are its first messages.
LEMMA LimitedRun ==
    ASSUME NEW s, NEW f \in Int, NEW n \in Nat \ {0}, Run(s, f, n), NEW c \in Nat \ {0}
    PROVE  \E k \in Nat \ {0} : Run(Limited(s, c), f, k)
<1>1. CASE c >= n
  BY <1>1 DEF Limited, Run
<1>2. CASE c < n
  <2>1. Limited(s, c) = SubSeq(s, 1, c)
    BY <1>2 DEF Limited, Run
  <2>2. SubSeq(s, 1, c) = [i \in 1..c |-> s[i]]
    OBVIOUS
  <2>3. Run(Limited(s, c), f, c)
    BY <1>2, <2>1, <2>2 DEF Run
  <2>. QED  BY <2>3
<1>. QED  BY <1>1, <1>2

\* What a package holds when its chat is written from a run of the chat.
LEMMA RunLines ==
    ASSUME NEW s, NEW f \in Int, NEW n \in Nat \ {0}, NEW lines, Run(s, f, n), lines = ChatLines(s)
    PROVE  Told(lines, n) /\ lines[n].message = f + n - 1
<1>1. /\ DOMAIN lines = 1..n
      /\ \A i \in 1..n : lines[i].message = s[i] /\ lines[i].name = NameIn(s, Author[s[i]])
  BY DEF ChatLines, Run
<1>2. Len(lines) = n
  BY DEF ChatLines, Run
<1>3. \A i \in 1..n : lines[i].message = f + i - 1
  BY <1>1 DEF Run
<1>4. \A i \in 1..n : lines[i].message - lines[1].message = i - 1
  BY <1>3
<1>5. \A i, j \in 1..n : Author[lines[i].message] = Author[lines[j].message]
                            => lines[i].name = lines[j].name
  BY <1>1
<1>. QED  BY <1>1, <1>2, <1>3, <1>4, <1>5 DEF Told

\* A package of samples holds its messages one after another as well.
LEMMA SampleTold ==
    ASSUME NEW n \in Nat \ {0}
    PROVE  Told(SampleLines(n), n)
<1>1. /\ DOMAIN SampleLines(n) = 1..n /\ Len(SampleLines(n)) = n
      /\ \A i \in 1..n : SampleLines(n)[i].message = i /\ SampleLines(n)[i].name = "sample"
  BY DEF SampleLines
<1>. QED  BY <1>1 DEF Told

\* A request's directory is one of the directories.
LEMMA DirIsADir ==
    ASSUME PackageShape, NEW r \in Builds
    PROVE  DirOf(r, build[r]) \in Dirs
<1>1. build[r].kind # "migrate" => build[r].count \in TestCounts
  BY DEF PackageShape
<1>2. build[r].second \in Seconds
  BY DEF PackageShape
<1>3. <<"job", r>> \in {"job"} \X Builds
  OBVIOUS
<1>4. build[r].count \in TestCounts =>
        <<"test", <<build[r].count, build[r].second>>>> \in {"test"} \X (TestCounts \X Seconds)
  BY <1>2
<1>. QED  BY <1>1, <1>3, <1>4 DEF DirOf, Dirs

\* A step that leaves the other requests' directories alone, and starts no
\* request in them unless it has begun to share them.
LEMMA OtherBuilds ==
    ASSUME PackageInv, NEW q \in Builds, dirs' = [d \in Dirs |-> dirs'[d]],
           \A r \in Builds \ {q} : /\ build'[r] = build[r] /\ jobs'[r] = jobs[r]
                                   /\ packages'[r] = packages[r]
                                   /\ r \in mishaps' <=> r \in mishaps,
           build[q].pc # "new" => /\ build'[q].pc # "new" /\ build'[q].kind = build[q].kind
                                  /\ build'[q].count = build[q].count
                                  /\ build'[q].second = build[q].second,
           HasData => HasData',
           \A d \in Dirs : dirs'[d] = dirs[d] \/ (d = DirOf(q, build'[q]) /\ build'[q].pc # "new")
    PROVE  \A r \in Builds \ {q} : BuildInv(r)'
<1>. SUFFICES ASSUME NEW r \in Builds \ {q} PROVE BuildInv(r)'
  OBVIOUS
<1>1. BuildInv(r)
  BY DEF PackageInv
<1>2. DirOf(r, build'[r]) = DirOf(r, build[r]) /\ DirOf(r, build[r]) \in Dirs
  BY DirIsADir DEF PackageInv
<1>3. ASSUME BuiltAlone(r)'
      PROVE  BuiltAlone(r) /\ dirs'[DirOf(r, build[r])] = dirs[DirOf(r, build[r])]
  <2>1. ASSUME NEW p \in Builds \ {r}, DirOf(p, build[p]) = DirOf(r, build[r]), build[p].pc # "new"
        PROVE  FALSE
    <3>1. DirOf(p, build'[p]) = DirOf(p, build[p]) /\ build'[p].pc # "new"
      BY <2>1 DEF DirOf
    <3>. QED  BY <1>2, <1>3, <2>1, <3>1 DEF BuiltAlone
  <2>2. DirOf(q, build'[q]) = DirOf(r, build[r]) => build'[q].pc = "new"
    BY <1>2, <1>3 DEF BuiltAlone
  <2>. QED  BY <1>2, <2>1, <2>2 DEF BuiltAlone
<1>4. ASSUME BuiltAlone(r)', Faithful(r) PROVE Faithful(r)'
  <2>1. Contents(r)' = Contents(r)
    BY <1>2, <1>3, <1>4 DEF Contents
  <2>2. build'[r] = build[r] /\ packages'[r] = packages[r]
    OBVIOUS
  <2>. QED  BY ONLY <1>4, <2>1, <2>2 DEF Faithful
<1>. QED  BY <1>1, <1>3, <1>4 DEF BuildInv

\* Request q moves on to x and writes no directory.
StatusMove(q, x) ==
    /\ x \in BuildPcs \ {"new"}
    /\ build' = [build EXCEPT ![q].pc = x] /\ dirs' = dirs /\ export' = export
    /\ \A r \in Builds \ {q} : /\ jobs'[r] = jobs[r] /\ packages'[r] = packages[r]
                               /\ r \in mishaps' <=> r \in mishaps
    /\ jobs' \in [Builds -> JobStatuses]
    /\ packages' \in [Builds -> [row : BOOLEAN, messages : Nat,
                                 validation : {"pending", "valid", "warnings", "invalid"}]]
    /\ packages'[q].messages = packages[q].messages
    /\ x \in {"building", "finishing", "failing"} =>
          build[q].kind = "migrate" /\ jobs'[q] = "running"
    /\ x = "building" => HasData
    /\ x = "registering" => jobs'[q] # "running"
    /\ x = "done" /\ q \notin mishaps' => jobs'[q] # "running"
    /\ x = "done" /\ q \notin mishaps' /\ jobs'[q] = "completed" => packages'[q].row
    /\ packages'[q].row => x = "done"
    /\ packages'[q].row \/ x \in {"finishing", "registering"} =>
          packages[q].row \/ build[q].pc \in {"finishing", "registering"}

\* Its own package is as it was.
LEMMA StatusStep ==
    ASSUME PackageInv, NEW q \in Builds, NEW x, StatusMove(q, x)
    PROVE  PackageInv'
<1>0. /\ x \in BuildPcs \ {"new"}
      /\ build' = [build EXCEPT ![q].pc = x] /\ dirs' = dirs /\ export' = export
      /\ \A r \in Builds \ {q} : /\ jobs'[r] = jobs[r] /\ packages'[r] = packages[r]
                                 /\ r \in mishaps' <=> r \in mishaps
      /\ jobs' \in [Builds -> JobStatuses]
      /\ packages' \in [Builds -> [row : BOOLEAN, messages : Nat,
                                   validation : {"pending", "valid", "warnings", "invalid"}]]
      /\ packages'[q].messages = packages[q].messages
      /\ x \in {"building", "finishing", "failing"} =>
            build[q].kind = "migrate" /\ jobs'[q] = "running"
      /\ x = "building" => HasData
      /\ x = "registering" => jobs'[q] # "running"
      /\ x = "done" /\ q \notin mishaps' => jobs'[q] # "running"
      /\ x = "done" /\ q \notin mishaps' /\ jobs'[q] = "completed" => packages'[q].row
      /\ packages'[q].row => x = "done"
      /\ packages'[q].row \/ x \in {"finishing", "registering"} =>
            packages[q].row \/ build[q].pc \in {"finishing", "registering"}
  BY DEF StatusMove
<1>1. /\ build'[q] = [build[q] EXCEPT !.pc = x]
      /\ \A r \in Builds \ {q} : build'[r] = build[r]
      /\ build' \in [Builds -> [pc : BuildPcs, kind : {"migrate", "test", "sample"},
                                count : TestCounts \cup {0}, second : Seconds]]
  <2>1. build \in [Builds -> [pc : BuildPcs, kind : {"migrate", "test", "sample"},
                              count : TestCounts \cup {0}, second : Seconds]]
    BY DEF PackageInv, PackageShape
  <2>2. build' = [build EXCEPT ![q].pc = x] /\ x \in BuildPcs
    BY <1>0
  <2>3. build[q] \in [pc : BuildPcs, kind : {"migrate", "test", "sample"},
                      count : TestCounts \cup {0}, second : Seconds]
    BY <2>1
  <2>4. PICK row \in [pc : BuildPcs, kind : {"migrate", "test", "sample"},
                      count : TestCounts \cup {0}, second : Seconds] :
           row = [build[q] EXCEPT !.pc = x]
    BY ONLY <2>2, <2>3
  <2>5. build' = [build EXCEPT ![q] = row]
    BY ONLY <2>2, <2>4
  <2>6. build'[q] = row /\ \A r \in Builds \ {q} : build'[r] = build[r]
    BY ONLY <2>1, <2>5, q \in Builds
  <2>7. build' \in [Builds -> [pc : BuildPcs, kind : {"migrate", "test", "sample"},
                               count : TestCounts \cup {0}, second : Seconds]]
    BY ONLY <2>1, <2>5, q \in Builds, row \in [pc : BuildPcs,
               kind : {"migrate", "test", "sample"}, count : TestCounts \cup {0}, second : Seconds]
  <2>. QED  BY ONLY <2>4, <2>6, <2>7
<1>2. /\ build'[q].pc = x /\ build'[q].kind = build[q].kind
      /\ build'[q].count = build[q].count /\ build'[q].second = build[q].second
  BY <1>0, <1>1 DEF PackageInv, PackageShape
<1>3. PackageShape'
  BY <1>0, <1>1, <1>2 DEF PackageInv, PackageShape
<1>4. \A r \in Builds \ {q} : BuildInv(r)'
  <2>1. dirs' = [d \in Dirs |-> dirs'[d]] /\ HasData' = HasData
    BY <1>0 DEF PackageInv, PackageShape, HasData
  <2>. QED  BY <1>0, <1>1, <1>2, <2>1, OtherBuilds
<1>5. DirOf(q, build'[q]) = DirOf(q, build[q])
  BY <1>2 DEF DirOf
<1>6. BuiltAlone(q)' => BuiltAlone(q)
  BY <1>1, <1>5 DEF BuiltAlone
<1>7. Faithful(q) => Faithful(q)'
  <2>1. Contents(q)' = Contents(q)
    BY <1>0, <1>5 DEF Contents
  <2>. QED  BY <1>0, <1>2, <2>1 DEF Faithful
<1>8. BuildInv(q)'
  <2>1. packages[q].row \/ build[q].pc \in {"finishing", "registering"} =>
           (BuiltAlone(q) => Faithful(q))
    BY DEF PackageInv, BuildInv
  <2>2. HasData' = HasData
    BY <1>0 DEF HasData
  <2>3. packages'[q].row \/ x \in {"finishing", "registering"} => (BuiltAlone(q)' => Faithful(q)')
    BY <1>0, <1>6, <1>7, <2>1
  <2>4. build'[q].pc = x /\ x # "new" /\ build'[q].kind = build[q].kind
    BY <1>0, <1>2
  <2>5. x = "building" => HasData'
    BY <1>0, <2>2
  <2>. QED  BY ONLY <1>0, <2>3, <2>4, <2>5
            DEF BuildInv
<1>. QED  BY <1>3, <1>4, <1>8 DEF PackageInv

\* The steps of a request that only move its status.
LEMMA RequestStep ==
    ASSUME PackageInv, NEW q \in Builds,
           \/ CreateMigration(q) \/ CommitCompleted(q) \/ CommitFailed(q)
           \/ RegisterPackage(q) \/ CommitRaises(q)
           \/ BuildMigration(q) /\ export.form = "torn"
    PROVE  PackageInv'
<1>1. /\ BuildInv(q) /\ jobs \in [Builds -> JobStatuses]
      /\ packages \in [Builds -> [row : BOOLEAN, messages : Nat,
                                  validation : {"pending", "valid", "warnings", "invalid"}]]
  BY DEF PackageInv, PackageShape
<1>2. CASE CreateMigration(q)
  <2>1. /\ build[q].pc = "new" /\ HasData /\ build' = [build EXCEPT ![q].pc = "building"]
        /\ jobs' = [jobs EXCEPT ![q] = "running"]
        /\ export' = export /\ packages' = packages /\ dirs' = dirs /\ mishaps' = mishaps
    BY <1>2 DEF CreateMigration, Step
  <2>2. jobs' \in [Builds -> JobStatuses] /\ jobs'[q] = "running"
        /\ \A r \in Builds \ {q} : jobs'[r] = jobs[r]
    BY <1>1, <2>1 DEF JobStatuses
  <2>3. build[q].kind = "migrate" /\ packages[q].row # TRUE /\ ~packages[q].row
    BY <1>1, <2>1 DEF BuildInv
  <2>4. "building" \in BuildPcs \ {"new"}
    BY DEF BuildPcs
  <2>9. StatusMove(q, "building")
    BY <1>1, <2>1, <2>2, <2>3, <2>4 DEF StatusMove
  <2>. QED  BY <2>9, StatusStep
<1>3. CASE CommitCompleted(q)
  <2>1. /\ build[q].pc = "finishing" /\ build' = [build EXCEPT ![q].pc = "registering"]
        /\ jobs' = [jobs EXCEPT ![q] = "completed"]
        /\ export' = export /\ packages' = packages /\ dirs' = dirs /\ mishaps' = mishaps
    BY <1>3 DEF CommitCompleted, Step
  <2>2. jobs' \in [Builds -> JobStatuses] /\ jobs'[q] = "completed"
        /\ \A r \in Builds \ {q} : jobs'[r] = jobs[r]
    BY <1>1, <2>1 DEF JobStatuses
  <2>3. jobs[q] = "running" /\ ~packages[q].row /\ "registering" \in BuildPcs \ {"new"}
    BY <1>1, <2>1 DEF BuildInv, BuildPcs
  <2>9. StatusMove(q, "registering")
    BY <1>1, <2>1, <2>2, <2>3 DEF StatusMove
  <2>. QED  BY <2>9, StatusStep
<1>4. CASE CommitFailed(q)
  <2>1. /\ build[q].pc = "failing" /\ build' = [build EXCEPT ![q].pc = "done"]
        /\ jobs' = [jobs EXCEPT ![q] = "failed"]
        /\ export' = export /\ packages' = packages /\ dirs' = dirs /\ mishaps' = mishaps
    BY <1>4 DEF CommitFailed, Step
  <2>2. jobs' \in [Builds -> JobStatuses] /\ jobs'[q] = "failed"
        /\ \A r \in Builds \ {q} : jobs'[r] = jobs[r]
    BY <1>1, <2>1 DEF JobStatuses
  <2>3. jobs[q] = "running" /\ ~packages[q].row /\ "done" \in BuildPcs \ {"new"}
    BY <1>1, <2>1 DEF BuildInv, BuildPcs
  <2>9. StatusMove(q, "done")
    BY <1>1, <2>1, <2>2, <2>3 DEF StatusMove
  <2>. QED  BY <2>9, StatusStep
<1>5. CASE RegisterPackage(q)
  <2>1. /\ build[q].pc = "registering" /\ build' = [build EXCEPT ![q].pc = "done"]
        /\ packages' = [packages EXCEPT ![q].row = TRUE]
        /\ export' = export /\ jobs' = jobs /\ dirs' = dirs /\ mishaps' = mishaps
    BY <1>5 DEF RegisterPackage, Step
  <2>2. /\ packages' \in [Builds -> [row : BOOLEAN, messages : Nat,
                                     validation : {"pending", "valid", "warnings", "invalid"}]]
        /\ packages'[q].row = TRUE /\ packages'[q].messages = packages[q].messages
        /\ \A r \in Builds \ {q} : packages'[r] = packages[r]
    BY <1>1, <2>1
  <2>3. jobs[q] # "running" /\ "done" \in BuildPcs \ {"new"}
    BY <1>1, <2>1 DEF BuildInv, BuildPcs
  <2>4. \A r \in Builds \ {q} : /\ jobs'[r] = jobs[r] /\ packages'[r] = packages[r]
                                /\ r \in mishaps' <=> r \in mishaps
    BY <2>1, <2>2
  <2>5. jobs'[q] # "running" /\ jobs' \in [Builds -> JobStatuses] /\ packages'[q].row
    BY <1>1, <2>1, <2>2, <2>3
  <2>9. StatusMove(q, "done")
    BY <1>1, <2>1, <2>2, <2>3, <2>4, <2>5 DEF StatusMove
  <2>. QED  BY <2>9, StatusStep
<1>6. CASE CommitRaises(q)
  <2>1. PICK x \in {"failing", "done"} :
          /\ build[q].pc \in {"finishing", "failing", "registering"}
          /\ build' = [build EXCEPT ![q].pc = x] /\ (x = "failing" => build[q].pc = "finishing")
          /\ mishaps' = mishaps \cup {q}
          /\ export' = export /\ jobs' = jobs /\ dirs' = dirs /\ packages' = packages
    BY <1>6 DEF CommitRaises, Step
  <2>2. CASE x = "failing"
    <3>1. build[q].kind = "migrate" /\ jobs[q] = "running" /\ ~packages[q].row
      BY <1>1, <2>1, <2>2 DEF BuildInv
    <3>2. "failing" \in BuildPcs \ {"new"}
      BY DEF BuildPcs
    <3>3. /\ build' = [build EXCEPT ![q].pc = "failing"]
          /\ export' = export /\ jobs' = jobs /\ dirs' = dirs /\ packages' = packages
      BY <2>1, <2>2
    <3>4. \A r \in Builds \ {q} : /\ jobs'[r] = jobs[r] /\ packages'[r] = packages[r]
                                  /\ r \in mishaps' <=> r \in mishaps
      BY <2>1
    <3>5. jobs'[q] = "running" /\ ~packages'[q].row /\ packages'[q].messages = packages[q].messages
          /\ build[q].pc = "finishing"
      BY <2>1, <2>2, <3>1, <3>3
    <3>6. /\ jobs' \in [Builds -> JobStatuses]
          /\ packages' \in [Builds -> [row : BOOLEAN, messages : Nat,
                                       validation : {"pending", "valid", "warnings", "invalid"}]]
      BY <1>1, <3>3
    <3>9. StatusMove(q, "failing")
      BY <3>1, <3>2, <3>3, <3>4, <3>5, <3>6 DEF StatusMove
    <3>. QED  BY <3>9, StatusStep
  <2>3. CASE x = "done"
    <3>1. /\ build' = [build EXCEPT ![q].pc = "done"] /\ q \in mishaps'
          /\ export' = export /\ jobs' = jobs /\ dirs' = dirs /\ packages' = packages
      BY <2>1, <2>3
    <3>2. \A r \in Builds \ {q} : /\ jobs'[r] = jobs[r] /\ packages'[r] = packages[r]
                                  /\ r \in mishaps' <=> r \in mishaps
      BY <2>1
    <3>3. packages'[q].messages = packages[q].messages /\ ~packages'[q].row
      <4>1. ~packages[q].row
        BY <1>1, <2>1 DEF BuildInv
      <4>. QED  BY <3>1, <4>1
    <3>4. /\ jobs' \in [Builds -> JobStatuses]
          /\ packages' \in [Builds -> [row : BOOLEAN, messages : Nat,
                                       validation : {"pending", "valid", "warnings", "invalid"}]]
      BY <1>1, <3>1
    <3>5. "done" \in BuildPcs \ {"new"}
      BY DEF BuildPcs
    <3>9. StatusMove(q, "done")
      BY <3>1, <3>2, <3>3, <3>4, <3>5 DEF StatusMove
    <3>. QED  BY <3>9, StatusStep
  <2>. QED  BY <2>2, <2>3
<1>7. CASE BuildMigration(q) /\ export.form = "torn"
  <2>1. /\ build[q].pc = "building" /\ build' = [build EXCEPT ![q].pc = "failing"]
        /\ export' = export /\ jobs' = jobs /\ packages' = packages /\ dirs' = dirs
        /\ mishaps' = mishaps
    BY <1>7 DEF BuildMigration, Step
  <2>2. build[q].kind = "migrate" /\ jobs[q] = "running" /\ ~packages[q].row
    BY <1>1, <2>1 DEF BuildInv
  <2>3. "failing" \in BuildPcs \ {"new"}
    BY DEF BuildPcs
  <2>9. StatusMove(q, "failing")
    BY <1>1, <2>1, <2>2, <2>3 DEF StatusMove
  <2>. QED  BY <2>9, StatusStep
<1>. QED  BY <1>2, <1>3, <1>4, <1>5, <1>6, <1>7

\* A request that writes its package into its directory.
LEMMA WrittenPackage ==
    ASSUME PackageInv, NEW q \in Builds, NEW lines, NEW pictures, NEW n \in Nat, Told(lines, n),
           DirOf(q, build'[q]) \in Dirs,
           dirs' = [dirs EXCEPT ![DirOf(q, build'[q])] =
                       Package(dirs[DirOf(q, build'[q])], lines, pictures)],
           packages' = [packages EXCEPT ![q].messages = Len(lines)],
           build'[q].kind = "migrate" => lines[n].message = ChatLength
    PROVE  /\ Faithful(q)' /\ packages'[q].row = packages[q].row
           /\ packages' \in [Builds -> [row : BOOLEAN, messages : Nat,
                                        validation : {"pending", "valid", "warnings", "invalid"}]]
           /\ \A r \in Builds \ {q} : packages'[r] = packages[r]
           /\ dirs' = [d \in Dirs |-> dirs'[d]]
           /\ \A d \in Dirs : d # DirOf(q, build'[q]) => dirs'[d] = dirs[d]
<1>1. /\ packages'[q].messages = n /\ packages'[q].row = packages[q].row
      /\ packages' \in [Builds -> [row : BOOLEAN, messages : Nat,
                                   validation : {"pending", "valid", "warnings", "invalid"}]]
      /\ \A r \in Builds \ {q} : packages'[r] = packages[r]
  <2>1. packages' = [packages EXCEPT ![q].messages = n]
    BY DEF Told
  <2>2. packages \in [Builds -> [row : BOOLEAN, messages : Nat,
                                 validation : {"pending", "valid", "warnings", "invalid"}]]
    BY DEF PackageInv, PackageShape
  <2>3. q \in Builds /\ n \in Nat
    OBVIOUS
  <2>. QED  BY ONLY <2>1, <2>2, <2>3
<1>2. PICK e \in Dirs : e = DirOf(q, build'[q])
  OBVIOUS
<1>3. dirs = [d \in Dirs |-> dirs[d]]
  BY DEF PackageInv, PackageShape
<1>4. /\ dirs'[e] = Package(dirs[e], lines, pictures)
      /\ dirs' = [d \in Dirs |-> dirs'[d]]
      /\ \A d \in Dirs : d # e => dirs'[d] = dirs[d]
  BY <1>2, <1>3
<1>5. Contents(q)'.chat = lines
  BY <1>2, <1>4 DEF Contents, Package
<1>6. Faithful(q)'
  BY <1>1, <1>5 DEF Faithful, Told
<1>. QED  BY <1>1, <1>2, <1>4, <1>6

\* What a test package holds.
LEMMA LimitedLines ==
    ASSUME NEW s, NEW f \in Int, NEW m \in Nat \ {0}, NEW c \in Nat \ {0},
           NEW u, NEW lines, Run(s, f, m), u = Limited(s, c), lines = ChatLines(u)
    PROVE  \E n \in Nat \ {0} : Told(lines, n)
<1>1. \E n \in Nat \ {0} : Run(u, f, n)
  BY LimitedRun
<1>2. ASSUME NEW n \in Nat \ {0}, Run(u, f, n)
      PROVE  Told(lines, n)
  BY <1>2, RunLines
<1>. QED  BY <1>1, <1>2

\* The steps that write a package keep the invariant.
LEMMA BuildStep ==
    ASSUME PackageInv, NEW q \in Builds,
           (BuildMigration(q) /\ export.form # "torn") \/ CreateTestPackage(q)
    PROVE  PackageInv'
<1>0. PackageShape /\ BuildInv(q)
  BY DEF PackageInv
<1>1. CASE BuildMigration(q) /\ export.form # "torn"
  <2>. DEFINE lines == ChatLines(Ordered)
              pictures == Range(Ordered) \cap export.files
  <2>1. /\ build[q].pc = "building" /\ build' = [build EXCEPT ![q].pc = "finishing"]
        /\ dirs' = [dirs EXCEPT ![<<"job", q>>] = Package(dirs[<<"job", q>>], lines, pictures)]
        /\ packages' = [packages EXCEPT ![q].messages = Len(Ordered)]
        /\ export' = export /\ jobs' = jobs /\ mishaps' = mishaps
    BY <1>1 DEF BuildMigration, Step
  <2>2. HasData /\ build[q].kind = "migrate" /\ jobs[q] = "running" /\ ~packages[q].row
    BY <1>0, <2>1 DEF BuildInv
  <2>3. /\ build'[q] = [build[q] EXCEPT !.pc = "finishing"]
        /\ \A r \in Builds \ {q} : build'[r] = build[r]
        /\ build' \in [Builds -> [pc : BuildPcs, kind : {"migrate", "test", "sample"},
                                  count : TestCounts \cup {0}, second : Seconds]]
    <3>1. build \in [Builds -> [pc : BuildPcs, kind : {"migrate", "test", "sample"},
                                count : TestCounts \cup {0}, second : Seconds]]
      BY <1>0 DEF PackageShape
    <3>2. "finishing" \in BuildPcs
      BY DEF BuildPcs
    <3>. QED  BY <2>1, <3>1, <3>2
  <2>4. /\ build'[q].pc = "finishing" /\ build'[q].kind = "migrate"
        /\ build'[q].count = build[q].count /\ build'[q].second = build[q].second
    BY <1>0, <2>2, <2>3 DEF PackageShape
  <2>5. DirOf(q, build'[q]) = <<"job", q>> /\ DirOf(q, build'[q]) \in Dirs
    BY <2>4 DEF DirOf, Dirs
  <2>6. PICK n \in 1..ChatLength : Run(Ordered, ChatLength + 1 - n, n)
    BY <1>0, <2>2, OrderedRun
  <2>7. n \in Nat \ {0} /\ ChatLength \in Nat /\ ChatLength + 1 - n \in Int
    BY PackageAssumption
  <2>8. Told(lines, n) /\ lines[n].message = ChatLength /\ Len(Ordered) = n
    <3>1. PICK f \in Int : f = ChatLength + 1 - n
      BY <2>7
    <3>2. Run(Ordered, f, n)
      BY <2>6, <3>1
    <3>3. PICK chat : chat = lines
      OBVIOUS
    <3>4. Told(chat, n) /\ chat[n].message = f + n - 1
      BY <2>7, <3>2, <3>3, RunLines
    <3>5. Len(Ordered) = n
      BY <2>6 DEF Run
    <3>. HIDE DEF lines
    <3>. QED  BY <2>7, <3>1, <3>3, <3>4, <3>5
  <2>9. Len(lines) = n
    BY <2>8 DEF Told
  <2>10. /\ Faithful(q)' /\ packages'[q].row = packages[q].row
         /\ packages' \in [Builds -> [row : BOOLEAN, messages : Nat,
                                      validation : {"pending", "valid", "warnings", "invalid"}]]
         /\ \A r \in Builds \ {q} : packages'[r] = packages[r]
         /\ dirs' = [d \in Dirs |-> dirs'[d]]
         /\ \A d \in Dirs : d # DirOf(q, build'[q]) => dirs'[d] = dirs[d]
    <3>1. /\ dirs' = [dirs EXCEPT ![DirOf(q, build'[q])] =
                         Package(dirs[DirOf(q, build'[q])], lines, pictures)]
          /\ packages' = [packages EXCEPT ![q].messages = Len(lines)]
      BY <2>1, <2>5, <2>8, <2>9
    <3>2. n \in Nat /\ Told(lines, n) /\ (build'[q].kind = "migrate" => lines[n].message = ChatLength)
      BY <2>7, <2>8
    <3>. HIDE DEF lines, pictures
    <3>. QED  BY <2>5, <3>1, <3>2, WrittenPackage
  <2>11. PackageShape'
    BY <1>0, <2>1, <2>3, <2>4, <2>10 DEF PackageShape
  <2>12. BuildInv(q)'
    BY <2>1, <2>2, <2>4, <2>10 DEF BuildInv
  <2>13. \A r \in Builds \ {q} : BuildInv(r)'
    <3>1. HasData' = HasData
      BY <2>1 DEF HasData
    <3>2. \A r \in Builds \ {q} : /\ build'[r] = build[r] /\ jobs'[r] = jobs[r]
                                  /\ packages'[r] = packages[r]
                                  /\ r \in mishaps' <=> r \in mishaps
      BY <2>1, <2>3, <2>10
    <3>3. \A d \in Dirs : dirs'[d] = dirs[d] \/ (d = DirOf(q, build'[q]) /\ build'[q].pc # "new")
      BY <2>4, <2>10
    <3>4. build'[q].pc # "new" /\ build'[q].kind = build[q].kind
      BY <2>2, <2>4
    <3>. QED  BY <2>4, <2>10, <3>1, <3>2, <3>3, <3>4, OtherBuilds
  <2>. QED  BY <2>11, <2>12, <2>13 DEF PackageInv
<1>2. CASE CreateTestPackage(q)
  <2>1. PICK k \in TestCounts, t \in Seconds, kind \in {"test", "sample"} :
          LET b == [pc |-> "new", kind |-> kind, count |-> k, second |-> t]
              s == Limited(Ordered, k)
              lines == SampleLines(k)
          IN \/ /\ kind = "test" /\ HasData /\ export.form # "torn"
                /\ TestBuilt(q, b, ChatLines(s), Range(s) \cap export.files)
             \/ /\ kind = "sample"
                /\ TestBuilt(q, b, lines, {i \in 1..k : lines[i].attached})
    BY <1>2 DEF CreateTestPackage
  <2>2. k \in Nat \ {0} /\ build[q].pc = "new"
    BY <1>2, PackageAssumption DEF CreateTestPackage
  <2>. DEFINE b == [pc |-> "new", kind |-> kind, count |-> k, second |-> t]
  <2>31. \E n \in Nat \ {0} : \E lines, pictures : TestBuilt(q, b, lines, pictures) /\ Told(lines, n)
    <3>1. CASE kind = "test"
      <4>1. /\ HasData
            /\ TestBuilt(q, b, ChatLines(Limited(Ordered, k)), Range(Limited(Ordered, k)) \cap export.files)
        BY <2>1, <3>1
      <4>2. PICK m \in 1..ChatLength : Run(Ordered, ChatLength + 1 - m, m)
        BY <1>0, <4>1, OrderedRun
      <4>3. PICK f \in Int : f = ChatLength + 1 - m /\ m \in Nat \ {0}
        BY PackageAssumption
      <4>4. PICK u, lines, pictures :
               /\ u = Limited(Ordered, k) /\ lines = ChatLines(u)
               /\ pictures = Range(u) \cap export.files
        OBVIOUS
      <4>5. \E n \in Nat \ {0} : Told(lines, n)
        <5>1. Run(Ordered, f, m)
          BY <4>2, <4>3
        <5>. QED  BY <2>2, <4>3, <5>1, <4>4, LimitedLines
      <4>6. TestBuilt(q, b, lines, pictures)
        BY <4>1, <4>4
      <4>. QED  BY <4>5, <4>6
    <3>2. CASE kind = "sample"
      <4>1. PICK lines : lines = SampleLines(k)
        OBVIOUS
      <4>2. PICK pictures : pictures = {i \in 1..k : lines[i].attached}
        OBVIOUS
      <4>3. TestBuilt(q, b, lines, pictures)
        BY <2>1, <3>2, <4>1, <4>2
      <4>4. Told(lines, k)
        BY <2>2, <4>1, SampleTold
      <4>. QED  BY <2>2, <4>3, <4>4
    <3>. QED  BY <3>1, <3>2
  <2>32. PICK n \in Nat \ {0} : \E lines, pictures : TestBuilt(q, b, lines, pictures) /\ Told(lines, n)
    BY <2>31
  <2>3. PICK lines, pictures : TestBuilt(q, b, lines, pictures) /\ Told(lines, n)
    BY <2>32
  <2>4. /\ build' = [build EXCEPT ![q] = [b EXCEPT !.pc = "registering"]]
        /\ dirs' = [dirs EXCEPT ![DirOf(q, b)] = Package(dirs[DirOf(q, b)], lines, pictures)]
        /\ packages' = [packages EXCEPT ![q].messages = Len(lines)]
        /\ export' = export /\ jobs' = jobs /\ mishaps' = mishaps
    BY <2>3 DEF TestBuilt
  <2>5. /\ build'[q] = [pc |-> "registering", kind |-> kind, count |-> k, second |-> t]
        /\ \A r \in Builds \ {q} : build'[r] = build[r]
        /\ build' \in [Builds -> [pc : BuildPcs, kind : {"migrate", "test", "sample"},
                                  count : TestCounts \cup {0}, second : Seconds]]
    BY <1>0, <2>4 DEF PackageShape, BuildPcs
  <2>6. /\ build'[q].pc = "registering" /\ build'[q].kind = kind /\ kind # "migrate"
        /\ build'[q].count = k
    BY <2>5
  <2>7. DirOf(q, build'[q]) = DirOf(q, b) /\ DirOf(q, b) \in Dirs
    <3>1. DirOf(q, build'[q]) = <<"test", <<k, t>>>> /\ DirOf(q, b) = <<"test", <<k, t>>>>
      BY <2>5 DEF DirOf
    <3>. QED  BY <3>1 DEF Dirs
  <2>8. /\ Faithful(q)' /\ packages'[q].row = packages[q].row
        /\ packages' \in [Builds -> [row : BOOLEAN, messages : Nat,
                                     validation : {"pending", "valid", "warnings", "invalid"}]]
        /\ \A r \in Builds \ {q} : packages'[r] = packages[r]
        /\ dirs' = [d \in Dirs |-> dirs'[d]]
        /\ \A d \in Dirs : d # DirOf(q, build'[q]) => dirs'[d] = dirs[d]
    <3>1. dirs' = [dirs EXCEPT ![DirOf(q, build'[q])] =
                      Package(dirs[DirOf(q, build'[q])], lines, pictures)]
      BY <2>4, <2>7
    <3>2. n \in Nat /\ DirOf(q, build'[q]) \in Dirs
      BY <2>7
    <3>3. /\ Told(lines, n) /\ packages' = [packages EXCEPT ![q].messages = Len(lines)]
          /\ build'[q].kind = "migrate" => lines[n].message = ChatLength
      BY <2>3, <2>4, <2>6
    <3>. QED  BY ONLY PackageInv, q \in Builds, <3>1, <3>2, <3>3, WrittenPackage
  <2>9. PackageShape'
    BY <1>0, <2>4, <2>5, <2>6, <2>8 DEF PackageShape
  <2>10. BuildInv(q)'
    <3>1. jobs[q] = "none" /\ ~packages[q].row
      BY <1>0, <2>2 DEF BuildInv
    <3>. QED  BY <2>4, <2>6, <2>8, <3>1 DEF BuildInv
  <2>11. \A r \in Builds \ {q} : BuildInv(r)'
    <3>1. HasData' = HasData
      BY <2>4 DEF HasData
    <3>2. \A r \in Builds \ {q} : /\ build'[r] = build[r] /\ jobs'[r] = jobs[r]
                                  /\ packages'[r] = packages[r]
                                  /\ r \in mishaps' <=> r \in mishaps
      BY <2>4, <2>5, <2>8
    <3>3. \A d \in Dirs : dirs'[d] = dirs[d] \/ (d = DirOf(q, build'[q]) /\ build'[q].pc # "new")
      BY <2>6, <2>8
    <3>. QED  BY <2>2, <2>8, <3>1, <3>2, <3>3, OtherBuilds
  <2>. QED  BY <2>9, <2>10, <2>11 DEF PackageInv
<1>. QED  BY <1>1, <1>2

\* A step of nobody's request: the packages are what they were.
LEMMA Standing ==
    ASSUME dirs' = dirs,
           \A r \in Builds : /\ build'[r].kind = build[r].kind
                             /\ build'[r].count = build[r].count
                             /\ build'[r].second = build[r].second
                             /\ build[r].pc # "new" => build'[r].pc # "new"
                             /\ packages'[r].messages = packages[r].messages
    PROVE  \A r \in Builds : (BuiltAlone(r) => Faithful(r)) => (BuiltAlone(r)' => Faithful(r)')
<1>. SUFFICES ASSUME NEW r \in Builds, BuiltAlone(r) => Faithful(r), BuiltAlone(r)'
              PROVE  Faithful(r)'
  OBVIOUS
<1>1. \A p \in Builds : DirOf(p, build'[p]) = DirOf(p, build[p])
  BY DEF DirOf
<1>2. BuiltAlone(r)
  BY <1>1 DEF BuiltAlone
<1>3. Contents(r)' = Contents(r)
  BY <1>1 DEF Contents
<1>. QED  BY <1>2, <1>3 DEF Faithful

\* The worker writes on.
LEMMA ExportStep ==
    ASSUME PackageInv, ExportGrows
    PROVE  PackageInv'
<1>1. build' = build /\ jobs' = jobs /\ packages' = packages /\ dirs' = dirs /\ mishaps' = mishaps
  BY DEF ExportGrows
<1>2. export \in [form : ExportForms, held : 0..ChatLength, files : SUBSET Illustrated]
  BY DEF PackageInv, PackageShape
<1>3. (export.form = "torn" => export.held < ChatLength) /\ ChatLength \in Nat /\ export.held \in 0..ChatLength
  BY <1>2, PackageAssumption DEF PackageInv, PackageShape
<1>4. /\ export' \in [form : ExportForms, held : 0..ChatLength, files : SUBSET Illustrated]
      /\ export'.held >= export.held
      /\ export'.form = "none" => export.form = "none"
      /\ export'.form = "torn" => export'.held < ChatLength
  <2>1. CASE /\ export.form \in {"none", "workfile"} /\ export.held < ChatLength
             /\ export' = [export EXCEPT !.form = "torn"]
    BY <1>2, <1>3, <2>1 DEF ExportForms
  <2>2. CASE export.form = "torn" /\ export' = [export EXCEPT !.form = "workfile", !.held = @ + 1]
    <3>1. export.held + 1 \in 0..ChatLength
      BY <1>3, <2>2
    <3>2. PICK h \in 0..ChatLength : h = export.held + 1
      BY <3>1
    <3>3. export' = [export EXCEPT !.form = "workfile", !.held = h]
      BY <2>2, <3>2
    <3>4. /\ export' \in [form : ExportForms, held : 0..ChatLength, files : SUBSET Illustrated]
          /\ export'.held = h /\ export'.form = "workfile"
      BY <1>2, <3>3 DEF ExportForms
    <3>5. h >= export.held
      BY <1>3, <3>2
    <3>. QED  BY <3>4, <3>5
  <2>3. CASE /\ export.form = "workfile" /\ export.held = ChatLength
             /\ export' = [export EXCEPT !.form = "archive"]
    BY <1>2, <1>3, <2>3 DEF ExportForms
  <2>4. CASE \E m \in Illustrated \ export.files :
                export' = [export EXCEPT !.files = @ \cup {m}]
    BY <1>2, <1>3, <2>4
  <2>. QED  BY <2>1, <2>2, <2>3, <2>4 DEF ExportGrows
<1>5. HasData => HasData'
  BY <1>3, <1>4 DEF HasData
<1>6. PackageShape'
  BY <1>1, <1>4 DEF PackageInv, PackageShape
<1>7. ASSUME NEW r \in Builds PROVE BuildInv(r)'
  <2>1. BuildInv(r)
    BY DEF PackageInv
  <2>2. (BuiltAlone(r) => Faithful(r)) => (BuiltAlone(r)' => Faithful(r)')
    BY <1>1, Standing
  <2>. QED  BY <1>1, <1>5, <2>1, <2>2 DEF BuildInv
<1>. QED  BY <1>6, <1>7 DEF PackageInv

\* The process restarts.
LEMMA RestartStep ==
    ASSUME PackageInv, ApiRestarts
    PROVE  PackageInv'
<1>. DEFINE cut == {r \in Builds : build[r].pc \notin {"new", "done"}}
<1>1. /\ build' = [r \in Builds |-> IF r \in cut THEN [build[r] EXCEPT !.pc = "done"] ELSE build[r]]
      /\ mishaps' = mishaps \cup cut
      /\ export' = export /\ jobs' = jobs /\ packages' = packages /\ dirs' = dirs
  BY DEF ApiRestarts
<1>2. build \in [Builds -> [pc : BuildPcs, kind : {"migrate", "test", "sample"},
                            count : TestCounts \cup {0}, second : Seconds]]
  BY DEF PackageInv, PackageShape
<1>3. ASSUME NEW r \in Builds
      PROVE  /\ build'[r] \in [pc : BuildPcs, kind : {"migrate", "test", "sample"},
                                count : TestCounts \cup {0}, second : Seconds]
             /\ build'[r].kind = build[r].kind /\ build'[r].count = build[r].count
             /\ build'[r].second = build[r].second
             /\ \/ build[r].pc \in {"new", "done"} /\ build'[r] = build[r]
                \/ build[r].pc \notin {"new", "done"} /\ build'[r].pc = "done" /\ r \in mishaps'
  <2>1. build[r] \in [pc : BuildPcs, kind : {"migrate", "test", "sample"},
                      count : TestCounts \cup {0}, second : Seconds]
    BY <1>2
  <2>2. CASE r \in cut
    <3>1. build'[r] = [build[r] EXCEPT !.pc = "done"]
      BY <1>1, <2>2
    <3>. QED  BY <1>1, <2>1, <2>2, <3>1 DEF BuildPcs
  <2>3. CASE r \notin cut
    <3>1. build'[r] = build[r] /\ build[r].pc \in {"new", "done"}
      BY <1>1, <2>3
    <3>. QED  BY <2>1, <3>1
  <2>. QED  BY <2>2, <2>3
<1>4. PackageShape'
  <2>1. build' \in [Builds -> [pc : BuildPcs, kind : {"migrate", "test", "sample"},
                               count : TestCounts \cup {0}, second : Seconds]]
    BY <1>1, <1>3
  <2>. QED  BY <1>1, <1>3, <2>1 DEF PackageInv, PackageShape
<1>5. ASSUME NEW r \in Builds PROVE BuildInv(r)'
  <2>1. BuildInv(r)
    BY DEF PackageInv
  <2>2. (BuiltAlone(r) => Faithful(r)) => (BuiltAlone(r)' => Faithful(r)')
    <3>1. \A p \in Builds : /\ build'[p].kind = build[p].kind
                             /\ build'[p].count = build[p].count
                             /\ build'[p].second = build[p].second
                             /\ build[p].pc # "new" => build'[p].pc # "new"
                             /\ packages'[p].messages = packages[p].messages
      BY <1>1, <1>3
    <3>. QED  BY <1>1, <3>1, Standing
  <2>3. CASE build[r].pc \in {"new", "done"} /\ build'[r] = build[r]
    <3>1. mishaps \subseteq mishaps'
      BY <1>1
    <3>. QED  BY <1>1, <2>1, <2>2, <2>3, <3>1 DEF BuildInv
  <2>4. CASE build[r].pc \notin {"new", "done"} /\ build'[r].pc = "done" /\ r \in mishaps'
    BY <1>1, <2>1, <2>2, <2>4 DEF BuildInv
  <2>. QED  BY <1>3, <2>3, <2>4
<1>. QED  BY <1>4, <1>5 DEF PackageInv

\* A validation changes only its own verdict.
LEMMA ValidateStep ==
    ASSUME PackageInv, NEW q \in Builds, Validate(q)
    PROVE  PackageInv'
<1>1. /\ packages' = [packages EXCEPT ![q].validation = Verdict(q)]
      /\ export' = export /\ build' = build /\ jobs' = jobs /\ dirs' = dirs /\ mishaps' = mishaps
  BY DEF Validate
<1>2. packages \in [Builds -> [row : BOOLEAN, messages : Nat,
                               validation : {"pending", "valid", "warnings", "invalid"}]]
  BY DEF PackageInv, PackageShape
<1>3. Verdict(q) \in {"pending", "valid", "warnings", "invalid"}
  BY DEF Verdict
<1>4. /\ packages' \in [Builds -> [row : BOOLEAN, messages : Nat,
                                   validation : {"pending", "valid", "warnings", "invalid"}]]
      /\ \A r \in Builds : /\ packages'[r].row = packages[r].row
                            /\ packages'[r].messages = packages[r].messages
  BY <1>1, <1>2, <1>3
<1>5. PackageShape'
  BY <1>1, <1>4 DEF PackageInv, PackageShape
<1>6. ASSUME NEW r \in Builds PROVE BuildInv(r)'
  <2>1. BuildInv(r)
    BY DEF PackageInv
  <2>2. (BuiltAlone(r) => Faithful(r)) => (BuiltAlone(r)' => Faithful(r)')
    BY <1>1, <1>4, Standing
  <2>3. HasData' = HasData
    BY <1>1 DEF HasData
  <2>. QED  BY <1>1, <1>4, <2>1, <2>2, <2>3 DEF BuildInv
<1>. QED  BY <1>5, <1>6 DEF PackageInv

\* The inductive invariant of the packages.
THEOREM PackageInvariant == PackageSpec => []PackageInv
<1>1. PackageInit => PackageInv
  <2>. SUFFICES ASSUME PackageInit PROVE PackageInv
    OBVIOUS
  <2>1. PackageShape
    BY PackageAssumption
    DEF PackageInit, PackageShape, ExportForms, BuildPcs, Seconds, JobStatuses, NoPackage
  <2>2. ASSUME NEW r \in Builds PROVE BuildInv(r)
    BY DEF PackageInit, BuildInv, NoPackage
  <2>. QED  BY <2>1, <2>2 DEF PackageInv
<1>2. PackageInv /\ [PackageNext]_packageVars => PackageInv'
  <2>. SUFFICES ASSUME PackageInv, [PackageNext]_packageVars PROVE PackageInv'
    OBVIOUS
  <2>1. CASE UNCHANGED packageVars
    <3>1. /\ export' = export /\ build' = build /\ jobs' = jobs
          /\ packages' = packages /\ dirs' = dirs /\ mishaps' = mishaps
      BY <2>1 DEF packageVars
    <3>2. PackageShape'
      BY <3>1 DEF PackageInv, PackageShape
    <3>3. ASSUME NEW r \in Builds PROVE BuildInv(r)'
      <4>1. BuildInv(r)
        BY DEF PackageInv
      <4>2. (BuiltAlone(r) => Faithful(r)) => (BuiltAlone(r)' => Faithful(r)')
        BY <3>1, Standing
      <4>. QED  BY <3>1, <4>1, <4>2 DEF BuildInv, HasData
    <3>. QED  BY <3>2, <3>3 DEF PackageInv
  <2>2. ASSUME NEW r \in Builds, CreateTestPackage(r) \/ BuildMigration(r) PROVE PackageInv'
    BY <2>2, BuildStep, RequestStep
  <2>3. ASSUME NEW r \in Builds,
               \/ CreateMigration(r) \/ CommitCompleted(r) \/ CommitFailed(r)
               \/ RegisterPackage(r) \/ CommitRaises(r)
        PROVE  PackageInv'
    BY <2>3, RequestStep
  <2>4. ASSUME NEW r \in Builds, Validate(r) PROVE PackageInv'
    BY <2>4, ValidateStep
  <2>5. CASE ExportGrows
    BY <2>5, ExportStep
  <2>6. CASE ApiRestarts
    BY <2>6, RestartStep
  <2>. QED  BY <2>1, <2>2, <2>3, <2>4, <2>5, <2>6 DEF PackageNext
<1>. QED  BY <1>1, <1>2, PTL DEF PackageSpec

\* A registered package holds the messages its row counts, one after
\* another and a sender under one name, unless another test package of its
\* count and second was built into its directory (build_whatsapp_package,
\* create_test_package).
THEOREM PackagesAreFaithful == PackageSpec => []PackageFaithful
<1>1. PackageInv => PackageFaithful
  <2>. SUFFICES ASSUME PackageInv, NEW r \in Builds, packages[r].row, BuiltAlone(r)
                PROVE  LET chat == Contents(r).chat IN
                       /\ Len(chat) = packages[r].messages
                       /\ \A i, j \in DOMAIN chat :
                             /\ chat[i].message - chat[1].message = i - 1
                             /\ build[r].kind # "sample"
                                  /\ Author[chat[i].message] = Author[chat[j].message]
                                => chat[i].name = chat[j].name
                       /\ build[r].kind = "migrate" => chat[Len(chat)].message = ChatLength
    BY DEF PackageFaithful
  <2>1. Faithful(r)
    BY DEF PackageInv, BuildInv
  <2>. QED  BY <2>1 DEF Faithful
<1>. QED  BY <1>1, PackageInvariant, PTL

\* A request that is over leaves no job running, and no completed job
\* without its package, unless the database or a restart failed it
\* (create_migration).
THEOREM JobsAlwaysSettle == PackageSpec => []JobsSettle
<1>1. PackageInv => JobsSettle
  BY DEF PackageInv, BuildInv, JobsSettle
<1>. QED  BY <1>1, PackageInvariant, PTL
=============================================================================
