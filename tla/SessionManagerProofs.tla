------------------------ MODULE SessionManagerProofs ------------------------
(***************************************************************************)
(* What holds of SessionManager for any number of requests, any accounts   *)
(* and any MAX_CONCURRENT_SESSIONS.                                        *)
(***************************************************************************)
EXTENDS SessionManager, FiniteSetTheorems, FunctionTheorems,
        SequenceTheorems, TLAPS

Once(s) == \A i, j \in DOMAIN s : s[i] = s[j] => i = j

\* The pool's order of use: each pooled account once, never too many.
PoolOrdered ==
    /\ Range(recent) = Pooled
    /\ Once(recent)
    /\ Len(recent) <= MaxSessions

\* A request that is about to use or to pool a client has one.
ClientInHand ==
    \A c \in Calls :
        call[c].pc \in {"busyWait", "signIn", "pooling", "use"} => call[c].client \in Calls

\* A request refers to a lock while it waits for it and while it holds it, and
\* to the account's own lock unless a delete has forgotten that one.
WantsLock(c) == At(c, "lockWait") \/ Holds(c)
LockInHand ==
    \A c \in Calls :
        /\ call[c].lock # None <=> WantsLock(c)
        /\ WantsLock(c) => call[c].op \in {"search", "export"}
        /\ WantsLock(c) => \/ locks[call[c].acct] = call[c].lock
                           \/ Forgotten(call[c].acct)

\* A lock is owned by the request that holds the client, and a held login is
\* busy with the request that sends its code or signs in with it; only a
\* create_export that was refused leaves its lock behind.
OwnersAlive ==
    \A c, k \in Calls :
        /\ Holds(c) /\ call[c].lock = k => owner[k] = c
        /\ owner[k] = c => \/ Holds(c) /\ call[c].lock = k
                           \/ At(c, "done") /\ call[c].op = "export"
        /\ busy[k] = c => \/ At(c, "sendCode") /\ k = c
                          \/ call[c].pc \in {"signIn", "pooling"} /\ call[c].client = k

\* No request means to commit a row without the session it read in it.
NoSessionDropped == \A c \in Calls : call[c].seen.session => call[c].new.session

SessionInv == /\ TypeOK /\ PoolOrdered /\ ClientInHand
              /\ LockInHand /\ OwnersAlive /\ NoSessionDropped

-----------------------------------------------------------------------------
(* Sequences that hold each element at most once.                          *)

\* Without takes exactly the account it is asked to take.
LEMMA WithoutOne ==
    ASSUME NEW S, NEW s \in Seq(S), Once(s), NEW a
    PROVE  /\ Without(s, a) \in Seq(S) /\ Once(Without(s, a))
           /\ Range(Without(s, a)) = Range(s) \ {a}
           /\ Len(Without(s, a)) = IF a \in Range(s) THEN Len(s) - 1 ELSE Len(s)
<1>. DEFINE n == CHOOSE i \in DOMAIN s : s[i] = a
            t == [j \in 1..(Len(s) - 1) |-> IF j < n THEN s[j] ELSE s[j + 1]]
<1>1. CASE a \notin Range(s)
  BY <1>1 DEF Without, Range
<1>2. CASE a \in Range(s)
  <2>1. n \in 1..Len(s) /\ s[n] = a
    BY <1>2 DEF Range
  <2>. HIDE DEF n
  <2>2. t \in Seq(S) /\ Len(t) = Len(s) - 1 /\ DOMAIN t = 1..(Len(s) - 1)
    BY <2>1
  <2>3. Without(s, a) = t
    <3>. DEFINE p == SubSeq(s, 1, n - 1)  q == SubSeq(s, n + 1, Len(s))
    <3>1. p \in Seq(S) /\ Len(p) = n - 1 /\ \A j \in 1..(n - 1) : p[j] = s[j]
      BY <2>1, SubSeqProperties
    <3>2. /\ q \in Seq(S) /\ Len(q) = Len(s) - n
          /\ \A j \in 1..(Len(s) - n) : q[j] = s[n + j]
      BY <2>1, SubSeqProperties
    <3>. HIDE DEF p, q
    <3>3. /\ p \o q \in Seq(S) /\ Len(p \o q) = Len(p) + Len(q)
          /\ \A j \in 1..(Len(p) + Len(q)) : (p \o q)[j] =
                   IF j <= Len(p) THEN p[j] ELSE q[j - Len(p)]
      BY <3>1, <3>2, ConcatProperties
    <3>4. \A j \in 1..(Len(s) - 1) : (p \o q)[j] = t[j]
      <4>1. ASSUME NEW j \in 1..(n - 1) PROVE (p \o q)[j] = t[j]
        BY <2>1, <3>1, <3>2, <3>3
      <4>2. ASSUME NEW j \in n..(Len(s) - 1) PROVE (p \o q)[j] = t[j]
        <5>1. (p \o q)[j] = q[j - (n - 1)] /\ j - (n - 1) \in 1..(Len(s) - n)
          BY <2>1, <3>1, <3>2, <3>3
        <5>2. q[j - (n - 1)] = s[n + (j - (n - 1))] /\ n + (j - (n - 1)) = j + 1
          BY <2>1, <3>2, <5>1
        <5>. QED  BY <2>1, <5>1, <5>2
      <4>3. 1..(Len(s) - 1) = (1..(n - 1)) \cup (n..(Len(s) - 1))
        BY <2>1
      <4>. QED  BY <4>1, <4>2, <4>3
    <3>5. RemoveAt(s, n) = t
      <4>1. Len(p \o q) = Len(t)
        BY <2>1, <2>2, <3>1, <3>2, <3>3
      <4>. QED  BY <2>2, <3>3, <3>4, <4>1, SeqEqual DEF RemoveAt, p, q
    <3>. QED  BY <1>2, <3>5 DEF Without, n
  <2>4. Once(t)
    BY <2>1, <2>2 DEF Once
  <2>5. Range(t) = Range(s) \ {a}
    <3>1. ASSUME NEW b \in Range(s) \ {a} PROVE b \in Range(t)
      <4>1. PICK i \in DOMAIN s : s[i] = b /\ i # n
        BY <2>1, <3>1 DEF Range
      <4>2. CASE i < n
        BY <2>1, <2>2, <4>1, <4>2 DEF Range
      <4>3. CASE i > n
        <5>1. i - 1 \in DOMAIN t /\ t[i - 1] = b
          BY <2>1, <2>2, <4>1, <4>3
        <5>. QED  BY <5>1 DEF Range
      <4>. QED  BY <2>1, <4>1, <4>2, <4>3
    <3>2. ASSUME NEW j \in DOMAIN t PROVE t[j] \in Range(s) \ {a}
      <4>1. PICK i \in DOMAIN s : t[j] = s[i] /\ i # n
        BY <2>1, <2>2
      <4>. QED  BY <2>1, <4>1 DEF Once, Range
    <3>3. ASSUME NEW b \in Range(t) PROVE b \in Range(s) \ {a}
      <4>1. PICK j \in DOMAIN t : b = t[j]
        BY DEF Range
      <4>. QED  BY <3>2, <4>1, Zenon
    <3>. QED  BY <3>1, <3>3
  <2>. QED  BY <1>2, <2>2, <2>3, <2>4, <2>5
<1>. QED  BY <1>1, <1>2

\* An account that has just been used is the last of the order.
LEMMA AppendOne ==
    ASSUME NEW S, NEW s \in Seq(S), Once(s), NEW a \in S, a \notin Range(s)
    PROVE  /\ Append(s, a) \in Seq(S) /\ Once(Append(s, a))
           /\ Range(Append(s, a)) = Range(s) \cup {a}
           /\ Len(Append(s, a)) = Len(s) + 1
<1>1. /\ Append(s, a) \in Seq(S) /\ Len(Append(s, a)) = Len(s) + 1
      /\ Append(s, a)[Len(s) + 1] = a
      /\ \A i \in 1..Len(s) : Append(s, a)[i] = s[i]
  BY AppendProperties
<1>2. Once(Append(s, a))
  BY <1>1 DEF Once, Range
<1>3. Range(Append(s, a)) = Range(s) \cup {a}
  <2>1. ASSUME NEW i \in 1..(Len(s) + 1)
        PROVE  Append(s, a)[i] \in Range(s) \cup {a}
    BY <1>1 DEF Range
  <2>2. Range(s) \subseteq Range(Append(s, a))
    BY <1>1 DEF Range
  <2>3. a \in Range(Append(s, a))
    BY <1>1 DEF Range
  <2>. QED  BY <1>1, <2>1, <2>2, <2>3 DEF Range
<1>. QED  BY <1>1, <1>2, <1>3

\* _touch of a pooled account changes the order only.
LEMMA MovedLast ==
    ASSUME NEW S, NEW s \in Seq(S), Once(s), NEW a \in S
    PROVE  LET t == Append(Without(s, a), a)
           IN  /\ t \in Seq(S) /\ Once(t) /\ Range(t) = Range(s) \cup {a}
               /\ Len(t) = IF a \in Range(s) THEN Len(s) ELSE Len(s) + 1
<1>1. /\ Without(s, a) \in Seq(S) /\ Once(Without(s, a))
      /\ Range(Without(s, a)) = Range(s) \ {a}
      /\ Len(Without(s, a)) = IF a \in Range(s) THEN Len(s) - 1 ELSE Len(s)
  BY WithoutOne
<1>2. /\ Append(Without(s, a), a) \in Seq(S) /\ Once(Append(Without(s, a), a))
      /\ Range(Append(Without(s, a), a)) = Range(Without(s, a)) \cup {a}
      /\ Len(Append(Without(s, a), a)) = Len(Without(s, a)) + 1
  BY <1>1, AppendOne
<1>. QED  BY <1>1, <1>2

\* The victim of an eviction is the first of the order.
LEMMA TailOne ==
    ASSUME NEW S, NEW s \in Seq(S), Once(s), s # <<>>
    PROVE  /\ Head(s) \in Range(s) /\ Head(s) \in S
           /\ Tail(s) \in Seq(S) /\ Once(Tail(s))
           /\ Range(Tail(s)) = Range(s) \ {Head(s)} /\ Len(Tail(s)) = Len(s) - 1
<1>1. /\ Len(s) \in Nat \ {0} /\ Head(s) = s[1] /\ Head(s) \in S
      /\ Tail(s) \in Seq(S) /\ Len(Tail(s)) = Len(s) - 1
      /\ \A i \in 1..Len(Tail(s)) : Tail(s)[i] = s[i + 1]
  BY HeadTailProperties, EmptySeq
<1>2. Once(Tail(s))
  BY <1>1 DEF Once
<1>3. Range(Tail(s)) = Range(s) \ {Head(s)}
  <2>1. ASSUME NEW i \in 1..Len(Tail(s)) PROVE Tail(s)[i] \in Range(s) \ {Head(s)}
    BY <1>1 DEF Once, Range
  <2>2. ASSUME NEW i \in 1..Len(s), s[i] # Head(s) PROVE s[i] \in Range(Tail(s))
    <3>1. i - 1 \in DOMAIN Tail(s) /\ Tail(s)[i - 1] = s[i]
      <4>1. i # 1
        BY <1>1, <2>2
      <4>. QED  BY <1>1, <4>1
    <3>. QED  BY <3>1 DEF Range
  <2>. QED  BY <1>1, <2>1, <2>2 DEF Range
<1>. QED  BY <1>1, <1>2, <1>3 DEF Range

-----------------------------------------------------------------------------
(* The pool.                                                               *)

PoolOK == /\ pool \in [Accounts -> Optional(Calls)] /\ recent \in Seq(Accounts)
          /\ evicted \subseteq Calls /\ PoolOrdered

\* None is no request.
LEMMA NoneNoCall == None \notin Calls
BY LimitAssumption DEF None, Calls

\* The order of use has the length of the pool: the pool is bounded.
LEMMA PoolLength ==
    ASSUME PoolOK
    PROVE  /\ IsFiniteSet(Pooled) /\ Cardinality(Pooled) = Len(recent)
           /\ Cardinality(Pooled) <= MaxSessions
<1>1. IsFiniteSet(Pooled)
  BY AccountAssumption, FS_Subset DEF Pooled
<1>2. Len(recent) \in Nat /\ DOMAIN recent = 1..Len(recent)
  BY LenProperties DEF PoolOK
<1>3. recent \in Bijection(1..Len(recent), Pooled)
  <2>1. recent \in [1..Len(recent) -> Pooled]
    BY <1>2, LenProperties DEF PoolOK, PoolOrdered, Range
  <2>2. recent \in Surjection(1..Len(recent), Pooled)
    <3>1. \A a \in Pooled : \E i \in 1..Len(recent) : recent[i] = a
      BY <1>2 DEF PoolOK, PoolOrdered, Range
    <3>. QED  BY <2>1, <3>1, Fun_IsSurj
  <2>3. recent \in Injection(1..Len(recent), Pooled)
    <3>1. \A i, j \in 1..Len(recent) : recent[i] = recent[j] => i = j
      BY <1>2 DEF PoolOK, PoolOrdered, Once
    <3>. QED  BY <2>1, <3>1, Fun_IsInj
  <2>. QED  BY <2>2, <2>3 DEF Bijection
<1>4. IsFiniteSet(1..Len(recent)) /\ Cardinality(1..Len(recent)) = Len(recent)
  <2>1. Len(recent) \in Int /\ 1 \in Int /\ 0 <= Len(recent)
    BY <1>2
  <2>2. /\ IsFiniteSet(1..Len(recent))
        /\ Cardinality(1..Len(recent)) = IF 1 > Len(recent) THEN 0 ELSE Len(recent) - 1 + 1
    BY <2>1, FS_Interval, Zenon
  <2>. QED  BY <2>1, <2>2
<1>5. Cardinality(Pooled) = Len(recent)
  BY <1>3, <1>4, FS_Bijection DEF ExistsBijection
<1>. QED  BY <1>1, <1>5 DEF PoolOK, PoolOrdered

\* A client put into the pool, with the eviction that makes room for it.
LEMMA InsertKeepsPool ==
    ASSUME PoolOK, NEW a \in Accounts, NEW k \in Calls, Insert(a, k)
    PROVE  PoolOK'
<1>. USE NoneNoCall
<1>. DEFINE left == IF Victims(a) = {} THEN recent ELSE Tail(recent)
<1>1. /\ left \in Seq(Accounts) /\ Once(left)
      /\ Range(left) = Pooled \ Victims(a) /\ Victims(a) \subseteq Pooled \ {a}
      /\ a \notin Pooled => Len(left) + 1 <= MaxSessions
      /\ Len(left) <= MaxSessions
  <2>1. CASE Victims(a) = {}
    <3>1. a \notin Pooled => Len(recent) + 1 <= MaxSessions
      <4>1. a \notin Pooled => Cardinality(Pooled) < MaxSessions \/ recent = <<>>
        BY <2>1 DEF Victims
      <4>2. recent = <<>> => Len(recent) = 0
        BY EmptySeq
      <4>3. Len(recent) \in Nat
        BY LenProperties DEF PoolOK
      <4>. QED  BY <4>1, <4>2, <4>3, PoolLength, LimitAssumption
    <3>. QED  BY <2>1, <3>1 DEF PoolOK, PoolOrdered
  <2>2. CASE Victims(a) # {}
    <3>1. Victims(a) = {Head(recent)} /\ recent # <<>> /\ a \notin Pooled
      BY <2>2 DEF Victims
    <3>2. /\ Head(recent) \in Range(recent) /\ Tail(recent) \in Seq(Accounts)
          /\ Once(Tail(recent)) /\ Range(Tail(recent)) = Range(recent) \ {Head(recent)}
          /\ Len(Tail(recent)) = Len(recent) - 1
      BY <3>1, TailOne DEF PoolOK, PoolOrdered
    <3>3. Len(recent) \in Nat
      BY LenProperties DEF PoolOK
    <3>4. left = Tail(recent)
      BY <2>2
    <3>5. Victims(a) \subseteq Pooled \ {a} /\ Range(Tail(recent)) = Pooled \ Victims(a)
      BY <3>1, <3>2 DEF PoolOK, PoolOrdered
    <3>6. Len(Tail(recent)) + 1 <= MaxSessions /\ Len(Tail(recent)) <= MaxSessions
      BY <3>2, <3>3, LimitAssumption DEF PoolOK, PoolOrdered
    <3>. QED  BY <3>2, <3>4, <3>5, <3>6
  <2>. QED  BY <2>1, <2>2
<1>2. recent' = Append(Without(left, a), a)
  BY DEF Insert
<1>. HIDE DEF left
<1>3. /\ recent' \in Seq(Accounts) /\ Once(recent')
      /\ Range(recent') = Range(left) \cup {a}
      /\ Len(recent') = IF a \in Range(left) THEN Len(left) ELSE Len(left) + 1
  BY <1>1, <1>2, MovedLast
<1>4. pool' \in [Accounts -> Optional(Calls)]
  BY DEF Insert, PoolOK, Optional
<1>5. Pooled' = (Pooled \ Victims(a)) \cup {a}
  BY <1>1 DEF Insert, Pooled, PoolOK
<1>6. evicted' \subseteq Calls
  <2>1. \A b \in Victims(a) : pool[b] \in Calls
    BY <1>1 DEF Pooled, PoolOK, Optional
  <2>. QED  BY <2>1 DEF Insert, PoolOK
<1>7. Len(recent') <= MaxSessions
  BY <1>1, <1>3
<1>. QED  BY <1>1, <1>3, <1>4, <1>5, <1>6, <1>7 DEF PoolOK, PoolOrdered

\* A pooled client is used.
LEMMA TouchKeepsPool ==
    ASSUME PoolOK, NEW a \in Accounts, recent' = Touched(recent, a),
           UNCHANGED <<pool, evicted>>
    PROVE  PoolOK'
<1>1. Pooled' = Pooled
  BY DEF Pooled
<1>2. CASE pool[a] = None
  BY <1>1, <1>2 DEF Touched, PoolOK, PoolOrdered, Once
<1>3. CASE pool[a] # None
  <2>1. a \in Range(recent) /\ recent' = Append(Without(recent, a), a)
    BY <1>3 DEF Touched, PoolOK, PoolOrdered, Pooled
  <2>2. /\ recent' \in Seq(Accounts) /\ Once(recent')
        /\ Range(recent') = Range(recent) \cup {a} /\ Len(recent') = Len(recent)
    BY <2>1, MovedLast DEF PoolOK, PoolOrdered
  <2>. QED  BY <1>1, <2>1, <2>2 DEF PoolOK, PoolOrdered
<1>. QED  BY <1>2, <1>3

\* The client of a deleted account leaves the pool.
LEMMA DropKeepsPool ==
    ASSUME PoolOK, NEW a \in Accounts, recent' = Without(recent, a),
           pool' = [pool EXCEPT ![a] = None], UNCHANGED evicted
    PROVE  PoolOK'
<1>1. Pooled' = Pooled \ {a}
  BY DEF Pooled, PoolOK
<1>2. pool' \in [Accounts -> Optional(Calls)]
  BY DEF PoolOK, Optional
<1>3. /\ recent' \in Seq(Accounts) /\ Once(recent') /\ Range(recent') = Range(recent) \ {a}
      /\ Len(recent') <= Len(recent)
  <2>1. Len(recent) \in Nat
    BY LenProperties DEF PoolOK
  <2>. QED  BY <2>1, WithoutOne DEF PoolOK, PoolOrdered
<1>4. Len(recent') <= MaxSessions
  <2>1. Len(recent) \in Nat /\ Len(recent') \in Nat
    BY <1>3, LenProperties DEF PoolOK
  <2>. QED  BY <1>3, <2>1, LimitAssumption DEF PoolOK, PoolOrdered
<1>. QED  BY <1>1, <1>2, <1>3, <1>4 DEF PoolOK, PoolOrdered

\* A step that leaves the pool alone, or only disconnects clients.
LEMMA SamePool ==
    ASSUME PoolOK, UNCHANGED <<pool, recent>>, evicted' \subseteq evicted
    PROVE  PoolOK'
BY DEF PoolOK, PoolOrdered, Pooled, Once

-----------------------------------------------------------------------------
(* One request takes a step.                                               *)

CallsOK == /\ call \in [Calls -> CallRecords]
           /\ \A c \in Calls : call[c].pc # "new" => call[c].acct \in Accounts
\* Only request c changes, and not what it was asked to do.
OnlyCall(c) == /\ \A d \in Calls \ {c} : call'[d] = call[d]
               /\ call'[c].op = call[c].op /\ call'[c].acct = call[c].acct

\* The requests after c has become r.
LEMMA CallChange ==
    ASSUME CallsOK, NEW c \in Calls, ~At(c, "new"),
           NEW r \in CallRecords, r.op = call[c].op, r.acct = call[c].acct,
           call' = [call EXCEPT ![c] = r]
    PROVE  CallsOK' /\ OnlyCall(c) /\ call'[c] = r
BY DEF CallsOK, OnlyCall, At

\* A request moves on.
LEMMA GotoChange ==
    ASSUME CallsOK, NEW c \in Calls, ~At(c, "new"), NEW step \in Steps, Goto(c, step)
    PROVE  /\ CallsOK' /\ OnlyCall(c) /\ call'[c].pc = step
           /\ call'[c].seen = call[c].seen /\ call'[c].new = call[c].new
           /\ call'[c].lock = call[c].lock /\ call'[c].client = call[c].client
<1>. DEFINE r == [call[c] EXCEPT !.pc = step]
<1>1. /\ r \in CallRecords /\ r.op = call[c].op /\ r.acct = call[c].acct
      /\ r.pc = step /\ r.seen = call[c].seen /\ r.new = call[c].new
      /\ r.lock = call[c].lock /\ r.client = call[c].client
  BY DEF CallsOK, CallRecords
<1>2. call' = [call EXCEPT ![c] = r]
  BY DEF Goto
<1>. HIDE DEF r
<1>. QED  BY <1>1, <1>2, CallChange

\* A request moves on with a client.
LEMMA ClientChange ==
    ASSUME CallsOK, NEW c \in Calls, ~At(c, "new"), NEW step \in Steps,
           NEW k \in Optional(Calls),
           call' = [call EXCEPT ![c].pc = step, ![c].client = k]
    PROVE  /\ CallsOK' /\ OnlyCall(c) /\ call'[c].pc = step /\ call'[c].client = k
           /\ call'[c].seen = call[c].seen /\ call'[c].new = call[c].new
           /\ call'[c].lock = call[c].lock
<1>. DEFINE r == [call[c] EXCEPT !.pc = step, !.client = k]
<1>1. /\ r \in CallRecords /\ r.op = call[c].op /\ r.acct = call[c].acct
      /\ r.pc = step /\ r.seen = call[c].seen /\ r.new = call[c].new
      /\ r.lock = call[c].lock /\ r.client = k
  BY DEF CallsOK, CallRecords
<1>2. call' = [call EXCEPT ![c] = r]
  OBVIOUS
<1>. HIDE DEF r
<1>. QED  BY <1>1, <1>2, CallChange

\* A request moves on with the row it will commit.
LEMMA RowChange ==
    ASSUME CallsOK, NEW c \in Calls, ~At(c, "new"), NEW step \in Steps, NEW new \in Rows,
           call' = [call EXCEPT ![c].pc = step, ![c].new = new]
    PROVE  /\ CallsOK' /\ OnlyCall(c) /\ call'[c].pc = step /\ call'[c].new = new
           /\ call'[c].seen = call[c].seen
           /\ call'[c].lock = call[c].lock /\ call'[c].client = call[c].client
<1>. DEFINE r == [call[c] EXCEPT !.pc = step, !.new = new]
<1>1. /\ r \in CallRecords /\ r.op = call[c].op /\ r.acct = call[c].acct
      /\ r.pc = step /\ r.seen = call[c].seen /\ r.new = new
      /\ r.lock = call[c].lock /\ r.client = call[c].client
  BY DEF CallsOK, CallRecords
<1>2. call' = [call EXCEPT ![c] = r]
  OBVIOUS
<1>. HIDE DEF r
<1>. QED  BY <1>1, <1>2, CallChange

\* A request is about to commit.
LEMMA CommitChange ==
    ASSUME CallsOK, NEW c \in Calls, ~At(c, "new"), NEW new \in Rows, Commit(c, new)
    PROVE  /\ CallsOK' /\ OnlyCall(c) /\ call'[c].pc = "commit" /\ call'[c].new = new
           /\ call'[c].seen = call[c].seen
           /\ call'[c].lock = call[c].lock /\ call'[c].client = call[c].client
BY RowChange DEF Commit, Steps

\* A request ends without a commit.
LEMMA AnswerChange ==
    ASSUME CallsOK, NEW c \in Calls, ~At(c, "new"), Answer(c)
    PROVE  /\ CallsOK' /\ OnlyCall(c) /\ call'[c].pc = "done"
           /\ ~call'[c].seen.session /\ call'[c].lock = None
<1>. DEFINE r == Answered(call[c])
<1>1. /\ r \in CallRecords /\ r.op = call[c].op /\ r.acct = call[c].acct
      /\ r.pc = "done" /\ ~r.seen.session /\ r.lock = None
  BY DEF CallsOK, Answered, NewCall, AbsentRow, CallRecords, Rows, AccountStatuses,
         Steps, AllOps, Optional
<1>2. call' = [call EXCEPT ![c] = r]
  BY DEF Answer
<1>. HIDE DEF r
<1>. QED  BY <1>1, <1>2, CallChange

\* A row with another status.
LEMMA StatusType ==
    ASSUME CallsOK, NEW c \in Calls, NEW s \in AccountStatuses
    PROVE  Status(c, s) \in Rows /\ Status(c, s).session = call[c].seen.session
BY DEF CallsOK, Status, CallRecords, Rows

-----------------------------------------------------------------------------
(* The invariant, step by step.                                            *)

OthersOK == /\ row \in [Accounts -> Rows]
            /\ flows \in [Accounts -> Optional(Calls)]
            /\ busy \in [Calls -> Optional(Calls)]
            /\ locks \in [Accounts -> Optional(Calls)]
            /\ owner \in [Calls -> Optional(Calls)]
            /\ conn \in [Calls -> {"none", "up", "down"}]

\* The parts the steps are shown to keep make the invariant.
LEMMA Parts ==
    /\ SessionInv => /\ PoolOK /\ CallsOK /\ OthersOK /\ ClientInHand
                     /\ LockInHand /\ OwnersAlive /\ NoSessionDropped
    /\ (/\ PoolOK' /\ CallsOK' /\ OthersOK' /\ ClientInHand'
        /\ LockInHand' /\ OwnersAlive' /\ NoSessionDropped') => SessionInv'
BY DEF SessionInv, TypeOK, PoolOK, CallsOK, OthersOK

\* The commit of a request.
LEMMA CommitRowKeeps == ASSUME SessionInv, NEW c \in Calls, CommitRow(c)
                        PROVE  SessionInv'
<1>. USE Parts DEF CommitRow, loginVars, lockVars, poolVars
<1>1. /\ CallsOK' /\ OnlyCall(c) /\ call'[c].pc = "done"
      /\ ~call'[c].seen.session /\ call'[c].lock = None
  BY AnswerChange DEF At
<1>2. OthersOK'
  <2>1. Written(c) \in Rows
    BY DEF Written, CallsOK, OthersOK, CallRecords, Rows, At
  <2>. QED  BY <2>1 DEF OthersOK
<1>3. PoolOK'
  BY SamePool
<1>4. ClientInHand'
  BY <1>1 DEF ClientInHand, OnlyCall
<1>5. LockInHand'
  BY <1>1 DEF LockInHand, OnlyCall, WantsLock, Holds, At, Forgotten
<1>6. OwnersAlive'
  BY <1>1 DEF OwnersAlive, OnlyCall, Holds, At
<1>7. NoSessionDropped'
  BY <1>1 DEF NoSessionDropped, OnlyCall
<1>. QED  BY <1>1, <1>2, <1>3, <1>4, <1>5, <1>6, <1>7

\* The search for the held login.
LEMMA StartSubmitKeeps == ASSUME SessionInv, NEW c \in Calls, StartSubmit(c)
                          PROVE  SessionInv'
<1>. USE Parts DEF StartSubmit, loginVars, lockVars, poolVars
<1>. DEFINE k == flows[call[c].acct]
<1>1. k \in Optional(Calls)
  BY DEF CallsOK, OthersOK, At
<1>. HIDE DEF k
<1>2. /\ CallsOK' /\ OnlyCall(c)
      /\ call'[c].pc \in {"done", "busyWait", "connectLogin"}
      /\ call'[c].pc = "busyWait" => call'[c].client \in Calls
      /\ call'[c].seen.session => call'[c].new.session
      /\ call'[c].lock = None
  <2>1. call[c].lock = None
    BY DEF LockInHand, WantsLock, Holds, At
  <2>2. CASE Answer(c)
    BY <2>2, AnswerChange DEF At
  <2>3. CASE k # None /\ call' = [call EXCEPT ![c].pc = "busyWait", ![c].client = k]
    <3>1. /\ "busyWait" \in Steps /\ ~At(c, "new")
          /\ (call[c].seen.session => call[c].new.session)
      BY DEF At, Steps, NoSessionDropped
    <3>2. k \in Calls
      BY <1>1, <2>3 DEF Optional
    <3>. QED  BY <1>1, <2>1, <2>3, <3>1, <3>2, ClientChange
  <2>4. CASE Goto(c, "connectLogin")
    BY <2>1, <2>4, GotoChange DEF At, Steps, NoSessionDropped
  <2>. QED  BY <2>2, <2>3, <2>4 DEF k
<1>3. OthersOK'
  BY DEF OthersOK
<1>4. PoolOK'
  BY SamePool
<1>5. ClientInHand'
  BY <1>2 DEF ClientInHand, OnlyCall
<1>6. LockInHand'
  BY <1>2 DEF LockInHand, OnlyCall, WantsLock, Holds, At, Forgotten
<1>7. OwnersAlive'
  BY <1>2 DEF OwnersAlive, OnlyCall, Holds, At
<1>8. NoSessionDropped'
  BY <1>2 DEF NoSessionDropped, OnlyCall
<1>. QED  BY <1>2, <1>3, <1>4, <1>5, <1>6, <1>7, <1>8

\* start_login connects.
LEMMA ConnectLoginKeeps == ASSUME SessionInv, NEW c \in Calls, ConnectLogin(c)
                           PROVE  SessionInv'
<1>. USE Parts DEF ConnectLogin, loginVars, lockVars, poolVars
<1>1. /\ CallsOK' /\ OnlyCall(c)
      /\ \/ call'[c].pc = "sendCode" /\ busy' = [busy EXCEPT ![c] = c]
         \/ call'[c].pc = "done" /\ UNCHANGED busy
      /\ call'[c].seen.session => call'[c].new.session
      /\ call'[c].lock = None
  <2>1. call[c].lock = None
    BY DEF LockInHand, WantsLock, Holds, At
  <2>2. CASE Answer(c) /\ UNCHANGED <<conn, loginVars>>
    BY <2>2, AnswerChange DEF At
  <2>3. CASE Goto(c, "sendCode") /\ busy' = [busy EXCEPT ![c] = c]
    BY <2>1, <2>3, GotoChange DEF At, Steps, NoSessionDropped
  <2>. QED  BY <2>2, <2>3
<1>2. OthersOK'
  BY DEF OthersOK, Optional
<1>3. PoolOK'
  BY SamePool
<1>4. ClientInHand'
  BY <1>1 DEF ClientInHand, OnlyCall
<1>5. LockInHand'
  BY <1>1 DEF LockInHand, OnlyCall, WantsLock, Holds, At, Forgotten
<1>6. OwnersAlive'
  BY <1>1 DEF OwnersAlive, OnlyCall, Holds, At, OthersOK
<1>7. NoSessionDropped'
  BY <1>1 DEF NoSessionDropped, OnlyCall
<1>. QED  BY <1>1, <1>2, <1>3, <1>4, <1>5, <1>6, <1>7

\* Telegram answers the request for a code.
LEMMA SendCodeKeeps == ASSUME SessionInv, NEW c \in Calls, SendCode(c)
                       PROVE  SessionInv'
<1>. USE Parts
<1>0. /\ At(c, "sendCode") /\ busy' = [busy EXCEPT ![c] = None]
      /\ UNCHANGED <<row, locks, owner, pool, recent, evicted>>
  BY DEF SendCode, ReleaseBusy, lockVars, poolVars
<1>1. /\ CallsOK' /\ OnlyCall(c) /\ call'[c].pc \in {"remember", "commit", "done"}
      /\ call'[c].seen.session => call'[c].new.session
      /\ call'[c].lock = None
  <2>1. call[c].lock = None
    BY <1>0 DEF LockInHand, WantsLock, Holds, At
  <2>2. call[c].new \in Rows /\ (call[c].seen.session => call[c].new.session)
    BY DEF CallsOK, CallRecords, NoSessionDropped
  <2>3. CASE call' = [call EXCEPT ![c].pc = "remember",
                                  ![c].new.status = "auth_pending_code"]
    <3>. DEFINE new == [call[c].new EXCEPT !.status = "auth_pending_code"]
    <3>1. new \in Rows /\ new.session = call[c].new.session
      BY <2>2 DEF Rows, AccountStatuses
    <3>2. call' = [call EXCEPT ![c].pc = "remember", ![c].new = new]
      BY <2>3 DEF CallsOK, CallRecords
    <3>. HIDE DEF new
    <3>3. "remember" \in Steps /\ ~At(c, "new")
      BY <1>0 DEF At, Steps
    <3>. QED  BY <2>1, <2>2, <3>1, <3>2, <3>3, RowChange
  <2>4. CASE Answer(c)
    BY <1>0, <2>4, AnswerChange DEF At
  <2>5. CASE Commit(c, Refused(c))
    <3>1. Refused(c) \in Rows /\ (call[c].seen.session => Refused(c).session)
      BY <2>2, StatusType DEF Refused, AccountStatuses
    <3>. QED  BY <1>0, <2>1, <2>5, <3>1, CommitChange DEF At
  <2>. QED  BY <2>3, <2>4, <2>5, Zenon DEF SendCode
<1>2. OthersOK'
  <2>1. /\ flows' \in [Accounts -> Optional(Calls)]
        /\ conn' \in [Calls -> {"none", "up", "down"}]
    BY DEF SendCode, OthersOK, Optional
  <2>. QED  BY <1>0, <2>1 DEF OthersOK, Optional
<1>3. PoolOK'
  BY <1>0, SamePool
<1>4. ClientInHand'
  BY <1>1 DEF ClientInHand, OnlyCall
<1>5. LockInHand'
  BY <1>0, <1>1 DEF LockInHand, OnlyCall, WantsLock, Holds, At, Forgotten
<1>6. OwnersAlive'
  BY <1>0, <1>1, NoneNoCall DEF OwnersAlive, OnlyCall, Holds, At, OthersOK
<1>7. NoSessionDropped'
  BY <1>1 DEF NoSessionDropped, OnlyCall
<1>. QED  BY <1>1, <1>2, <1>3, <1>4, <1>5, <1>6, <1>7

\* The held login has been remembered.
LEMMA RememberKeeps == ASSUME SessionInv, NEW c \in Calls, Remember(c)
                       PROVE  SessionInv'
<1>. USE Parts DEF Remember, loginVars, lockVars, poolVars
<1>. DEFINE k == flows[call[c].acct]
<1>1. k \in Optional(Calls)
  BY DEF CallsOK, OthersOK, At
<1>. HIDE DEF k
<1>2. /\ CallsOK' /\ OnlyCall(c) /\ call'[c].pc \in {"done", "busyWait", "commit"}
      /\ call'[c].pc = "busyWait" => call'[c].client \in Calls
      /\ call'[c].seen.session => call'[c].new.session
      /\ call'[c].lock = None
  <2>1. call[c].lock = None
    BY DEF LockInHand, WantsLock, Holds, At
  <2>2. CASE Answer(c)
    BY <2>2, AnswerChange DEF At
  <2>3. CASE k # None /\ call' = [call EXCEPT ![c].pc = "busyWait", ![c].client = k]
    <3>1. /\ "busyWait" \in Steps /\ ~At(c, "new")
          /\ (call[c].seen.session => call[c].new.session)
      BY DEF At, Steps, NoSessionDropped
    <3>2. k \in Calls
      BY <1>1, <2>3 DEF Optional
    <3>. QED  BY <1>1, <2>1, <2>3, <3>1, <3>2, ClientChange
  <2>4. CASE Goto(c, "commit")
    BY <2>1, <2>4, GotoChange DEF At, Steps, NoSessionDropped
  <2>. QED  BY <2>2, <2>3, <2>4 DEF k
<1>3. OthersOK'
  BY DEF OthersOK
<1>4. PoolOK'
  BY SamePool
<1>5. ClientInHand'
  BY <1>2 DEF ClientInHand, OnlyCall
<1>6. LockInHand'
  BY <1>2 DEF LockInHand, OnlyCall, WantsLock, Holds, At, Forgotten
<1>7. OwnersAlive'
  BY <1>2 DEF OwnersAlive, OnlyCall, Holds, At
<1>8. NoSessionDropped'
  BY <1>2 DEF NoSessionDropped, OnlyCall
<1>. QED  BY <1>2, <1>3, <1>4, <1>5, <1>6, <1>7, <1>8

\* A submission takes the held login.
LEMMA EnterBusyKeeps == ASSUME SessionInv, NEW c \in Calls, EnterBusy(c)
                        PROVE  SessionInv'
<1>. USE Parts DEF EnterBusy, loginVars, lockVars, poolVars
<1>1. /\ CallsOK' /\ OnlyCall(c) /\ call'[c].pc = "signIn"
      /\ call'[c].client = call[c].client /\ call[c].client \in Calls
      /\ call'[c].seen.session => call'[c].new.session
      /\ call'[c].lock = None
  BY GotoChange DEF At, Steps, NoSessionDropped, ClientInHand, LockInHand, WantsLock, Holds
<1>2. OthersOK'
  BY DEF OthersOK, Optional
<1>3. PoolOK'
  BY SamePool
<1>4. ClientInHand'
  BY <1>1 DEF ClientInHand, OnlyCall
<1>5. LockInHand'
  BY <1>1 DEF LockInHand, OnlyCall, WantsLock, Holds, At, Forgotten
<1>6. OwnersAlive'
  BY <1>1 DEF OwnersAlive, OnlyCall, Holds, At, OthersOK
<1>7. NoSessionDropped'
  BY <1>1 DEF NoSessionDropped, OnlyCall
<1>. QED  BY <1>1, <1>2, <1>3, <1>4, <1>5, <1>6, <1>7

\* Telegram answers the sign-in.
LEMMA SignInKeeps == ASSUME SessionInv, NEW c \in Calls, SignIn(c)
                     PROVE  SessionInv'
<1>. USE Parts
<1>. DEFINE k == call[c].client
<1>0. /\ At(c, "signIn") /\ ~At(c, "new")
      /\ UNCHANGED <<row, locks, owner, pool, recent, evicted, conn>>
  BY DEF SignIn, lockVars, poolVars, At
<1>1. k \in Calls /\ call[c].lock = None /\ call[c].new \in Rows
      /\ (call[c].seen.session => call[c].new.session)
  BY <1>0 DEF ClientInHand, LockInHand, WantsLock, Holds, At, NoSessionDropped,
         CallsOK, CallRecords
<1>2. /\ CallsOK' /\ OnlyCall(c)
      /\ \/ call'[c].pc \in {"commit", "done"} /\ busy' = [busy EXCEPT ![k] = None]
         \/ call'[c].pc = "pooling" /\ call'[c].client = k /\ UNCHANGED busy
      /\ call'[c].seen.session => call'[c].new.session
      /\ call'[c].lock = None
  <2>1. CASE /\ Commit(c, [call[c].new EXCEPT !.status = "auth_pending_2fa"])
             /\ busy' = [busy EXCEPT ![k] = None]
    <3>. DEFINE new == [call[c].new EXCEPT !.status = "auth_pending_2fa"]
    <3>1. new \in Rows /\ new.session = call[c].new.session
      BY <1>1 DEF Rows, AccountStatuses
    <3>. HIDE DEF new
    <3>2. Commit(c, new)
      BY <2>1 DEF new
    <3>. QED  BY <1>0, <1>1, <2>1, <3>1, <3>2, CommitChange
  <2>2. CASE Commit(c, call[c].new) /\ busy' = [busy EXCEPT ![k] = None]
    BY <1>0, <1>1, <2>2, CommitChange
  <2>3. CASE Answer(c) /\ busy' = [busy EXCEPT ![k] = None]
    BY <1>0, <2>3, AnswerChange
  <2>4. CASE /\ call' = [call EXCEPT ![c].pc = "pooling",
                              ![c].new = [status |-> "active", session |-> TRUE]]
             /\ UNCHANGED busy
    <3>. DEFINE new == [status |-> "active", session |-> TRUE]
    <3>1. new \in Rows /\ new.session
      BY DEF Rows, AccountStatuses
    <3>2. call' = [call EXCEPT ![c].pc = "pooling", ![c].new = new]
      BY <2>4
    <3>. HIDE DEF new
    <3>3. /\ CallsOK' /\ OnlyCall(c) /\ call'[c].pc = "pooling"
          /\ call'[c].new = new /\ call'[c].lock = None /\ call'[c].client = k
      <4>1. "pooling" \in Steps
        BY DEF Steps
      <4>. QED  BY <1>0, <1>1, <3>1, <3>2, <4>1, RowChange
    <3>. QED  BY <2>4, <3>1, <3>3
  <2>5. \/ /\ \/ Commit(c, [call[c].new EXCEPT !.status = "auth_pending_2fa"])
              \/ Commit(c, call[c].new)
              \/ Answer(c)
           /\ busy' = [busy EXCEPT ![k] = None]
        \/ /\ call' = [call EXCEPT ![c].pc = "pooling",
                              ![c].new = [status |-> "active", session |-> TRUE]]
           /\ UNCHANGED busy
    BY Zenon DEF SignIn, ReleaseBusy
  <2>6. CASE busy' = [busy EXCEPT ![k] = None]
    BY <2>1, <2>2, <2>3, <2>4, <2>5, <2>6, Zenon
  <2>. QED  BY <2>4, <2>5, <2>6, Zenon
<1>. HIDE DEF k
<1>3. OthersOK'
  <2>1. flows' \in [Accounts -> Optional(Calls)]
    BY DEF SignIn, OthersOK, Optional
  <2>. QED  BY <1>0, <1>2, <2>1 DEF OthersOK, Optional
<1>4. PoolOK'
  BY <1>0, SamePool
<1>5. ClientInHand'
  BY <1>1, <1>2 DEF ClientInHand, OnlyCall
<1>6. LockInHand'
  BY <1>0, <1>2 DEF LockInHand, OnlyCall, WantsLock, Holds, At, Forgotten
<1>7. OwnersAlive'
  <2>1. UNCHANGED owner /\ \A d \in Calls : ~Holds(c) /\ ~Holds(c)' /\ ~At(c, "done")
    BY <1>0, <1>2 DEF Holds, At
  <2>2. ASSUME NEW d \in Calls, NEW j \in Calls
        PROVE  /\ Holds(d)' /\ call'[d].lock = j => owner'[j] = d
               /\ owner'[j] = d => \/ Holds(d)' /\ call'[d].lock = j
                                   \/ At(d, "done")' /\ call'[d].op = "export"
    BY <1>2, <2>1 DEF OwnersAlive, OnlyCall, Holds, At
  <2>3. ASSUME NEW d \in Calls, NEW j \in Calls, busy'[j] = d
        PROVE  \/ At(d, "sendCode")' /\ j = d
               \/ call'[d].pc \in {"signIn", "pooling"} /\ call'[d].client = j
    BY <1>0, <1>1, <1>2, <2>3, NoneNoCall DEF OwnersAlive, OnlyCall, At, OthersOK, k
  <2>. QED  BY <2>2, <2>3 DEF OwnersAlive
<1>8. NoSessionDropped'
  BY <1>2 DEF NoSessionDropped, OnlyCall
<1>. QED  BY <1>2, <1>3, <1>4, <1>5, <1>6, <1>7, <1>8

\* The logged-in client enters the pool.
LEMMA FinishLoginKeeps == ASSUME SessionInv, NEW c \in Calls, FinishLogin(c)
                          PROVE  SessionInv'
<1>. USE Parts DEF FinishLogin, ReleaseBusy, loginVars, lockVars
<1>1. call[c].client \in Calls /\ call[c].acct \in Accounts
  BY DEF ClientInHand, CallsOK, At
<1>2. /\ CallsOK' /\ OnlyCall(c) /\ call'[c].pc = "commit"
      /\ call'[c].seen.session => call'[c].new.session
      /\ call'[c].lock = None
  BY GotoChange DEF At, Steps, NoSessionDropped, LockInHand, WantsLock, Holds
<1>3. OthersOK'
  BY <1>1 DEF OthersOK, Optional
<1>4. PoolOK'
  BY <1>1, InsertKeepsPool
<1>5. ClientInHand'
  BY <1>2 DEF ClientInHand, OnlyCall
<1>6. LockInHand'
  BY <1>2 DEF LockInHand, OnlyCall, WantsLock, Holds, At, Forgotten
<1>7. OwnersAlive'
  BY <1>1, <1>2, NoneNoCall DEF OwnersAlive, OnlyCall, Holds, At, OthersOK
<1>8. NoSessionDropped'
  BY <1>2 DEF NoSessionDropped, OnlyCall
<1>. QED  BY <1>2, <1>3, <1>4, <1>5, <1>6, <1>7, <1>8

\* search_chats and create_export ask for the lock of the account.
LEMMA GetLockKeeps == ASSUME SessionInv, NEW c \in Calls, GetLock(c)
                      PROVE  SessionInv'
<1>. USE Parts DEF GetLock, loginVars, poolVars
<1>. DEFINE a == call[c].acct
<1>1. a \in Accounts /\ call[c] \in CallRecords
      /\ (call[c].seen.session => call[c].new.session)
      /\ LockFor(c) \in Calls /\ (locks[a] # None => LockFor(c) = locks[a])
  BY DEF CallsOK, OthersOK, At, Optional, LockFor, NoSessionDropped
<1>2. /\ CallsOK' /\ OnlyCall(c)
      /\ \/ call'[c].pc = "done" /\ call'[c].lock = None /\ UNCHANGED locks
         \/ /\ call'[c].pc = "lockWait" /\ call'[c].lock = LockFor(c)
            /\ locks' = [locks EXCEPT ![a] = LockFor(c)]
      /\ call'[c].seen.session => call'[c].new.session
  <2>1. CASE Answer(c) /\ UNCHANGED locks
    BY <2>1, AnswerChange DEF At
  <2>2. CASE /\ call' = [call EXCEPT ![c].pc = "lockWait", ![c].lock = LockFor(c)]
             /\ locks' = [locks EXCEPT ![a] = LockFor(c)]
    <3>. DEFINE r == [call[c] EXCEPT !.pc = "lockWait", !.lock = LockFor(c)]
    <3>1. /\ r \in CallRecords /\ r.op = call[c].op /\ r.acct = call[c].acct
          /\ r.pc = "lockWait" /\ r.seen = call[c].seen /\ r.new = call[c].new
          /\ r.lock = LockFor(c)
      BY <1>1 DEF CallRecords, Steps, Optional
    <3>2. call' = [call EXCEPT ![c] = r]
      BY <2>2
    <3>. HIDE DEF r
    <3>3. CallsOK' /\ OnlyCall(c) /\ call'[c] = r
      BY <3>1, <3>2, CallChange DEF At
    <3>. QED  BY <1>1, <2>2, <3>1, <3>3
  <2>. QED  BY <2>1, <2>2
<1>3. OthersOK'
  BY <1>1, <1>2 DEF OthersOK, Optional
<1>4. PoolOK'
  BY SamePool
<1>5. ClientInHand'
  BY <1>2 DEF ClientInHand, OnlyCall
<1>6. LockInHand'
  <2>1. \A b \in Accounts : locks[b] # None => locks'[b] = locks[b]
    BY <1>1, <1>2 DEF OthersOK
  <2>2. \A b \in Accounts : Forgotten(b) => Forgotten(b)'
    BY <1>2 DEF Forgotten, OnlyCall, At
  <2>3. ASSUME NEW d \in Calls \ {c}
        PROVE  /\ call'[d].lock # None <=> WantsLock(d)'
               /\ WantsLock(d)' => call'[d].op \in {"search", "export"}
               /\ WantsLock(d)' => \/ locks'[call'[d].acct] = call'[d].lock
                                   \/ Forgotten(call[d].acct)'
    <3>1. call'[d] = call[d] /\ (WantsLock(d)' <=> WantsLock(d))
      BY <1>2 DEF OnlyCall, WantsLock, Holds, At
    <3>2. WantsLock(d) => call[d].lock # None /\ call[d].acct \in Accounts
      BY DEF LockInHand, CallsOK, WantsLock, Holds, At
    <3>3. CASE WantsLock(d) /\ locks[call[d].acct] = call[d].lock
      BY <2>1, <3>1, <3>2, <3>3 DEF LockInHand
    <3>4. CASE WantsLock(d) /\ Forgotten(call[d].acct)
      BY <2>2, <3>1, <3>2, <3>4 DEF LockInHand
    <3>5. CASE ~WantsLock(d)
      BY <3>1, <3>5 DEF LockInHand
    <3>. QED  BY <3>3, <3>4, <3>5 DEF LockInHand
  <2>4. /\ call'[c].lock # None <=> WantsLock(c)'
        /\ WantsLock(c)' => call'[c].op \in {"search", "export"}
        /\ WantsLock(c)' => locks'[call'[c].acct] = call'[c].lock
    BY <1>1, <1>2, NoneNoCall DEF OnlyCall, WantsLock, Holds, At, OthersOK
  <2>. QED  BY <2>3, <2>4, Zenon DEF LockInHand
<1>7. OwnersAlive'
  BY <1>2 DEF lockVars, OwnersAlive, OnlyCall, Holds, At
<1>8. NoSessionDropped'
  BY <1>2 DEF NoSessionDropped, OnlyCall
<1>. QED  BY <1>2, <1>3, <1>4, <1>5, <1>6, <1>7, <1>8

\* The pooled client of the account, or the need to connect one.
LEMMA LookupChange ==
    ASSUME SessionInv, NEW c \in Calls, ~At(c, "new"), Lookup(c),
           UNCHANGED <<pool, evicted>>
    PROVE  /\ PoolOK' /\ CallsOK' /\ OnlyCall(c) /\ call'[c].pc \in {"use", "connect"}
           /\ call'[c].pc = "use" => call'[c].client \in Calls
           /\ call'[c].seen = call[c].seen /\ call'[c].new = call[c].new
           /\ call'[c].lock = call[c].lock
<1>. USE Parts DEF Lookup
<1>. DEFINE a == call[c].acct
<1>1. a \in Accounts /\ pool[a] \in Optional(Calls)
  BY DEF CallsOK, PoolOK, At
<1>2. CASE /\ pool[a] # None /\ recent' = Touched(recent, a)
           /\ call' = [call EXCEPT ![c].pc = "use", ![c].client = pool[a]]
  <2>1. PoolOK'
    BY <1>1, <1>2, TouchKeepsPool
  <2>. DEFINE k == pool[a]
  <2>. HIDE DEF k
  <2>2. /\ k \in Calls
        /\ call' = [call EXCEPT ![c].pc = "use", ![c].client = k]
    BY <1>1, <1>2 DEF k, Optional
  <2>3. "use" \in Steps /\ k \in Optional(Calls)
    BY <2>2 DEF Steps, Optional
  <2>. QED  BY <2>1, <2>2, <2>3, ClientChange
<1>3. CASE Goto(c, "connect") /\ UNCHANGED recent
  BY <1>3, GotoChange, SamePool DEF Steps
<1>. QED  BY <1>2, <1>3, Zenon

\* A request takes the lock it waits for.
LEMMA TakeLockKeeps == ASSUME SessionInv, NEW c \in Calls, TakeLock(c)
                       PROVE  SessionInv'
<1>. USE Parts DEF TakeLock, loginVars
<1>1. /\ call[c].lock \in Calls /\ owner[call[c].lock] = None
      /\ call[c].op \in {"search", "export"}
  BY NoneNoCall DEF LockInHand, WantsLock, At, CallsOK, CallRecords, Optional
<1>2. /\ PoolOK' /\ CallsOK' /\ OnlyCall(c) /\ call'[c].pc \in {"use", "connect"}
      /\ call'[c].pc = "use" => call'[c].client \in Calls
      /\ call'[c].seen.session => call'[c].new.session
      /\ call'[c].lock = call[c].lock
  BY LookupChange DEF At, NoSessionDropped
<1>3. OthersOK'
  BY <1>1 DEF OthersOK, Optional
<1>4. ClientInHand'
  BY <1>2 DEF ClientInHand, OnlyCall
<1>5. LockInHand'
  BY <1>1, <1>2 DEF LockInHand, OnlyCall, WantsLock, Holds, At, Forgotten
<1>6. OwnersAlive'
  BY <1>1, <1>2, NoneNoCall DEF OwnersAlive, OnlyCall, Holds, At, OthersOK
<1>7. NoSessionDropped'
  BY <1>2 DEF NoSessionDropped, OnlyCall
<1>. QED  BY <1>2, <1>3, <1>4, <1>5, <1>6, <1>7

\* check_account looks for the client of the account without taking its lock.
LEMMA StartCheckKeeps == ASSUME SessionInv, NEW c \in Calls, StartCheck(c)
                         PROVE  SessionInv'
<1>. USE Parts DEF loginVars, lockVars, poolVars
<1>1. /\ ~At(c, "new") /\ ~At(c, "done") /\ ~WantsLock(c) /\ call[c].op = "check"
      /\ call[c].lock = None /\ (call[c].seen.session => call[c].new.session)
      /\ UNCHANGED <<row, flows, busy, locks, owner, pool, evicted, conn>>
  BY DEF StartCheck, At, WantsLock, Holds, LockInHand, NoSessionDropped
<1>2. /\ PoolOK' /\ CallsOK' /\ OnlyCall(c) /\ call'[c].pc \in {"commit", "use", "connect"}
      /\ call'[c].pc = "use" => call'[c].client \in Calls
      /\ call'[c].seen.session => call'[c].new.session
      /\ call'[c].lock = None
  <2>1. CASE Commit(c, Status(c, "error")) /\ UNCHANGED recent
    <3>1. Status(c, "error") \in Rows /\ Status(c, "error").session = call[c].seen.session
      BY StatusType DEF AccountStatuses
    <3>2. PoolOK'
      BY <1>1, <2>1, SamePool
    <3>. QED  BY <1>1, <2>1, <3>1, <3>2, CommitChange
  <2>2. CASE Lookup(c)
    BY <1>1, <2>2, LookupChange
  <2>. QED  BY <2>1, <2>2 DEF StartCheck
<1>3. OthersOK'
  BY <1>1 DEF OthersOK
<1>4. ClientInHand'
  BY <1>2 DEF ClientInHand, OnlyCall
<1>5. LockInHand'
  BY <1>1, <1>2 DEF LockInHand, OnlyCall, WantsLock, Holds, At, Forgotten
<1>6. OwnersAlive'
  <2>1. ~Holds(c)'
    BY <1>1, <1>2 DEF OnlyCall, Holds
  <2>2. ~Holds(c) /\ call[c].pc \notin {"done", "sendCode", "signIn", "pooling"}
    BY DEF Holds, At, StartCheck
  <2>. QED  BY <1>1, <1>2, <2>1, <2>2 DEF OwnersAlive, OnlyCall, Holds, At
<1>7. NoSessionDropped'
  BY <1>2 DEF NoSessionDropped, OnlyCall
<1>. QED  BY <1>2, <1>3, <1>4, <1>5, <1>6, <1>7

\* What the lock owners are after request c has released its lock.
LEMMA UnlockedOwners ==
    ASSUME SessionInv, NEW c \in Calls, call[c].pc \in {"connect", "use"},
           owner' = Unlocked(c)
    PROVE  /\ owner' \in [Calls -> Optional(Calls)]
           /\ \A k \in Calls : owner'[k] # c
           /\ \A d \in Calls \ {c}, k \in Calls : owner'[k] = d <=> owner[k] = d
<1>. USE Parts
<1>1. call[c].lock \in Optional(Calls) /\ owner \in [Calls -> Optional(Calls)]
  BY DEF CallsOK, CallRecords, OthersOK
<1>2. CASE call[c].lock = None
  <2>1. ~Holds(c) /\ ~At(c, "done")
    BY <1>2 DEF LockInHand, WantsLock, At
  <2>. QED  BY <1>1, <1>2, <2>1 DEF Unlocked, OwnersAlive
<1>3. CASE call[c].lock # None
  <2>. DEFINE k == call[c].lock
  <2>1. k \in Calls /\ Holds(c) /\ owner[k] = c
    BY <1>1, <1>3 DEF Optional, LockInHand, OwnersAlive, WantsLock, At
  <2>2. owner' = [owner EXCEPT ![k] = None]
    BY <1>3 DEF Unlocked
  <2>3. \A j \in Calls : owner[j] = c => j = k
    BY <2>1 DEF OwnersAlive, Holds, At
  <2>. HIDE DEF k
  <2>. QED  BY <1>1, <2>1, <2>2, <2>3, NoneNoCall DEF Optional
<1>. QED  BY <1>2, <1>3

\* Request c, which used or connected a client, has been answered or goes on to
\* its commit, and its lock is free.
LEMMA ReleaseKeeps ==
    ASSUME SessionInv, NEW c \in Calls, call[c].pc \in {"connect", "use"},
           PoolOK', CallsOK', OnlyCall(c), call'[c].pc \in {"commit", "done"},
           call'[c].seen.session => call'[c].new.session, call'[c].lock = None,
           owner' = Unlocked(c), OthersOK', UNCHANGED <<busy, locks>>
    PROVE  SessionInv'
<1>. USE Parts
<1>1. /\ \A k \in Calls : owner'[k] # c
      /\ \A d \in Calls \ {c}, k \in Calls : owner'[k] = d <=> owner[k] = d
  BY UnlockedOwners
<1>2. ClientInHand'
  BY DEF ClientInHand, OnlyCall
<1>3. LockInHand'
  BY DEF LockInHand, OnlyCall, WantsLock, Holds, At, Forgotten
<1>4. OwnersAlive'
  BY <1>1 DEF OwnersAlive, OnlyCall, Holds, At
<1>5. NoSessionDropped'
  BY DEF NoSessionDropped, OnlyCall
<1>. QED  BY <1>2, <1>3, <1>4, <1>5

\* A new client connects, or fails to.
LEMMA ConnectKeeps == ASSUME SessionInv, NEW c \in Calls, Connect(c)
                      PROVE  SessionInv'
<1>. USE Parts DEF loginVars, poolVars
<1>1. /\ At(c, "connect") /\ call[c].acct \in Accounts /\ UNCHANGED <<row, flows, busy, locks>>
      /\ (call[c].seen.session => call[c].new.session)
  BY DEF Connect, At, CallsOK, NoSessionDropped
<1>2. CASE /\ conn' = [conn EXCEPT ![c] = "up"] /\ Insert(call[c].acct, c)
           /\ call' = [call EXCEPT ![c].pc = "use", ![c].client = c]
           /\ UNCHANGED owner
  <2>1. /\ CallsOK' /\ OnlyCall(c) /\ call'[c].pc = "use" /\ call'[c].client = c
        /\ call'[c].seen.session => call'[c].new.session
        /\ call'[c].lock = call[c].lock
    BY <1>1, <1>2, ClientChange DEF At, Steps, Optional
  <2>2. PoolOK'
    BY <1>1, <1>2, InsertKeepsPool
  <2>3. OthersOK'
    BY <1>1, <1>2 DEF OthersOK
  <2>4. ClientInHand'
    BY <2>1 DEF ClientInHand, OnlyCall
  <2>5. LockInHand'
    BY <1>1, <2>1 DEF LockInHand, OnlyCall, WantsLock, Holds, At, Forgotten
  <2>6. OwnersAlive'
    <3>1. /\ Holds(c)' <=> Holds(c)
          /\ call[c].pc \notin {"done", "sendCode", "signIn", "pooling"}
      BY <1>1, <2>1 DEF OnlyCall, Holds, At
    <3>2. UNCHANGED <<owner, busy>>
      BY <1>1, <1>2
    <3>3. \A k \in Calls : /\ Holds(c)' /\ call'[c].lock = k => owner'[k] = c
                           /\ owner'[k] = c => Holds(c)' /\ call'[c].lock = k
                           /\ busy'[k] # c
      BY <2>1, <3>1, <3>2 DEF OwnersAlive, At
    <3>. QED  BY <2>1, <3>2, <3>3 DEF OwnersAlive, OnlyCall, Holds, At
  <2>7. NoSessionDropped'
    BY <2>1 DEF NoSessionDropped, OnlyCall
  <2>. QED  BY <2>1, <2>2, <2>3, <2>4, <2>5, <2>6, <2>7
<1>3. CASE owner' = AfterConnectError(c) /\ Answer(c) /\ UNCHANGED <<conn, poolVars>>
  <2>1. /\ CallsOK' /\ OnlyCall(c) /\ call'[c].pc = "done"
        /\ ~call'[c].seen.session /\ call'[c].lock = None
    BY <1>1, <1>3, AnswerChange DEF At
  <2>2. PoolOK'
    BY <1>3, SamePool
  <2>3. owner' = Unlocked(c) /\ OthersOK'
    BY <1>1, <1>3, UnlockedOwners DEF OthersOK, AfterConnectError, At
  <2>. QED  BY <1>1, <2>1, <2>2, <2>3, ReleaseKeeps DEF At
<1>. QED  BY <1>2, <1>3, Zenon DEF Connect

\* search_chats has its client.
LEMMA UseForSearchKeeps == ASSUME SessionInv, NEW c \in Calls, UseForSearch(c)
                           PROVE  SessionInv'
<1>. USE Parts DEF UseForSearch, loginVars
<1>1. /\ CallsOK' /\ OnlyCall(c) /\ call'[c].pc = "done"
      /\ ~call'[c].seen.session /\ call'[c].lock = None
  BY AnswerChange DEF At
<1>2. PoolOK'
  BY TouchKeepsPool DEF CallsOK, At
<1>3. OthersOK'
  BY UnlockedOwners DEF OthersOK, At
<1>. QED  BY <1>1, <1>2, <1>3, ReleaseKeeps DEF At

\* create_export has its client, and may leave without a release.
LEMMA UseForExportKeeps == ASSUME SessionInv, NEW c \in Calls, UseForExport(c)
                           PROVE  SessionInv'
<1>. USE Parts DEF loginVars
<1>1. /\ At(c, "use") /\ call[c].op = "export" /\ call[c].acct \in Accounts
      /\ UNCHANGED <<row, flows, busy, locks, pool, evicted, conn>>
  BY DEF UseForExport, At, CallsOK
<1>2. /\ CallsOK' /\ OnlyCall(c) /\ call'[c].pc = "done"
      /\ ~call'[c].seen.session /\ call'[c].lock = None
  BY <1>1, AnswerChange DEF At, UseForExport
<1>3. CASE owner' = Unlocked(c) /\ recent' = Touched(recent, call[c].acct)
  <2>1. PoolOK'
    BY <1>1, <1>3, TouchKeepsPool
  <2>2. OthersOK'
    BY <1>1, <1>3, UnlockedOwners DEF OthersOK, At
  <2>. QED  BY <1>1, <1>2, <1>3, <2>1, <2>2, ReleaseKeeps DEF At
<1>4. CASE UNCHANGED <<owner, recent>>
  <2>1. PoolOK'
    BY <1>1, <1>4, SamePool
  <2>2. OthersOK'
    BY <1>1, <1>4 DEF OthersOK
  <2>3. ClientInHand'
    BY <1>2 DEF ClientInHand, OnlyCall
  <2>4. LockInHand'
    BY <1>1, <1>2 DEF LockInHand, OnlyCall, WantsLock, Holds, At, Forgotten
  <2>5. OwnersAlive'
    BY <1>1, <1>2, <1>4 DEF OwnersAlive, OnlyCall, Holds, At
  <2>6. NoSessionDropped'
    BY <1>2 DEF NoSessionDropped, OnlyCall
  <2>. QED  BY <1>2, <2>1, <2>2, <2>3, <2>4, <2>5, <2>6
<1>. QED  BY <1>3, <1>4, Zenon DEF UseForExport

\* check_account has its client.
LEMMA UseForCheckKeeps == ASSUME SessionInv, NEW c \in Calls, UseForCheck(c)
                          PROVE  SessionInv'
<1>. USE Parts DEF loginVars, lockVars
<1>1. /\ At(c, "use") /\ call[c].op = "check" /\ call[c].acct \in Accounts
      /\ recent' = Touched(recent, call[c].acct)
      /\ UNCHANGED <<row, flows, busy, locks, owner, pool, evicted, conn>>
  BY DEF UseForCheck, At, CallsOK
<1>2. call[c].lock = None
  BY <1>1 DEF LockInHand, WantsLock, Holds, At
<1>3. /\ CallsOK' /\ OnlyCall(c) /\ call'[c].pc \in {"commit", "done"}
      /\ call'[c].seen.session => call'[c].new.session
      /\ call'[c].lock = None
  <2>1. CASE \E s \in {"active", "limited"} : Commit(c, Status(c, s))
    <3>1. PICK s \in {"active", "limited"} : Commit(c, Status(c, s))
      BY <2>1
    <3>2. Status(c, s) \in Rows /\ Status(c, s).session = call[c].seen.session
      BY StatusType DEF AccountStatuses
    <3>. QED  BY <1>1, <1>2, <3>1, <3>2, CommitChange DEF At, NoSessionDropped
  <2>2. CASE Answer(c)
    BY <1>1, <2>2, AnswerChange DEF At
  <2>. QED  BY <2>1, <2>2 DEF UseForCheck
<1>4. PoolOK'
  BY <1>1, TouchKeepsPool
<1>5. OthersOK'
  BY <1>1 DEF OthersOK
<1>6. owner' = Unlocked(c)
  BY <1>1, <1>2 DEF Unlocked
<1>. QED  BY <1>1, <1>3, <1>4, <1>5, <1>6, ReleaseKeeps DEF At

\* A delete forgets the login, the lock and the client of its account.
LEMMA DropKeeps == ASSUME SessionInv, NEW c \in Calls, Drop(c)
                   PROVE  SessionInv'
<1>. USE Parts
<1>0. PICK a \in Accounts : a = call[c].acct
  BY DEF Drop, At, CallsOK
<1>1. /\ At(c, "start") /\ call[c].op = "delete" /\ call[c].acct = a
      /\ (call[c].seen.session => call[c].new.session) /\ call[c].lock = None
      /\ UNCHANGED <<row, busy, owner, evicted>> /\ Goto(c, "purge")
  BY <1>0 DEF Drop, At, NoSessionDropped, LockInHand, WantsLock, Holds
<1>2. /\ CallsOK' /\ OnlyCall(c) /\ call'[c].pc = "purge"
      /\ call'[c].seen.session => call'[c].new.session
      /\ call'[c].lock = None
  BY <1>1, GotoChange DEF At, Steps
<1>3. OthersOK'
  <2>1. conn' \in [Calls -> {"none", "up", "down"}]
    BY DEF Drop, OthersOK
  <2>. QED  BY <1>1, <2>1 DEF Drop, OthersOK, Optional
<1>4. PoolOK'
  BY <1>0, DropKeepsPool DEF Drop
<1>5. ClientInHand'
  BY <1>2 DEF ClientInHand, OnlyCall
<1>6. LockInHand'
  <2>1. \A b \in Accounts : b # a => locks'[b] = locks[b]
    BY <1>1 DEF Drop, OthersOK
  <2>2. \A b : Forgotten(b) => Forgotten(b)'
    BY <1>1, <1>2 DEF Forgotten, OnlyCall, At
  <2>3. Forgotten(a)'
    BY <1>1, <1>2 DEF Forgotten, OnlyCall
  <2>4. ASSUME NEW d \in Calls \ {c}
        PROVE  /\ call'[d].lock # None <=> WantsLock(d)'
               /\ WantsLock(d)' => call'[d].op \in {"search", "export"}
               /\ WantsLock(d)' => \/ locks'[call'[d].acct] = call'[d].lock
                                   \/ Forgotten(call[d].acct)'
    <3>1. call'[d] = call[d] /\ (WantsLock(d)' <=> WantsLock(d))
      BY <1>2 DEF OnlyCall, WantsLock, Holds, At
    <3>2. WantsLock(d) => call[d].acct \in Accounts
      BY DEF CallsOK, WantsLock, Holds, At
    <3>3. WantsLock(d) => \/ locks'[call[d].acct] = call[d].lock
                          \/ Forgotten(call[d].acct)'
      <4>1. WantsLock(d) /\ Forgotten(call[d].acct) => Forgotten(call[d].acct)'
        BY <2>2, <3>1
      <4>2. call[d].acct = a => Forgotten(call[d].acct)'
        BY <2>3, <3>1
      <4>. QED  BY <2>1, <3>2, <4>1, <4>2 DEF LockInHand
    <3>. QED  BY <3>1, <3>3 DEF LockInHand
  <2>5. call'[c].lock = None /\ ~WantsLock(c)'
    BY <1>2 DEF WantsLock, Holds, At
  <2>6. \A d \in Calls \ {c} : call'[d].acct = call[d].acct
    BY <1>2 DEF OnlyCall
  <2>. QED  BY <2>4, <2>5, <2>6, Zenon DEF LockInHand
<1>7. OwnersAlive'
  BY <1>1, <1>2 DEF OwnersAlive, OnlyCall, Holds, At
<1>8. NoSessionDropped'
  BY <1>2 DEF NoSessionDropped, OnlyCall
<1>. QED  BY <1>2, <1>3, <1>4, <1>5, <1>6, <1>7, <1>8

\* The row is deleted.
LEMMA DeleteAccountKeeps == ASSUME SessionInv, NEW c \in Calls, DeleteAccount(c)
                            PROVE  SessionInv'
<1>. USE Parts DEF DeleteAccount, loginVars, lockVars, poolVars
<1>1. /\ CallsOK' /\ OnlyCall(c) /\ call'[c].pc = "done"
      /\ ~call'[c].seen.session /\ call'[c].lock = None
  BY AnswerChange DEF At
<1>2. OthersOK'
  BY DEF OthersOK, Rows, AccountStatuses
<1>3. PoolOK'
  BY SamePool
<1>4. ClientInHand'
  BY <1>1 DEF ClientInHand, OnlyCall
<1>5. LockInHand'
  BY <1>1 DEF LockInHand, OnlyCall, WantsLock, Holds, At, Forgotten
<1>6. OwnersAlive'
  BY <1>1 DEF OwnersAlive, OnlyCall, Holds, At
<1>7. NoSessionDropped'
  BY <1>1 DEF NoSessionDropped, OnlyCall
<1>. QED  BY <1>1, <1>2, <1>3, <1>4, <1>5, <1>6, <1>7

\* A request arrives.
LEMMA ReceiveKeeps == ASSUME SessionInv, NEW c \in Calls, Receive(c)
                      PROVE  SessionInv'
<1>. USE Parts DEF loginVars, lockVars, poolVars
<1>1. At(c, "new") /\ UNCHANGED <<flows, busy, locks, owner, pool, recent, evicted, conn>>
  BY DEF Receive
<1>2. PICK op \in Ops, a \in Accounts :
         \/ /\ op = "create" /\ row[a] = AbsentRow
            /\ row' = [row EXCEPT ![a].status = "new"]
            /\ call' = [call EXCEPT ![c] = [NewCall EXCEPT !.pc = "connectLogin",
                  !.op = op, !.acct = a, !.seen = row'[a], !.new = row'[a]]]
         \/ /\ op # "create" /\ Exists(row[a])
            /\ call' = [call EXCEPT ![c] = [NewCall EXCEPT !.pc = "start",
                  !.op = op, !.acct = a, !.seen = row[a], !.new = row[a]]]
            /\ UNCHANGED row
  BY DEF Receive
<1>. DEFINE Read(step, r) == [NewCall EXCEPT !.pc = step, !.op = op, !.acct = a,
                                             !.seen = r, !.new = r]
<1>3. row' \in [Accounts -> Rows]
  BY <1>2 DEF OthersOK, Rows, AccountStatuses
<1>4. PICK step \in {"connectLogin", "start"}, r \in Rows :
         call' = [call EXCEPT ![c] = Read(step, r)]
  <2>1. row[a] \in Rows /\ row'[a] \in Rows
    BY <1>3 DEF OthersOK
  <2>. QED  BY <1>2, <2>1
<1>5. /\ Read(step, r) \in CallRecords /\ Read(step, r).acct = a
      /\ Read(step, r).pc = step /\ Read(step, r).lock = None
      /\ Read(step, r).seen = r /\ Read(step, r).new = r
  BY OpsAssumption DEF NewCall, AbsentRow, CallRecords, Rows, AccountStatuses, Steps, Optional
<1>6. /\ \A d \in Calls \ {c} : call'[d] = call[d]
      /\ call'[c].pc \in {"connectLogin", "start"} /\ call'[c].lock = None
      /\ call'[c].seen.session => call'[c].new.session
      /\ CallsOK'
  <2>. DEFINE q == Read(step, r)
  <2>1. /\ q \in CallRecords /\ q.acct = a /\ q.pc = step /\ q.lock = None
        /\ q.seen = q.new /\ call' = [call EXCEPT ![c] = q]
    BY <1>4, <1>5
  <2>. HIDE DEF q
  <2>. QED  BY <2>1 DEF CallsOK
<1>7. OthersOK'
  BY <1>1, <1>3 DEF OthersOK
<1>8. PoolOK'
  BY <1>1, SamePool
<1>9. ClientInHand'
  BY <1>6 DEF ClientInHand
<1>10. LockInHand'
  BY <1>1, <1>6 DEF LockInHand, WantsLock, Holds, At, Forgotten
<1>11. OwnersAlive'
  BY <1>1, <1>6 DEF OwnersAlive, Holds, At
<1>12. NoSessionDropped'
  BY <1>6 DEF NoSessionDropped
<1>. QED  BY <1>6, <1>7, <1>8, <1>9, <1>10, <1>11, <1>12

\* An evicted client is disconnected.
LEMMA DisconnectLaterKeeps == ASSUME SessionInv, NEW k \in Calls, DisconnectLater(k)
                              PROVE  SessionInv'
<1>. USE Parts DEF DisconnectLater, loginVars, lockVars
<1>1. PoolOK'
  BY SamePool
<1>2. OthersOK' /\ CallsOK'
  BY DEF OthersOK, CallsOK
<1>3. ClientInHand' /\ LockInHand' /\ OwnersAlive' /\ NoSessionDropped'
  BY DEF ClientInHand, LockInHand, OwnersAlive, NoSessionDropped, WantsLock, Holds, At,
         Forgotten
<1>. QED  BY <1>1, <1>2, <1>3

\* An empty pool.
LEMMA EmptyPool ==
    ASSUME pool = [a \in Accounts |-> None], recent = <<>>, evicted = {}
    PROVE  PoolOK
<1>1. recent \in Seq(Accounts) /\ Len(recent) = 0 /\ DOMAIN recent = {}
  BY EmptySeq, LenProperties
<1>. QED  BY <1>1, LimitAssumption DEF PoolOK, PoolOrdered, Once, Range, Pooled, Optional

\* The process is restarted.
LEMMA RestartKeeps == ASSUME SessionInv, Restart
                      PROVE  SessionInv'
<1>. USE Parts
<1>1. PoolOK'
  <2>1. pool' = [a \in Accounts |-> None] /\ recent' = <<>> /\ evicted' = {}
    BY DEF Restart
  <2>2. recent' \in Seq(Accounts) /\ Len(recent') = 0 /\ DOMAIN recent' = {}
    BY <2>1, EmptySeq, LenProperties
  <2>. QED  BY <2>1, <2>2, LimitAssumption DEF PoolOK, PoolOrdered, Once, Range, Pooled, Optional
<1>2. OthersOK'
  BY DEF Restart, OthersOK, Optional
<1>3. \A c \in Calls : \/ At(c, "new") /\ call'[c] = call[c]
                       \/ ~At(c, "new") /\ call'[c] = Answered(call[c])
  BY DEF Restart
<1>4. ASSUME NEW c \in Calls
      PROVE  /\ call'[c] \in CallRecords
             /\ call'[c].pc \in {"new", "done"} /\ call'[c].lock = None
             /\ call'[c].pc # "new" => call'[c].acct \in Accounts
             /\ call'[c].seen.session => call'[c].new.session
  <2>1. CASE At(c, "new") /\ call'[c] = call[c]
    BY <2>1 DEF At, CallsOK, LockInHand, WantsLock, Holds, NoSessionDropped
  <2>2. CASE ~At(c, "new") /\ call'[c] = Answered(call[c])
    <3>1. call[c] \in CallRecords /\ call[c].acct \in Accounts
      BY <2>2 DEF CallsOK, At
    <3>. DEFINE r == Answered(call[c])
    <3>2. /\ r \in CallRecords /\ r.acct = call[c].acct
          /\ r.pc = "done" /\ ~r.seen.session /\ r.lock = None
      BY <3>1 DEF Answered, NewCall, AbsentRow, CallRecords, Rows, AccountStatuses,
                  Steps, AllOps, Optional
    <3>. HIDE DEF r
    <3>. QED  BY <2>2, <3>1, <3>2 DEF r
  <2>. QED  BY <1>3, <2>1, <2>2
<1>5. CallsOK'
  <2>1. call' = [c \in Calls |-> call'[c]]
    BY DEF Restart
  <2>2. call' \in [Calls -> CallRecords]
    BY <1>4, <2>1
  <2>. QED  BY <1>4, <2>2 DEF CallsOK
<1>6. ClientInHand' /\ LockInHand' /\ NoSessionDropped'
  BY <1>4 DEF ClientInHand, LockInHand, NoSessionDropped, WantsLock, Holds, At
<1>7. OwnersAlive'
  <2>1. \A k \in Calls : owner'[k] = None /\ busy'[k] = None
    BY DEF Restart
  <2>. QED  BY <1>4, <2>1, NoneNoCall DEF OwnersAlive, Holds, At
<1>. QED  BY <1>1, <1>2, <1>5, <1>6, <1>7

\* The process has just started.
LEMMA InitHolds == Init => SessionInv
<1>. SUFFICES ASSUME Init PROVE SessionInv
  OBVIOUS
<1>. USE DEF Init
<1>1. PoolOK
  BY EmptyPool
<1>2. StartRows \subseteq Rows
  BY DEF StartRows, AbsentRow, Rows, AccountStatuses
<1>3. OthersOK
  BY <1>2 DEF OthersOK, Optional
<1>4. NewCall \in CallRecords
  BY DEF NewCall, AbsentRow, CallRecords, Rows, AccountStatuses, Steps, AllOps, Optional
<1>5. \A c \in Calls : /\ call[c] = NewCall /\ call[c].pc = "new" /\ call[c].lock = None
                       /\ ~call[c].seen.session
  BY DEF NewCall, AbsentRow
<1>6. CallsOK
  BY <1>4, <1>5 DEF CallsOK
<1>7. ClientInHand /\ LockInHand /\ NoSessionDropped
  BY <1>5 DEF ClientInHand, LockInHand, NoSessionDropped, WantsLock, Holds, At
<1>8. OwnersAlive
  BY <1>5, NoneNoCall DEF OwnersAlive, Holds, At
<1>. QED  BY <1>1, <1>3, <1>6, <1>7, <1>8 DEF SessionInv, TypeOK, PoolOK, CallsOK, OthersOK

\* Every step of a request keeps the invariant.
LEMMA HandleKeeps == ASSUME SessionInv, NEW c \in Calls, Handle(c)
                     PROVE  SessionInv'
BY CommitRowKeeps, StartSubmitKeeps, ConnectLoginKeeps, SendCodeKeeps, RememberKeeps,
   EnterBusyKeeps, SignInKeeps, FinishLoginKeeps, GetLockKeeps, TakeLockKeeps,
   StartCheckKeeps, ConnectKeeps, UseForSearchKeeps, UseForExportKeeps,
   UseForCheckKeeps, DropKeeps, DeleteAccountKeeps, Zenon DEF Handle

\* A step that changes nothing.
LEMMA StutterKeeps == ASSUME SessionInv, UNCHANGED vars
                      PROVE  SessionInv'
<1>. USE Parts DEF vars, loginVars, lockVars, poolVars
<1>1. PoolOK'
  BY SamePool
<1>2. OthersOK' /\ CallsOK'
  BY DEF OthersOK, CallsOK
<1>3. ClientInHand' /\ LockInHand' /\ OwnersAlive' /\ NoSessionDropped'
  BY DEF ClientInHand, LockInHand, OwnersAlive, NoSessionDropped, WantsLock, Holds, At,
         Forgotten
<1>. QED  BY <1>1, <1>2, <1>3

\* The invariant holds of every behaviour.
THEOREM SessionInvariant == Spec => []SessionInv
<1>1. Init => SessionInv
  BY InitHolds
<1>2. SessionInv /\ [Next]_vars => SessionInv'
  BY HandleKeeps, ReceiveKeeps, DisconnectLaterKeeps, RestartKeeps, StutterKeeps, Zenon DEF Next
<1>. QED  BY <1>1, <1>2, PTL DEF Spec

-----------------------------------------------------------------------------
(* What the invariant says.                                                *)

\* The variables keep their types.
THEOREM TypeCorrect == Spec => []TypeOK
<1>1. SessionInv => TypeOK
  BY DEF SessionInv
<1>. QED  BY <1>1, SessionInvariant, PTL

\* However many requests log in, look up and evict, the pool never exceeds
\* MAX_CONCURRENT_SESSIONS, and last_used orders exactly its accounts.
THEOREM PoolStaysBounded == Spec => []PoolBounded
<1>1. SessionInv => PoolBounded
  BY Parts, PoolLength DEF PoolBounded, PoolOK, PoolOrdered
<1>. QED  BY <1>1, SessionInvariant, PTL

\* Two requests never work under one account's lock at once, unless a delete of
\* the account has forgotten the lock of the first.  A check of the account, which
\* takes no lock, may be using the same client.
THEOREM OneHolder == Spec => []Exclusive
<1>1. ASSUME SessionInv, NEW c \in Calls, NEW d \in Calls,
             c # d, Holds(c), Holds(d), call[c].acct = call[d].acct,
             ~Forgotten(call[c].acct)
      PROVE  FALSE
  <2>1. /\ call[c].lock = locks[call[c].acct] /\ call[d].lock = locks[call[d].acct]
        /\ call[c].lock \in Calls
    BY <1>1, Parts, NoneNoCall DEF LockInHand, WantsLock, CallsOK, CallRecords, Optional
  <2>2. owner[call[c].lock] = c /\ owner[call[d].lock] = d
    BY <1>1, <2>1, Parts DEF OwnersAlive
  <2>. QED  BY <1>1, <2>1, <2>2
<1>2. SessionInv => Exclusive
  BY <1>1 DEF Exclusive
<1>. QED  BY <1>2, SessionInvariant, PTL

\* No lock is left behind by a request that waits or has been answered, a
\* refused create_export apart.
THEOREM LocksAlwaysMove == Spec => []LocksMove
<1>1. SessionInv => LocksMove
  BY Parts DEF OwnersAlive, LocksMove, Waits, Holds, At
<1>. QED  BY <1>1, SessionInvariant, PTL

\* Stale commits never lose a saved session: only a delete of the account does.
THEOREM SavedSessionsKept == Spec => SessionKept
<1>. DEFINE Kept == \A a \in Accounts : row[a].session => \/ row'[a].session
                                                          \/ row'[a].status = "deleted"
<1>1. ASSUME SessionInv, [Next]_vars, UNCHANGED row PROVE Kept
  BY <1>1
<1>2. ASSUME SessionInv, NEW c \in Calls, CommitRow(c) PROVE Kept
  <2>1. /\ call[c].acct \in Accounts /\ row \in [Accounts -> Rows]
        /\ call[c].seen.session => call[c].new.session
        /\ call[c].seen.session \in BOOLEAN /\ call[c].new.session \in BOOLEAN
    BY <1>2, Parts DEF CommitRow, At, CallsOK, OthersOK, NoSessionDropped, CallRecords, Rows
  <2>2. row[call[c].acct].session => Written(c).session
    BY <2>1 DEF Written
  <2>. QED  BY <1>2, <2>1, <2>2 DEF CommitRow
<1>3. ASSUME SessionInv, NEW c \in Calls, Receive(c) PROVE Kept
  <2>1. row \in [Accounts -> Rows]
    BY <1>3, Parts DEF OthersOK
  <2>2. CASE \E a \in Accounts : row' = [row EXCEPT ![a].status = "new"]
    BY <2>1, <2>2 DEF Rows
  <2>3. CASE UNCHANGED row
    BY <2>3
  <2>. QED  BY <1>3, <2>2, <2>3 DEF Receive
<1>4. ASSUME SessionInv, NEW c \in Calls, DeleteAccount(c) PROVE Kept
  <2>1. row \in [Accounts -> Rows]
    BY <1>4, Parts DEF OthersOK
  <2>. QED  BY <1>4, <2>1 DEF DeleteAccount
<1>5. ASSUME NEW c \in Calls, Handle(c), ~CommitRow(c), ~DeleteAccount(c)
      PROVE  UNCHANGED row
  BY <1>5 DEF Handle, StartSubmit, ConnectLogin, SendCode, Remember, EnterBusy, SignIn,
       FinishLogin, GetLock, TakeLock, StartCheck, Connect, UseForSearch, UseForExport,
       UseForCheck, Drop
<1>6. SessionInv /\ [Next]_vars => [Kept]_vars
  <2>1. SUFFICES ASSUME SessionInv, [Next]_vars PROVE Kept
    OBVIOUS
  <2>2. CASE \E c \in Calls : Handle(c)
    BY <1>1, <1>2, <1>4, <1>5, <2>1, <2>2
  <2>3. CASE \E c \in Calls : Receive(c)
    BY <1>3, <2>1, <2>3
  <2>4. CASE (\E k \in Calls : DisconnectLater(k)) \/ Restart \/ UNCHANGED vars
    BY <1>1, <2>1, <2>4 DEF DisconnectLater, Restart, vars
  <2>. QED  BY <2>1, <2>2, <2>3, <2>4 DEF Next
<1>. QED  BY <1>6, SessionInvariant, PTL DEF Spec, SessionKept
=============================================================================
