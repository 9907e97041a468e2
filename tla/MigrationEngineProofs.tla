------------------------ MODULE MigrationEngineProofs -----------------------
(***************************************************************************)
(* What holds of MigrationEngine for histories, pages, batches and limits  *)
(* of any size and any number of runs and faults.                          *)
(***************************************************************************)
EXTENDS MigrationEngine, FiniteSetTheorems, SequenceTheorems, TLAPS

Ascending(s)  == \A i, j \in DOMAIN s : i < j => s[i] < s[j]
Descending(s) == \A i, j \in DOMAIN s : i < j => s[i] > s[j]
IsPrefixOf(s, t) == Len(s) <= Len(t) /\ \A i \in DOMAIN s : s[i] = t[i]

\* The steps between reading the state and the first batch, and those of the
\* batches.
Preparing == {"open", "index", "writeCache", "resume", "saveResume"}
InBatch   == {"fetch", "stage", "import", "advance", "giveUp"}
Working   == {"resume", "saveResume", "next"} \cup InBatch

\* What a run knows at each of its steps.
RunState ==
    /\ pc \in {"idle", "open", "index", "writeCache", "resume"} => start = 0
    /\ pc \in {"idle", "open", "index"} => ids = <<>>
    /\ pc \in {"idle", "open"} => found = <<>>
    /\ pc = "idle" => mode = "full"
    /\ pc \in {"index", "writeCache"} => mode # "ids" /\ cache = <<>>
    /\ pc \in Preparing => processed = saved
    /\ pc = "saveResume" =>
          start = IF mode = "ids" \/ processed > Len(ids) THEN 0 ELSE processed
    /\ pc \in InBatch /\ mode # "dry" => processed = start
    /\ pc = "next" => processed = start + Len(BatchIds) /\ saved = processed
    /\ mode = "dry" => pc \in Preparing \cup {"fetch", "stage"}
    /\ mode = "ids" => used["ids"] > 0

\* The index is in the order of the history, and a run works on the first part
\* of the cached one.
IndexOrdered ==
    /\ Ascending(cache) /\ Ascending(ids)
    /\ pc = "index" => Descending(found)
    /\ Never({"uncached"}) /\ mode # "ids" /\ pc \in Working =>
          /\ IsPrefixOf(ids, cache)
          /\ mode \notin {"limit", "test"} => ids = cache

\* Discovery leaves no message out.
IndexComplete ==
    /\ pc = "index" => \A m \in source : \/ m \in Ids(found)
                                         \/ found = <<>> \/ m < Last(found)
    /\ pc = "writeCache" => source \subseteq Ids(ids)
    /\ Never({"crash", "uncached"}) =>
          /\ cache # <<>> => source \subseteq Ids(cache)
          /\ pc \in Working /\ mode # "ids" => source \subseteq Ids(cache)

\* Every message of the index up to place n is in the target, or gone.
Passed(n) == \A i \in 1..n : /\ i <= Len(cache)
                             /\ cache[i] \in Ids(target) \/ cache[i] \notin source

\* The batch in hand.
BatchInHand ==
    /\ pc \in {"stage", "import"} =>
          /\ Ids(batch) \subseteq Ids(BatchIds) /\ Ids(BatchIds) \cap source \subseteq Ids(batch)
          /\ Ascending(batch)
    /\ pc = "advance" => Ids(BatchIds) \cap source \subseteq Ids(target)

\* A message of the index that exists comes into the target before any later
\* one, and so does each message of the batch in hand.
Before(m, i) == \E k \in 1..(i - 1) : target[k] = m
InTurn ==
    /\ Ids(target) \subseteq Ids(cache)
    /\ \A i, j \in DOMAIN target : i < j /\ target[j] < target[i] => Before(target[j], i)
    /\ \A i \in DOMAIN target, m \in source \cap Ids(cache) : m < target[i] => Before(m, i)
    /\ pc \in {"stage", "import"} =>
          \A i \in DOMAIN target, m \in Ids(batch) : m < target[i] => Before(m, i)

NothingSkipped == Passed(saved) /\ (pc # "idle" => Passed(processed)) /\ InTurn

MigrationInv ==
    /\ TypeOK /\ RunState /\ IndexOrdered /\ IndexComplete /\ BatchInHand
    /\ Never({"ids", "uncached"}) => NothingSkipped

-----------------------------------------------------------------------------
(* The sequences the model is built from.                                  *)

\* The first elements of a sequence.
LEMMA PrefixOf ==
    ASSUME NEW S, NEW s \in Seq(S), NEW n \in Nat
    PROVE  /\ Prefix(s, n) \in Seq(S) /\ IsPrefixOf(Prefix(s, n), s)
           /\ Len(Prefix(s, n)) = IF n < Len(s) THEN n ELSE Len(s)
           /\ Ascending(s) => Ascending(Prefix(s, n))
<1>. DEFINE k == IF n < Len(s) THEN n ELSE Len(s)
<1>1. Len(s) \in Nat /\ k \in 0..Len(s) /\ DOMAIN s = 1..Len(s)
  BY LenProperties
<1>. HIDE DEF k
<1>2. /\ SubSeq(s, 1, k) \in Seq(S) /\ Len(SubSeq(s, 1, k)) = k
      /\ \A i \in 1..k : SubSeq(s, 1, k)[i] = s[i]
  BY <1>1, SubSeqProperties
<1>3. DOMAIN SubSeq(s, 1, k) = 1..k
  BY <1>2, LenProperties
<1>4. Prefix(s, n) = SubSeq(s, 1, k)
  BY DEF Prefix, k
<1>5. Ascending(s) => Ascending(SubSeq(s, 1, k))
  BY <1>1, <1>2, <1>3 DEF Ascending
<1>6. IsPrefixOf(SubSeq(s, 1, k), s)
  BY <1>1, <1>2, <1>3 DEF IsPrefixOf
<1>. QED  BY <1>2, <1>4, <1>5, <1>6 DEF k

\* The elements of two sequences in a row.
LEMMA ConcatIds ==
    ASSUME NEW S, NEW s \in Seq(S), NEW t \in Seq(S)
    PROVE  /\ s \o t \in Seq(S) /\ Len(s \o t) = Len(s) + Len(t)
           /\ \A i \in 1..Len(s) : (s \o t)[i] = s[i]
           /\ \A i \in 1..Len(t) : (s \o t)[Len(s) + i] = t[i]
           /\ \A i \in DOMAIN (s \o t) : \/ i \in 1..Len(s)
                                         \/ i - Len(s) \in 1..Len(t) /\ i > Len(s)
           /\ Ids(s \o t) = Ids(s) \cup Ids(t)
<1>1. /\ Len(s) \in Nat /\ Len(t) \in Nat
      /\ DOMAIN s = 1..Len(s) /\ DOMAIN t = 1..Len(t)
  BY LenProperties
<1>2. /\ s \o t \in Seq(S) /\ Len(s \o t) = Len(s) + Len(t)
      /\ \A i \in 1..(Len(s) + Len(t)) :
            (s \o t)[i] = IF i <= Len(s) THEN s[i] ELSE t[i - Len(s)]
  BY ConcatProperties
<1>3. DOMAIN (s \o t) = 1..(Len(s) + Len(t))
  BY <1>2, LenProperties
<1>4. \A i \in 1..Len(s) : (s \o t)[i] = s[i]
  BY <1>1, <1>2
<1>5. \A i \in 1..Len(t) : (s \o t)[Len(s) + i] = t[i]
  <2>. TAKE i \in 1..Len(t)
  <2>1. /\ Len(s) + i \in 1..(Len(s) + Len(t)) /\ ~(Len(s) + i <= Len(s))
        /\ (Len(s) + i) - Len(s) = i
    BY <1>1
  <2>. QED  BY <1>2, <2>1
<1>6. \A i \in DOMAIN (s \o t) : \/ i \in 1..Len(s)
                                 \/ i - Len(s) \in 1..Len(t) /\ i > Len(s)
  BY <1>1, <1>3
<1>7. Ids(s \o t) \subseteq Ids(s) \cup Ids(t)
  <2>1. ASSUME NEW i \in DOMAIN (s \o t) PROVE (s \o t)[i] \in Ids(s) \cup Ids(t)
    BY <1>1, <1>2, <1>3, <1>6 DEF Ids
  <2>. QED  BY <2>1 DEF Ids
<1>8. Ids(s) \subseteq Ids(s \o t)
  BY <1>1, <1>3, <1>4 DEF Ids
<1>9. Ids(t) \subseteq Ids(s \o t)
  <2>1. ASSUME NEW i \in 1..Len(t) PROVE t[i] \in Ids(s \o t)
    <3>1. Len(s) + i \in DOMAIN (s \o t)
      BY <1>1, <1>3
    <3>. QED  BY <1>5, <3>1 DEF Ids
  <2>. QED  BY <1>1, <2>1 DEF Ids
<1>. QED  BY <1>2, <1>4, <1>5, <1>6, <1>7, <1>8, <1>9

\* The index is the discovery turned round.
LEMMA IndexIsReversed ==
    ASSUME NEW s \in Seq(MessageIds)
    PROVE  /\ Index(s) \in Seq(MessageIds) /\ Ids(Index(s)) = Ids(s)
           /\ Descending(s) => Ascending(Index(s))
<1>1. Len(s) \in Nat /\ DOMAIN s = 1..Len(s)
  BY LenProperties
<1>2. /\ DOMAIN Index(s) = 1..Len(s)
      /\ \A i \in 1..Len(s) : (Len(s) - i) + 1 \in 1..Len(s)
                              /\ Index(s)[i] = s[(Len(s) - i) + 1]
  BY <1>1 DEF Index, Reverse
<1>3. Index(s) \in Seq(MessageIds)
  BY <1>1 DEF Index, Reverse
<1>4. Ids(Index(s)) \subseteq Ids(s)
  BY <1>1, <1>2 DEF Ids
<1>5. Ids(s) \subseteq Ids(Index(s))
  <2>1. ASSUME NEW i \in 1..Len(s) PROVE s[i] \in Ids(Index(s))
    <3>. DEFINE j == (Len(s) - i) + 1
    <3>1. j \in 1..Len(s) /\ (Len(s) - j) + 1 = i
      BY <1>1
    <3>2. Index(s)[j] = s[i]
      BY <1>2, <3>1
    <3>. QED  BY <1>2, <3>1, <3>2 DEF Ids
  <2>. QED  BY <1>1, <2>1 DEF Ids
<1>6. ASSUME Descending(s), NEW i \in 1..Len(s), NEW j \in 1..Len(s), i < j
      PROVE  Index(s)[i] < Index(s)[j]
  <2>1. /\ (Len(s) - i) + 1 \in DOMAIN s /\ (Len(s) - j) + 1 \in DOMAIN s
        /\ (Len(s) - j) + 1 < (Len(s) - i) + 1
    BY <1>1, <1>6
  <2>2. s[(Len(s) - j) + 1] > s[(Len(s) - i) + 1]
    BY <1>6, <2>1 DEF Descending
  <2>3. s[(Len(s) - j) + 1] \in MessageIds /\ s[(Len(s) - i) + 1] \in MessageIds
    BY <2>1, ElementOfSeq
  <2>4. Index(s)[i] = s[(Len(s) - i) + 1] /\ Index(s)[j] = s[(Len(s) - j) + 1]
    BY <1>2
  <2>. QED  BY <2>2, <2>3, <2>4, SizeAssumption DEF MessageIds
<1>. QED  BY <1>2, <1>3, <1>4, <1>5, <1>6 DEF Ascending

\* The batch in hand is the next slice of the index.
LEMMA BatchSlice ==
    ASSUME ids \in Seq(MessageIds), start \in 0..Len(ids)
    PROVE  /\ BatchIds \in Seq(MessageIds) /\ DOMAIN BatchIds = 1..Len(BatchIds)
           /\ Len(BatchIds) \in Nat /\ start + Len(BatchIds) <= Len(ids)
           /\ \A i \in 1..Len(BatchIds) : BatchIds[i] = ids[start + i]
           /\ Ascending(ids) => Ascending(BatchIds)
<1>. DEFINE last == IF start + BatchSize < Len(ids) THEN start + BatchSize ELSE Len(ids)
<1>1. /\ Len(ids) \in Nat /\ start \in Nat /\ last \in start..Len(ids)
      /\ DOMAIN ids = 1..Len(ids)
  BY SizeAssumption, LenProperties
<1>. HIDE DEF last
<1>2. /\ SubSeq(ids, start + 1, last) \in Seq(MessageIds)
      /\ Len(SubSeq(ids, start + 1, last)) = last - start
      /\ \A i \in 1..(last - start) : SubSeq(ids, start + 1, last)[i] = ids[(start + 1) + i - 1]
  <2>1. \A i \in (start + 1)..last : ids[i] \in MessageIds
    BY <1>1, ElementOfSeq
  <2>. QED  BY <1>1, <2>1, SubSeqProperties
<1>3. \A i \in 1..(last - start) : SubSeq(ids, start + 1, last)[i] = ids[start + i]
  <2>. TAKE i \in 1..(last - start)
  <2>1. (start + 1) + i - 1 = start + i
    BY <1>1
  <2>. QED  BY <1>2, <2>1
<1>4. BatchIds = SubSeq(ids, start + 1, last)
  BY DEF BatchIds, last
<1>5. DOMAIN BatchIds = 1..Len(BatchIds)
  BY <1>2, <1>4, LenProperties
<1>6. Ascending(ids) => Ascending(BatchIds)
  <2>1. SUFFICES ASSUME Ascending(ids), NEW i \in DOMAIN BatchIds, NEW j \in DOMAIN BatchIds, i < j
                 PROVE  BatchIds[i] < BatchIds[j]
    BY DEF Ascending
  <2>2. start + i \in DOMAIN ids /\ start + j \in DOMAIN ids /\ start + i < start + j
    BY <1>1, <1>2, <1>4, <1>5, <2>1
  <2>. QED  BY <1>2, <1>3, <1>4, <1>5, <2>1, <2>2 DEF Ascending
<1>. QED  BY <1>1, <1>2, <1>3, <1>4, <1>5, <1>6

\* What Telegram returns for the ids of a batch.
LEMMA FetchedBatch ==
    ASSUME ids \in Seq(MessageIds), start \in 0..Len(ids), NEW b \in Batches
    PROVE  /\ b \in Seq(MessageIds) /\ Ids(b) = Ids(BatchIds) \cap source
           /\ Ascending(ids) => Ascending(b)
<1>1. PICK n \in 0..Len(BatchIds) : b \in [1..n -> Ids(BatchIds) \cap source]
  BY DEF Batches
<1>2. /\ BatchIds \in Seq(MessageIds) /\ DOMAIN BatchIds = 1..Len(BatchIds)
      /\ Len(BatchIds) \in Nat /\ (Ascending(ids) => Ascending(BatchIds))
  BY BatchSlice
<1>3. Ids(BatchIds) \subseteq MessageIds
  BY <1>2, ElementOfSeq DEF Ids
<1>4. b \in Seq(MessageIds)
  BY <1>1, <1>2, <1>3
<1>5. Ids(b) = Ids(BatchIds) \cap source /\ InOrder(b, BatchIds)
  BY DEF Batches
<1>6. Ascending(BatchIds) => Ascending(b)
  BY <1>5 DEF InOrder, Ascending
<1>. QED  BY <1>2, <1>4, <1>5, <1>6

\* A page of the discovery goes on downwards, and leaves nothing out.
LEMMA DiscoveredPage ==
    ASSUME found \in Seq(MessageIds), source \subseteq MessageIds, Descending(found),
           NEW p \in NextPages
    PROVE  /\ found \o p \in Seq(MessageIds) /\ Descending(found \o p)
           /\ \A m \in Unseen : \/ m \in Ids(found \o p)
                                \/ Len(p) = PageSize /\ m < Last(found \o p)
<1>1. PICK n \in 0..PageSize : p \in [1..n -> Unseen]
  BY DEF NextPages
<1>2. /\ \A i, j \in DOMAIN p : i < j => p[i] > p[j]
      /\ \A m \in Unseen \ Ids(p) : Len(p) = PageSize /\ m < Last(p)
  BY DEF NextPages, IsPage
<1>3. n \in Nat /\ p \in Seq(MessageIds) /\ Len(p) = n /\ Unseen \subseteq MessageIds
  BY <1>1, SizeAssumption DEF Unseen
<1>4. /\ found \o p \in Seq(MessageIds) /\ Len(found \o p) = Len(found) + Len(p)
      /\ \A i \in 1..Len(found) : (found \o p)[i] = found[i]
      /\ \A i \in 1..Len(p) : (found \o p)[Len(found) + i] = p[i]
      /\ \A i \in DOMAIN (found \o p) : \/ i \in 1..Len(found)
                                        \/ i - Len(found) \in 1..Len(p) /\ i > Len(found)
      /\ Ids(found \o p) = Ids(found) \cup Ids(p)
  <2>1. found \in Seq(MessageIds) /\ p \in Seq(MessageIds)
    BY <1>3
  <2>. QED  BY ONLY <2>1, ConcatIds
<1>5. Len(found) \in Nat /\ DOMAIN found = 1..Len(found) /\ DOMAIN p = 1..n
  BY <1>1, LenProperties
<1>6. \A i \in DOMAIN found : found[i] \in Nat /\ found[i] >= Last(found)
  <2>1. \A i \in DOMAIN found : found[i] \in Nat
    BY SizeAssumption, ElementOfSeq, <1>5 DEF MessageIds
  <2>2. \A i \in DOMAIN found : i < Len(found) => found[i] > found[Len(found)]
    BY <1>5 DEF Descending
  <2>. QED  BY <1>5, <2>1, <2>2 DEF Last
<1>7. \A i \in 1..n : p[i] \in Nat /\ (found # <<>> => p[i] < Last(found))
  BY <1>1, <1>3, SizeAssumption DEF Unseen, MessageIds
<1>8. Descending(found \o p)
  <2>1. SUFFICES ASSUME NEW i \in DOMAIN (found \o p), NEW j \in DOMAIN (found \o p), i < j
                 PROVE  (found \o p)[i] > (found \o p)[j]
    BY DEF Descending
  <2>2. CASE i \in 1..Len(found) /\ j \in 1..Len(found)
    BY <1>4, <1>5, <2>1, <2>2 DEF Descending
  <2>3. CASE i \in 1..Len(found) /\ j - Len(found) \in 1..Len(p) /\ j > Len(found)
    <3>1. /\ (found \o p)[i] = found[i]
          /\ (found \o p)[j] = p[j - Len(found)]
      <4>1. Len(found) + (j - Len(found)) = j
        BY <1>4, <1>5, <2>1, LenProperties
      <4>. QED  BY <1>4, <2>3, <4>1
    <3>2. found # <<>>
      BY <1>5, <2>3, EmptySeq
    <3>3. Last(found) \in Nat
      BY <1>5, <1>6, <3>2, EmptySeq DEF Last
    <3>. QED  BY <1>3, <1>5, <1>6, <1>7, <2>3, <3>1, <3>2, <3>3
  <2>4. CASE /\ i - Len(found) \in 1..Len(p) /\ i > Len(found)
             /\ j - Len(found) \in 1..Len(p) /\ j > Len(found)
    <3>1. /\ (found \o p)[i] = p[i - Len(found)]
          /\ (found \o p)[j] = p[j - Len(found)]
      <4>1. Len(found) + (j - Len(found)) = j /\ Len(found) + (i - Len(found)) = i
        BY <1>4, <1>5, <2>1, LenProperties
      <4>. QED  BY <1>4, <2>4, <4>1
    <3>2. i - Len(found) < j - Len(found)
      BY <1>4, <1>5, <2>1, LenProperties
    <3>. QED  BY <1>2, <1>3, <1>5, <2>4, <3>1, <3>2
  <2>5. ~(i > Len(found) /\ j \in 1..Len(found))
    BY <1>4, <1>5, <2>1, LenProperties
  <2>. QED  BY <1>4, <2>2, <2>3, <2>4, <2>5
<1>9. ASSUME NEW m \in Unseen, m \notin Ids(found \o p)
      PROVE  Len(p) = PageSize /\ m < Last(found \o p)
  <2>1. m \notin Ids(p)
    BY <1>4, <1>9
  <2>2. Len(p) = PageSize /\ m < p[n]
    BY <1>2, <1>3, <1>9, <2>1 DEF Last
  <2>3. Last(found \o p) = p[n]
    BY <1>3, <1>4, <2>2, SizeAssumption DEF Last
  <2>. QED  BY <2>2, <2>3
<1>. QED  BY <1>4, <1>8, <1>9

-----------------------------------------------------------------------------
(* The counters of runs and faults, and the frames of the steps.           *)

\* Counters only grow.
Counted == /\ used' \in [Modes \cup Faults -> Nat]
           /\ \A k \in Modes \cup Faults : used'[k] >= used[k]

LEMMA CountGrows ==
    ASSUME TypeOK, NEW kind \in Modes \cup Faults, Count(kind)
    PROVE  Counted /\ used'[kind] > 0
BY DEF TypeOK, Count, Counted

LEMMA FaultGrows ==
    ASSUME TypeOK, NEW kind, Fault(kind)
    PROVE  Counted /\ kind \in Faults /\ used'[kind] > 0
BY CountGrows, BoundAssumption DEF Fault

LEMMA SameCounts == ASSUME TypeOK, UNCHANGED used PROVE Counted
BY DEF TypeOK, Counted

\* What never happened up to a step had never happened before it.
LEMMA NeverBefore ==
    ASSUME TypeOK, Counted
    PROVE  /\ Never({"uncached"})' => Never({"uncached"})
           /\ Never({"ids", "uncached"})' => Never({"ids", "uncached"})
           /\ Never({"crash", "uncached"})' => Never({"crash", "uncached"})
           /\ Never({"ids", "uncached"}) => Never({"uncached"})
           /\ Never({"crash", "uncached"}) => Never({"uncached"})
<1>1. {"ids", "uncached", "crash"} \subseteq Modes \cup Faults
  BY DEF Modes, Faults
<1>2. ASSUME NEW k \in {"ids", "uncached", "crash"}
      PROVE  used[k] \in Nat /\ used'[k] \in Nat /\ used'[k] >= used[k]
  BY <1>1, <1>2 DEF TypeOK, Counted
<1>. QED  BY <1>2 DEF Never

\* Without an --ids run no run has a window.
LEMMA NoWindow ==
    ASSUME TypeOK, RunState, Never({"ids", "uncached"})
    PROVE  mode # "ids"
BY DEF RunState, Never

\* What has been passed stays passed while the index stays, the target grows
\* and the source shrinks.
LEMMA PassedStays ==
    ASSUME NEW n, Passed(n), cache' = cache, Ids(target) \subseteq Ids(target)',
           source' \subseteq source
    PROVE  \A i \in 1..n : /\ i <= Len(cache')
                           /\ cache'[i] \in Ids(target)' \/ cache'[i] \notin source'
BY DEF Passed

\* The order of the target is untouched while it, the index and the batch are.
LEMMA InTurnStays ==
    ASSUME InTurn, UNCHANGED <<target, cache>>, source' \subseteq source,
           pc' \in {"stage", "import"} => pc \in {"stage", "import"} /\ UNCHANGED batch
    PROVE  InTurn'
BY DEF InTurn, Before, Ids

\* Where there is no index nothing was imported.
LEMMA EmptyIndex ==
    ASSUME cache = <<>>, saved \in Nat, target \in Seq(MessageIds), Passed(saved), InTurn
    PROVE  saved = 0 /\ target = <<>>
<1>1. Len(cache) = 0 /\ DOMAIN cache = {}
  BY EmptySeq, LenProperties
<1>2. saved \in 1..saved => saved <= 0
  BY <1>1 DEF Passed
<1>3. Ids(target) = {}
  BY <1>1 DEF InTurn, Ids
<1>4. ASSUME target # <<>> PROVE FALSE
  <2>1. Len(target) \in Nat /\ Len(target) # 0 /\ DOMAIN target = 1..Len(target)
    BY <1>4, EmptySeq, LenProperties
  <2>2. 1 \in DOMAIN target
    BY <2>1
  <2>3. target[1] \in Ids(target)
    BY <2>2 DEF Ids
  <2>. QED  BY <1>3, <2>3
<1>. QED  BY <1>2, <1>4

\* run() is over: the files and the target are what is left.
LEMMA StopKeeps ==
    ASSUME MigrationInv, Stop, Counted, UNCHANGED <<source, target>>,
           cache' \in Seq(MessageIds), Ascending(cache'), saved' \in Nat,
           Never({"crash", "uncached"})' => cache' = cache,
           Never({"ids", "uncached"})' => Passed(saved)' /\ InTurn'
    PROVE  MigrationInv'
<1>. USE DEF MigrationInv
<1>1. <<>> \in Seq(MessageIds) /\ Len(<<>>) = 0 /\ DOMAIN <<>> = {}
  BY EmptySeq, LenProperties
<1>2. TypeOK'
  BY <1>1 DEF TypeOK, Stop, Counted, Steps, Modes
<1>3. RunState'
  BY DEF RunState, Stop, Preparing, InBatch
<1>4. IndexOrdered'
  BY <1>1 DEF IndexOrdered, Stop, Ascending, Working, InBatch
<1>5. IndexComplete'
  BY NeverBefore DEF IndexComplete, Stop, Working, InBatch
<1>6. BatchInHand'
  BY DEF BatchInHand, Stop
<1>7. Never({"ids", "uncached"})' => NothingSkipped'
  BY DEF NothingSkipped, Stop
<1>. QED  BY <1>2, <1>3, <1>4, <1>5, <1>6, <1>7

\* A run that stops with both files as they are.
LEMMA PlainStopKeeps ==
    ASSUME MigrationInv, Stop, Counted, UNCHANGED <<source, target, files>>
    PROVE  MigrationInv'
<1>. USE DEF MigrationInv, files
<1>1. cache' \in Seq(MessageIds) /\ Ascending(cache') /\ saved' \in Nat
  BY DEF TypeOK, IndexOrdered
<1>2. ASSUME Never({"ids", "uncached"})' PROVE Passed(saved)' /\ InTurn'
  <2>1. Passed(saved) /\ InTurn
    BY <1>2, NeverBefore DEF NothingSkipped
  <2>2. Passed(saved)'
    BY <2>1 DEF Passed
  <2>3. InTurn'
    BY <2>1, InTurnStays DEF Stop
  <2>. QED  BY <2>2, <2>3
<1>. QED  BY <1>1, <1>2, StopKeeps

-----------------------------------------------------------------------------
(* The invariant, step by step.                                            *)

\* A run starts.
LEMMA StartRunKeeps == ASSUME MigrationInv, NEW m \in Modes, StartRun(m)
                       PROVE  MigrationInv'
<1>. USE DEF MigrationInv, StartRun, files
<1>1. Counted /\ used'[m] > 0
  BY CountGrows
<1>2. TypeOK'
  BY <1>1 DEF TypeOK, Counted, Steps
<1>3. RunState'
  BY <1>1 DEF RunState, Preparing, InBatch
<1>4. IndexOrdered'
  BY DEF IndexOrdered, Working, InBatch, Ascending
<1>5. IndexComplete'
  BY <1>1, NeverBefore DEF IndexComplete, Working, InBatch
<1>6. BatchInHand'
  BY DEF BatchInHand
<1>7. ASSUME Never({"ids", "uncached"})' PROVE NothingSkipped'
  <2>1. Passed(saved) /\ InTurn
    BY <1>1, <1>7, NeverBefore DEF NothingSkipped
  <2>2. Passed(saved)' /\ Passed(processed)'
    BY <2>1 DEF Passed
  <2>3. InTurn'
    BY <2>1, InTurnStays
  <2>. QED  BY <2>2, <2>3 DEF NothingSkipped
<1>. QED  BY <1>2, <1>3, <1>4, <1>5, <1>6, <1>7

\* The index to work on is found, or to be discovered.
LEMMA OpenIndexKeeps == ASSUME MigrationInv, OpenIndex
                        PROVE  MigrationInv'
<1>. USE DEF MigrationInv
<1>0. /\ pc = "open" /\ saved' = processed /\ saved = processed
      /\ UNCHANGED <<source, target, cache, mode, found, start, processed, batch, used>>
      /\ \/ mode = "ids" /\ ids' = Window /\ pc' = "resume"
         \/ mode # "ids" /\ cache # <<>> /\ ids' = cache /\ pc' = "resume"
         \/ mode # "ids" /\ cache = <<>> /\ pc' = "index" /\ UNCHANGED ids
  BY DEF OpenIndex, RunState, Preparing
<1>1. start = 0 /\ found = <<>> /\ ids = <<>>
  BY <1>0 DEF RunState
<1>2. Counted
  BY <1>0, SameCounts
<1>3. TypeOK'
  <2>1. ids' \in Seq(MessageIds)
    BY <1>0, WindowAssumption DEF TypeOK
  <2>2. start' \in 0..Len(ids')
    BY <1>0, <1>1, <2>1, LenProperties
  <2>. QED  BY <1>0, <2>1, <2>2 DEF TypeOK, Steps
<1>4. RunState'
  BY <1>0, <1>1 DEF RunState, Preparing, InBatch
<1>5. IndexOrdered'
  <2>1. Ascending(ids)'
    BY <1>0, WindowAssumption DEF Ascending, IndexOrdered
  <2>2. IsPrefixOf(cache, cache)
    BY LenProperties DEF IsPrefixOf, TypeOK
  <2>3. Descending(<<>>)
    BY EmptySeq, LenProperties DEF Descending
  <2>. QED  BY <1>0, <1>1, <2>1, <2>2, <2>3 DEF IndexOrdered, Ascending, Descending, IsPrefixOf
<1>6. IndexComplete'
  BY <1>0, <1>1, <1>2, NeverBefore DEF IndexComplete, Working, InBatch, Ids
<1>7. BatchInHand'
  BY <1>0 DEF BatchInHand
<1>8. ASSUME Never({"ids", "uncached"})' PROVE NothingSkipped'
  <2>1. Passed(saved) /\ InTurn
    BY <1>2, <1>8, NeverBefore DEF NothingSkipped
  <2>2. Passed(saved)' /\ Passed(processed)'
    BY <1>0, <2>1 DEF Passed
  <2>3. InTurn'
    BY <1>0, <2>1, InTurnStays
  <2>. QED  BY <2>2, <2>3 DEF NothingSkipped
<1>. QED  BY <1>3, <1>4, <1>5, <1>6, <1>7, <1>8

\* A page of the index is discovered.
LEMMA DiscoverKeeps == ASSUME MigrationInv, Discover
                       PROVE  MigrationInv'
<1>. USE DEF MigrationInv
<1>0. PICK p \in NextPages :
         /\ pc = "index" /\ found' = found \o p
         /\ UNCHANGED <<source, target, files, mode, start, processed, batch, used>>
         /\ \/ Len(p) = PageSize /\ UNCHANGED <<pc, ids>>
            \/ Len(p) < PageSize /\ ids' = Index(found') /\ pc' = "writeCache"
  BY DEF Discover
<1>1. start = 0 /\ ids = <<>> /\ mode # "ids" /\ cache = <<>> /\ processed = saved
  BY <1>0 DEF RunState, Preparing
<1>2. Counted
  BY <1>0, SameCounts
<1>3. /\ found' \in Seq(MessageIds) /\ Descending(found')
      /\ \A m \in Unseen : \/ m \in Ids(found')
                           \/ Len(p) = PageSize /\ m < Last(found')
  BY <1>0, DiscoveredPage DEF TypeOK, IndexOrdered
<1>4. /\ Index(found') \in Seq(MessageIds) /\ Ids(Index(found')) = Ids(found')
      /\ Ascending(Index(found'))
  BY <1>3, IndexIsReversed
<1>5. TypeOK'
  <2>1. ids' \in Seq(MessageIds)
    BY <1>0, <1>4 DEF TypeOK
  <2>2. start' \in 0..Len(ids')
    BY <1>0, <1>1, <2>1, LenProperties
  <2>. QED  BY <1>0, <1>3, <2>1, <2>2 DEF TypeOK, Steps, files
<1>6. RunState'
  BY <1>0, <1>1 DEF RunState, Preparing, InBatch, files
<1>7. IndexOrdered'
  <2>1. Ascending(ids)' /\ Descending(found)'
    BY <1>0, <1>3, <1>4 DEF IndexOrdered, Ascending, Descending
  <2>2. Ascending(cache)'
    BY <1>0 DEF IndexOrdered, Ascending, files
  <2>. QED  BY <1>0, <2>1, <2>2 DEF IndexOrdered, Working, InBatch
<1>8. IndexComplete'
  <2>1. \A m \in source : m \in Ids(found) \/ m \in Unseen
    BY <1>0 DEF IndexComplete, Unseen
  <2>2. Ids(found') = Ids(found) \cup Ids(p)
    <3>1. p \in Seq(MessageIds)
      <4>1. PICK n \in 0..PageSize : p \in [1..n -> Unseen]
        BY DEF NextPages
      <4>. QED  BY <4>1, SizeAssumption DEF Unseen, TypeOK
    <3>. QED  BY <1>0, <3>1, ConcatIds DEF TypeOK
  <2>3. \A m \in source : m \in Ids(found') \/ (Len(p) = PageSize /\ m < Last(found'))
    BY <1>3, <2>1, <2>2
  <2>4. pc' = "writeCache" => Len(p) < PageSize /\ Ids(ids') = Ids(found')
    BY <1>0, <1>4
  <2>5. pc' = "writeCache" => source' \subseteq Ids(ids)'
    <3>1. Len(p) < PageSize => ~(Len(p) = PageSize)
      BY SizeAssumption
    <3>. QED  BY <1>0, <2>3, <2>4, <3>1 DEF Ids
  <2>6. \A m \in source' : m \in Ids(found)' \/ found' = <<>> \/ m < Last(found)'
    BY <1>0, <2>3 DEF Ids, Last
  <2>7. pc' \notin Working /\ cache' = <<>>
    BY <1>0, <1>1 DEF Working, InBatch, files
  <2>. QED  BY <2>5, <2>6, <2>7 DEF IndexComplete
<1>9. BatchInHand'
  BY <1>0 DEF BatchInHand
<1>10. ASSUME Never({"ids", "uncached"})' PROVE NothingSkipped'
  <2>1. Passed(saved) /\ InTurn
    BY <1>2, <1>10, NeverBefore DEF NothingSkipped
  <2>2. Passed(saved)' /\ Passed(processed)'
    BY <1>0, <1>1, <2>1 DEF Passed, files
  <2>3. InTurn'
    BY <1>0, <2>1, InTurnStays DEF files
  <2>. QED  BY <2>2, <2>3 DEF NothingSkipped
<1>. QED  BY <1>5, <1>6, <1>7, <1>8, <1>9, <1>10

\* The index is cached, unless the file cannot be written.
LEMMA WriteCacheKeeps == ASSUME MigrationInv, WriteCache
                         PROVE  MigrationInv'
<1>. USE DEF MigrationInv
<1>0. /\ pc = "writeCache" /\ pc' = "resume" /\ UNCHANGED <<source, target, saved, locals>>
      /\ mode # "ids" /\ cache = <<>> /\ start = 0 /\ processed = saved
  BY DEF WriteCache, RunState, Preparing
<1>1. /\ cache' \in {ids, cache} /\ Counted
      /\ Never({"uncached"})' => cache' = ids
  <2>1. CASE cache' = ids /\ UNCHANGED used
    BY <2>1, SameCounts
  <2>2. CASE Fault("uncached") /\ UNCHANGED cache
    BY <2>2, FaultGrows DEF Never
  <2>. QED  BY <2>1, <2>2 DEF WriteCache
<1>2. TypeOK'
  BY <1>0, <1>1 DEF TypeOK, locals, Counted, Steps
<1>3. RunState'
  BY <1>0, <1>1 DEF RunState, locals, Preparing, InBatch, TypeOK, Counted, Modes
<1>4. IndexOrdered'
  <2>1. Ascending(ids) /\ Ascending(cache)
    BY DEF IndexOrdered
  <2>2. IsPrefixOf(ids, ids)
    BY LenProperties DEF IsPrefixOf, TypeOK
  <2>3. ids' = ids /\ Ascending(ids') /\ Ascending(cache')
    BY <1>0, <1>1, <2>1 DEF locals
  <2>. QED  BY <1>0, <1>1, <2>2, <2>3 DEF IndexOrdered, Ascending, IsPrefixOf
<1>5. IndexComplete'
  <2>1. source \subseteq Ids(ids)
    BY <1>0 DEF IndexComplete
  <2>2. Never({"crash", "uncached"})' => cache' = ids
    BY <1>1 DEF Never
  <2>. QED  BY <1>0, <2>1, <2>2 DEF IndexComplete, Ids
<1>6. BatchInHand'
  BY <1>0 DEF BatchInHand
<1>7. ASSUME Never({"ids", "uncached"})' PROVE NothingSkipped'
  <2>1. Passed(saved) /\ InTurn
    BY <1>1, <1>7, NeverBefore DEF NothingSkipped
  <2>2. saved = 0 /\ target = <<>>
    BY <1>0, <2>1, EmptyIndex DEF TypeOK
  <2>4. Passed(saved)' /\ Passed(processed)'
    BY <1>0, <2>2 DEF Passed, locals
  <2>5. InTurn'
    BY <1>0, <2>2, EmptySeq, LenProperties DEF InTurn, Ids
  <2>. QED  BY <2>4, <2>5 DEF NothingSkipped
<1>. QED  BY <1>2, <1>3, <1>4, <1>5, <1>6, <1>7

\* The slice to work on and the place to go on at.
LEMMA ResumeKeeps == ASSUME MigrationInv, Resume
                     PROVE  MigrationInv'
<1>. USE DEF MigrationInv
<1>0. /\ pc = "resume" /\ pc' = "saveResume" /\ processed = saved
      /\ ids' = Slice /\ start' = ResumeAt
      /\ UNCHANGED <<source, target, files, mode, found, processed, batch, used>>
  BY DEF Resume, RunState, Preparing
<1>1. Counted
  BY <1>0, SameCounts
<1>2. /\ Slice \in Seq(MessageIds) /\ Ascending(Slice) /\ IsPrefixOf(Slice, ids)
      /\ mode \notin {"limit", "test"} => Slice = ids
  <2>1. CASE mode \in {"limit", "test"}
    <3>1. Limit \in Nat /\ ids \in Seq(MessageIds) /\ Ascending(ids)
      BY SizeAssumption DEF TypeOK, IndexOrdered
    <3>2. Slice = Prefix(ids, Limit)
      BY <2>1 DEF Slice
    <3>. QED  BY <2>1, <3>1, <3>2, PrefixOf
  <2>2. CASE mode \notin {"limit", "test"}
    BY <2>2, LenProperties DEF Slice, TypeOK, IndexOrdered, IsPrefixOf
  <2>. QED  BY <2>1, <2>2
<1>3. /\ ResumeAt = IF mode = "ids" \/ processed > Len(Slice) THEN 0 ELSE processed
      /\ ResumeAt \in 0..Len(Slice)
  <2>1. Len(Slice) \in Nat /\ processed \in Nat
    BY <1>2, LenProperties DEF TypeOK
  <2>. QED  BY <2>1 DEF ResumeAt
<1>4. TypeOK'
  BY <1>0, <1>2, <1>3 DEF TypeOK, files, Steps
<1>5. RunState'
  BY <1>0, <1>3 DEF RunState, files, Preparing, InBatch
<1>6. IndexOrdered'
  <2>1. cache' = cache /\ used' = used
    BY <1>0 DEF files
  <2>2. IsPrefixOf(ids, cache) => IsPrefixOf(Slice, cache)
    <3>1. /\ Len(Slice) \in Nat /\ Len(ids) \in Nat /\ Len(cache) \in Nat
          /\ DOMAIN Slice = 1..Len(Slice) /\ DOMAIN ids = 1..Len(ids)
      BY <1>2, LenProperties DEF TypeOK
    <3>. QED  BY <1>2, <3>1 DEF IsPrefixOf
  <2>3. Never({"uncached"})' /\ mode' # "ids" =>
           IsPrefixOf(ids, cache) /\ (mode \notin {"limit", "test"} => ids = cache)
    BY <1>0 DEF IndexOrdered, Working, Never
  <2>4. Ascending(cache)' /\ Ascending(ids)'
    BY <1>0, <1>2, <2>1 DEF IndexOrdered, Ascending
  <2>. QED  BY <1>0, <1>2, <2>1, <2>2, <2>3, <2>4 DEF IndexOrdered, IsPrefixOf
<1>7. IndexComplete'
  BY <1>0 DEF IndexComplete, Working, InBatch, Ids, files, Never
<1>8. BatchInHand'
  BY <1>0 DEF BatchInHand
<1>9. ASSUME Never({"ids", "uncached"})' PROVE NothingSkipped'
  <2>1. Passed(saved) /\ InTurn
    BY <1>1, <1>9, NeverBefore DEF NothingSkipped
  <2>2. Passed(saved)' /\ Passed(processed)'
    BY <1>0, <2>1 DEF Passed, files
  <2>3. InTurn'
    BY <1>0, <2>1, InTurnStays DEF files
  <2>. QED  BY <2>2, <2>3 DEF NothingSkipped
<1>. QED  BY <1>4, <1>5, <1>6, <1>7, <1>8, <1>9

\* The state is saved as it was read.
LEMMA SaveResumeKeeps == ASSUME MigrationInv, SaveResume
                         PROVE  MigrationInv'
<1>. USE DEF MigrationInv
<1>0. /\ pc = "saveResume" /\ pc' = "fetch" /\ saved' = processed /\ processed' = start
      /\ saved = processed /\ start \in {0, processed}
      /\ UNCHANGED <<source, target, cache, mode, found, ids, start, batch, used>>
  BY DEF SaveResume, RunState, Preparing
<1>1. Counted
  BY <1>0, SameCounts
<1>2. TypeOK'
  BY <1>0 DEF TypeOK, Steps
<1>3. RunState'
  BY <1>0 DEF RunState, Preparing, InBatch
<1>4. IndexOrdered'
  BY <1>0 DEF IndexOrdered, Working, InBatch, Never, Ascending, IsPrefixOf
<1>5. IndexComplete'
  BY <1>0 DEF IndexComplete, Working, InBatch, Never, Ids
<1>6. BatchInHand'
  BY <1>0 DEF BatchInHand
<1>7. ASSUME Never({"ids", "uncached"})' PROVE NothingSkipped'
  <2>1. Passed(saved) /\ InTurn
    BY <1>1, <1>7, NeverBefore DEF NothingSkipped
  <2>2. Passed(saved)'
    BY <1>0, <2>1 DEF Passed
  <2>3. Passed(processed)'
    BY <1>0, <2>1 DEF Passed
  <2>4. InTurn'
    BY <1>0, <2>1, InTurnStays
  <2>. QED  BY <2>2, <2>3, <2>4 DEF NothingSkipped
<1>. QED  BY <1>2, <1>3, <1>4, <1>5, <1>6, <1>7

\* Outside an --ids run the batch is the part of the cached index after start.
LEMMA BatchOfIndex ==
    ASSUME MigrationInv, Never({"ids", "uncached"}), pc \in InBatch
    PROVE  /\ \A i \in 1..Len(BatchIds) :
                 start + i <= Len(cache) /\ cache[start + i] = BatchIds[i]
           /\ Ids(BatchIds) \subseteq Ids(cache)
<1>. USE DEF MigrationInv
<1>1. IsPrefixOf(ids, cache)
  BY NoWindow DEF IndexOrdered, Never, Working
<1>2. /\ BatchIds \in Seq(MessageIds) /\ DOMAIN BatchIds = 1..Len(BatchIds)
      /\ Len(BatchIds) \in Nat /\ start + Len(BatchIds) <= Len(ids)
      /\ \A i \in 1..Len(BatchIds) : BatchIds[i] = ids[start + i]
  BY BatchSlice DEF TypeOK
<1>3. /\ DOMAIN ids = 1..Len(ids) /\ DOMAIN cache = 1..Len(cache)
      /\ Len(ids) \in Nat /\ Len(cache) \in Nat /\ start \in Nat
  BY LenProperties DEF TypeOK
<1>4. ASSUME NEW i \in 1..Len(BatchIds)
      PROVE  start + i \in 1..Len(cache) /\ cache[start + i] = BatchIds[i]
  <2>1. start + i \in 1..Len(ids)
    BY <1>2, <1>3
  <2>. QED  BY <1>1, <1>2, <1>3, <2>1 DEF IsPrefixOf
<1>5. Ids(BatchIds) \subseteq Ids(cache)
  BY <1>2, <1>3, <1>4 DEF Ids
<1>. QED  BY <1>4, <1>5

\* The batch is fetched; or the run is done.
LEMMA FetchKeeps == ASSUME MigrationInv, Fetch
                    PROVE  MigrationInv'
<1>. USE DEF MigrationInv
<1>0. pc = "fetch" /\ UNCHANGED <<source, target, files, used>>
  BY DEF Fetch
<1>1. Counted
  BY <1>0, SameCounts
<1>2. CASE Stop
  BY <1>0, <1>1, <1>2, PlainStopKeeps
<1>3. CASE /\ batch' \in Batches
           /\ pc' = "stage"
           /\ UNCHANGED <<mode, found, ids, start, processed>>
  <2>0. PICK b \in Batches : batch' = b
    BY <1>3
  <2>1. /\ b \in Seq(MessageIds) /\ Ids(b) = Ids(BatchIds) \cap source
        /\ Ascending(b)
    BY FetchedBatch DEF TypeOK, IndexOrdered
  <2>2. BatchIds' = BatchIds
    BY <1>3 DEF BatchIds
  <2>3. TypeOK'
    BY <1>0, <1>3, <2>0, <2>1 DEF TypeOK, files, Steps
  <2>4. RunState'
    BY <1>0, <1>3 DEF RunState, files, Preparing, InBatch
  <2>5. IndexOrdered'
    BY <1>0, <1>3 DEF IndexOrdered, files, Working, InBatch, Never, Ascending, IsPrefixOf
  <2>6. IndexComplete'
    BY <1>0, <1>3 DEF IndexComplete, files, Working, InBatch, Never, Ids
  <2>7. BatchInHand'
    <3>1. Ids(batch)' = Ids(b) /\ Ids(BatchIds)' = Ids(BatchIds) /\ source' = source
      BY <1>0, <2>0, <2>2 DEF Ids
    <3>2. Ascending(batch)'
      BY <2>0, <2>1 DEF Ascending
    <3>. QED  BY <1>3, <2>1, <3>1, <3>2 DEF BatchInHand
  <2>8. ASSUME Never({"ids", "uncached"})' PROVE NothingSkipped'
    <3>0. Never({"ids", "uncached"})
      BY <1>1, <2>8, NeverBefore
    <3>1. Passed(saved) /\ Passed(processed) /\ InTurn
      BY <1>0, <3>0 DEF NothingSkipped
    <3>2. Passed(saved)' /\ Passed(processed)'
      BY <1>0, <1>3, <3>1 DEF Passed, files
    <3>3. Ids(b) \subseteq source \cap Ids(cache)
      BY <1>0, <2>1, <3>0, BatchOfIndex DEF InBatch
    <3>4. \A i \in DOMAIN target, m \in Ids(b) : m < target[i] => Before(m, i)
      BY <3>1, <3>3 DEF InTurn
    <3>5. Ids(batch)' = Ids(b) /\ target' = target /\ source' = source /\ cache' = cache
      BY <1>0, <2>0 DEF Ids, files
    <3>6. \A i, m : Before(m, i)' <=> Before(m, i)
      BY <3>5 DEF Before
    <3>7. Ids(target)' = Ids(target) /\ Ids(cache)' = Ids(cache)
      BY <3>5 DEF Ids
    <3>8. \A i \in DOMAIN target', m \in Ids(batch)' : m < target'[i] => Before(m, i)'
      BY <3>4, <3>5, <3>6
    <3>9. \A i \in DOMAIN target', m \in (source \cap Ids(cache))' : m < target'[i] => Before(m, i)'
      BY <3>1, <3>5, <3>6, <3>7 DEF InTurn
    <3>10. InTurn'
      BY <3>1, <3>5, <3>6, <3>7, <3>8, <3>9 DEF InTurn
    <3>. QED  BY <3>2, <3>10 DEF NothingSkipped
  <2>. QED  BY <2>3, <2>4, <2>5, <2>6, <2>7, <2>8
<1>. QED  BY <1>2, <1>3 DEF Fetch

\* The batch is staged; a dry run goes on to the next one.
LEMMA StageKeeps == ASSUME MigrationInv, Stage
                    PROVE  MigrationInv'
<1>. USE DEF MigrationInv
<1>0. /\ pc = "stage" /\ pc' \in {"fetch", "import"}
      /\ UNCHANGED <<source, target, files, mode, found, ids, processed, batch, used>>
      /\ pc' = "import" => mode # "dry" /\ UNCHANGED start
      /\ pc' = "fetch" => mode = "dry"
      /\ start' \in {start, start + Len(BatchIds)}
  BY DEF Stage
<1>1. Counted
  BY <1>0, SameCounts
<1>2. TypeOK'
  <2>1. start' \in 0..Len(ids)
    BY <1>0, BatchSlice, LenProperties DEF TypeOK
  <2>. QED  BY <1>0, <2>1 DEF TypeOK, files, Steps
<1>3. RunState'
  BY <1>0 DEF RunState, files, Preparing, InBatch
<1>4. IndexOrdered'
  BY <1>0 DEF IndexOrdered, files, Working, InBatch, Never, Ascending, IsPrefixOf
<1>5. IndexComplete'
  BY <1>0 DEF IndexComplete, files, Working, InBatch, Never, Ids
<1>6. BatchInHand'
  <2>1. pc' = "import" => BatchIds' = BatchIds
    BY <1>0 DEF BatchIds
  <2>. QED  BY <1>0, <2>1 DEF BatchInHand, Ids, Ascending
<1>7. ASSUME Never({"ids", "uncached"})' PROVE NothingSkipped'
  <2>1. Passed(saved) /\ Passed(processed) /\ InTurn
    BY <1>0, <1>1, <1>7, NeverBefore DEF NothingSkipped
  <2>2. Passed(saved)' /\ Passed(processed)'
    BY <1>0, <2>1 DEF Passed, files
  <2>3. InTurn'
    BY <1>0, <2>1, InTurnStays DEF files
  <2>. QED  BY <2>2, <2>3 DEF NothingSkipped
<1>. QED  BY <1>2, <1>3, <1>4, <1>5, <1>6, <1>7

\* An import keeps the order: the batch holds every message there is between
\* what was passed and its own last one.
LEMMA ImportInTurn ==
    ASSUME MigrationInv, Never({"ids", "uncached"}), pc = "import",
           StartImport, UNCHANGED <<source, cache>>, pc' \notin {"stage", "import"}
    PROVE  InTurn'
<1>. USE DEF MigrationInv
<1>1. /\ target \in Seq(MessageIds) /\ batch \in Seq(MessageIds)
      /\ cache \in Seq(MessageIds) /\ start \in Nat /\ Ascending(cache)
      /\ processed = start
  BY LenProperties DEF TypeOK, IndexOrdered, RunState, InBatch, Preparing
<1>2. /\ Ids(batch) \subseteq Ids(BatchIds) /\ Ids(BatchIds) \cap source \subseteq Ids(batch)
      /\ Ascending(batch)
  BY DEF BatchInHand
<1>3. Passed(start) /\ InTurn
  BY <1>1 DEF NothingSkipped
<1>4. /\ \A i \in 1..Len(BatchIds) :
            start + i <= Len(cache) /\ cache[start + i] = BatchIds[i]
      /\ Ids(BatchIds) \subseteq Ids(cache)
  BY BatchOfIndex DEF InBatch
<1>5. /\ DOMAIN BatchIds = 1..Len(BatchIds) /\ Len(BatchIds) \in Nat
  BY BatchSlice DEF TypeOK
<1>6. /\ Len(target) \in Nat /\ DOMAIN target = 1..Len(target)
      /\ Len(batch) \in Nat /\ DOMAIN batch = 1..Len(batch)
      /\ Len(cache) \in Nat /\ DOMAIN cache = 1..Len(cache)
  BY <1>1, LenProperties
<1>. DEFINE after == target \o batch
<1>7. /\ after \in Seq(MessageIds) /\ Len(after) = Len(target) + Len(batch)
      /\ \A i \in 1..Len(target) : after[i] = target[i]
      /\ \A i \in 1..Len(batch) : after[Len(target) + i] = batch[i]
      /\ \A i \in DOMAIN after : \/ i \in 1..Len(target)
                                 \/ i - Len(target) \in 1..Len(batch) /\ i > Len(target)
      /\ Ids(after) = Ids(target) \cup Ids(batch)
  BY <1>1, ConcatIds
<1>8. DOMAIN after = 1..Len(after) /\ target' = after
  BY <1>7, LenProperties DEF StartImport
<1>. HIDE DEF after
<1>9. \A i \in DOMAIN after : after[i] \in Nat
  BY <1>7, ElementOfSeq, SizeAssumption DEF MessageIds
<1>. DEFINE Earlier(m, i) == \E k \in 1..(i - 1) : after[k] = m
<1>10. \A i \in 1..Len(target) : \A m : Before(m, i) => Earlier(m, i)
  BY <1>6, <1>7 DEF Before
<1>11. ASSUME NEW m \in Ids(target), NEW i \in DOMAIN after, i > Len(target)
       PROVE  Earlier(m, i)
  <2>1. PICK k \in 1..Len(target) : target[k] = m
    BY <1>6, <1>11 DEF Ids
  <2>. QED  BY <1>6, <1>7, <1>8, <1>11, <2>1
<1>12. ASSUME NEW i \in 1..Len(batch), NEW j \in 1..Len(batch), batch[j] < batch[i]
       PROVE  j < i
  <2>1. batch[i] \in Nat /\ batch[j] \in Nat
    BY <1>1, <1>6, ElementOfSeq, SizeAssumption DEF MessageIds
  <2>2. i < j => batch[i] < batch[j]
    BY <1>2, <1>6 DEF Ascending
  <2>. QED  BY <1>6, <1>12, <2>1, <2>2
<1>13. ASSUME NEW i \in 1..Len(batch), NEW m \in Ids(batch), m < batch[i]
       PROVE  Earlier(m, Len(target) + i)
  <2>1. PICK j \in 1..Len(batch) : batch[j] = m
    BY <1>6 DEF Ids
  <2>2. j < i
    BY <1>12, <1>13, <2>1
  <2>3. Len(target) + j \in 1..((Len(target) + i) - 1)
    BY <1>6, <2>2
  <2>. QED  BY <1>7, <2>1, <2>3
<1>14. ASSUME NEW i \in 1..Len(batch), NEW m \in source \cap Ids(cache), m < batch[i]
       PROVE  m \in Ids(target) \/ m \in Ids(batch)
  <2>1. PICK q \in 1..Len(cache) : cache[q] = m
    BY <1>6 DEF Ids
  <2>2. PICK k \in 1..Len(BatchIds) : BatchIds[k] = batch[i]
    <3>1. batch[i] \in Ids(BatchIds)
      BY <1>2, <1>6 DEF Ids
    <3>. QED  BY <1>5, <3>1 DEF Ids
  <2>3. start + k \in 1..Len(cache) /\ cache[start + k] = batch[i]
    BY <1>1, <1>4, <1>5, <1>6, <2>2
  <2>4. q < start + k
    <3>1. start + k < q => cache[start + k] < cache[q]
      BY <1>1, <1>6, <2>3 DEF Ascending
    <3>2. cache[q] \in Nat /\ cache[start + k] \in Nat
      BY <1>1, <1>6, <2>3, ElementOfSeq, SizeAssumption DEF MessageIds
    <3>. QED  BY <1>6, <1>14, <2>1, <2>3, <3>1, <3>2
  <2>5. CASE q <= start
    <3>1. q \in 1..start
      BY <1>1, <2>5
    <3>. QED  BY <1>3, <2>1, <3>1 DEF Passed
  <2>6. CASE q > start
    <3>1. q - start \in 1..Len(BatchIds) /\ start + (q - start) = q
      BY <1>1, <1>5, <1>6, <2>4, <2>6
    <3>2. BatchIds[q - start] = m
      BY <1>4, <2>1, <3>1
    <3>3. m \in Ids(BatchIds)
      BY <1>5, <3>1, <3>2 DEF Ids
    <3>. QED  BY <1>2, <3>3
  <2>. QED  BY <1>1, <1>6, <2>5, <2>6
<1>15. ASSUME NEW i \in DOMAIN after, i > Len(target), NEW m, m < after[i],
              m \in Ids(batch) \/ m \in source \cap Ids(cache)
       PROVE  Earlier(m, i)
  <2>. DEFINE p == i - Len(target)
  <2>1. p \in 1..Len(batch) /\ i = Len(target) + p
    BY <1>6, <1>7, <1>8, <1>15
  <2>. HIDE DEF p
  <2>2. after[i] = batch[p]
    BY <1>7, <2>1
  <2>3. m \in Ids(target) \/ m \in Ids(batch)
    BY <1>14, <1>15, <2>1, <2>2
  <2>4. CASE m \in Ids(target)
    BY <1>11, <1>15, <2>4
  <2>5. CASE m \in Ids(batch)
    <3>1. Earlier(m, Len(target) + p)
      BY <1>13, <1>15, <2>1, <2>2, <2>5
    <3>. QED  BY <2>1, <3>1
  <2>. QED  BY <2>3, <2>4, <2>5
<1>. HIDE DEF Earlier
<1>16. \A m, i : Earlier(m, i) => Before(m, i)'
  BY <1>8 DEF Before, Earlier
<1>17. Ids(target)' \subseteq Ids(cache)'
  <2>1. Ids(target)' = Ids(after) /\ Ids(cache)' = Ids(cache)
    BY <1>8 DEF Ids
  <2>. QED  BY <1>2, <1>3, <1>4, <1>7, <2>1 DEF InTurn
<1>18. ASSUME NEW i \in DOMAIN after, NEW j \in DOMAIN after, i < j, after[j] < after[i]
       PROVE  Earlier(after[j], i)
  <2>1. CASE i > Len(target)
    <3>1. j > Len(target)
      BY <1>6, <1>7, <1>8, <1>18, <2>1
    <3>2. j - Len(target) \in 1..Len(batch) /\ Len(target) + (j - Len(target)) = j
      BY <1>6, <1>7, <1>8, <1>18, <3>1
    <3>3. after[j] \in Ids(batch)
      BY <1>6, <1>7, <3>2 DEF Ids
    <3>. QED  BY <1>15, <1>18, <2>1, <3>3
  <2>2. CASE i \in 1..Len(target) /\ j \in 1..Len(target)
    BY <1>3, <1>6, <1>7, <1>10, <1>18, <2>2 DEF InTurn
  <2>3. CASE i \in 1..Len(target) /\ j > Len(target)
    <3>1. j - Len(target) \in 1..Len(batch) /\ Len(target) + (j - Len(target)) = j
      BY <1>6, <1>7, <1>8, <1>18, <2>3
    <3>2. after[j] \in Ids(batch)
      BY <1>6, <1>7, <3>1 DEF Ids
    <3>3. Before(after[j], i)
      BY <1>3, <1>6, <1>7, <1>18, <2>3, <3>2 DEF InTurn
    <3>. QED  BY <1>10, <2>3, <3>3
  <2>. QED  BY <1>6, <1>7, <1>8, <1>18, <2>1, <2>2, <2>3
<1>19. ASSUME NEW i \in DOMAIN after, NEW m \in source \cap Ids(cache), m < after[i]
       PROVE  Earlier(m, i)
  <2>1. CASE i > Len(target)
    BY <1>15, <1>19, <2>1
  <2>2. CASE i \in 1..Len(target)
    BY <1>3, <1>6, <1>7, <1>10, <1>19, <2>2 DEF InTurn
  <2>. QED  BY <1>7, <2>1, <2>2
<1>20. \A i, j \in DOMAIN target' : i < j /\ target'[j] < target'[i] => Before(target[j], i)'
  <2>. SUFFICES ASSUME NEW i \in DOMAIN after, NEW j \in DOMAIN after, i < j, after[j] < after[i]
                PROVE  Before(target[j], i)'
    BY <1>8
  <2>1. \E k \in 1..(i - 1) : after[k] = after[j]
    BY <1>18 DEF Earlier
  <2>. QED  BY <1>8, <2>1 DEF Before
<1>21. \A i \in DOMAIN target', m \in (source \cap Ids(cache))' : m < target'[i] => Before(m, i)'
  <2>1. (source \cap Ids(cache))' = source \cap Ids(cache)
    BY DEF Ids
  <2>. QED  BY <1>8, <1>16, <1>19, <2>1
<1>. QED  BY <1>17, <1>20, <1>21 DEF InTurn

\* The batch is imported, or not; its answers arrive, or not.
LEMMA ImportKeeps == ASSUME MigrationInv, Import
                     PROVE  MigrationInv'
<1>. USE DEF MigrationInv
<1>0. /\ pc = "import" /\ pc' \in {"advance", "giveUp"}
      /\ UNCHANGED <<source, files, locals>> /\ Counted
      /\ StartImport \/ UNCHANGED target
      /\ pc' = "advance" => StartImport
  <2>1. CASE StartImport /\ AfterImport(TRUE) /\ UNCHANGED used
    BY <2>1, SameCounts DEF Import, AfterImport, Gate
  <2>2. CASE /\ Ids(batch) \cap MediaIds # {} /\ Fault("badEcho")
             /\ StartImport /\ AfterImport(FALSE)
    BY <2>2, FaultGrows DEF Import, AfterImport, Gate
  <2>3. CASE Fault("notStarted") /\ UNCHANGED target /\ AfterImport(FALSE)
    BY <2>3, FaultGrows DEF Import, AfterImport, Gate
  <2>4. CASE Fault("lostAnswer") /\ StartImport /\ pc' = "giveUp" /\ UNCHANGED locals
    BY <2>4, FaultGrows DEF Import
  <2>. QED  BY <2>1, <2>2, <2>3, <2>4 DEF Import
<1>1. /\ target' \in Seq(MessageIds) /\ Ids(target) \subseteq Ids(target)'
      /\ StartImport => Ids(batch) \subseteq Ids(target)'
  <2>1. CASE StartImport
    <3>1. target' = target \o batch
      BY <2>1 DEF StartImport
    <3>2. target \o batch \in Seq(MessageIds) /\ Ids(target \o batch) = Ids(target) \cup Ids(batch)
      BY ConcatIds DEF TypeOK
    <3>3. Ids(target)' = Ids(target \o batch)
      BY <3>1 DEF Ids
    <3>. QED  BY <3>1, <3>2, <3>3
  <2>2. CASE UNCHANGED target /\ ~StartImport
    BY <2>2 DEF TypeOK, Ids
  <2>. QED  BY <1>0, <2>1, <2>2
<1>2. TypeOK'
  BY <1>0, <1>1 DEF TypeOK, files, locals, Counted, Steps
<1>3. RunState'
  <2>1. BatchIds' = BatchIds
    BY <1>0 DEF BatchIds, locals
  <2>2. mode # "dry" /\ processed = start
    BY <1>0 DEF RunState, InBatch, Preparing
  <2>3. mode = "ids" => used'["ids"] > 0
    <3>1. mode = "ids" => used["ids"] \in Nat /\ used["ids"] > 0 /\ used'["ids"] \in Nat
                          /\ used'["ids"] >= used["ids"]
      BY <1>0 DEF RunState, TypeOK, Counted, Modes
    <3>. QED  BY <3>1
  <2>. QED  BY <1>0, <2>2, <2>3 DEF RunState, locals, Preparing, InBatch
<1>4. IndexOrdered'
  <2>1. Never({"uncached"})' => Never({"uncached"})
    BY <1>0, NeverBefore
  <2>. QED  BY <1>0, <2>1 DEF IndexOrdered, files, locals, Working, InBatch, Ascending, IsPrefixOf
<1>5. IndexComplete'
  <2>1. Never({"crash", "uncached"})' => Never({"crash", "uncached"})
    BY <1>0, NeverBefore
  <2>. QED  BY <1>0, <2>1 DEF IndexComplete, files, locals, Working, InBatch, Ids
<1>6. BatchInHand'
  <2>1. BatchIds' = BatchIds
    BY <1>0 DEF BatchIds, locals
  <2>2. Ids(BatchIds)' = Ids(BatchIds)
    BY <2>1 DEF Ids
  <2>3. Ids(BatchIds) \cap source \subseteq Ids(batch)
    BY <1>0 DEF BatchInHand
  <2>. QED  BY <1>0, <1>1, <2>2, <2>3 DEF BatchInHand
<1>7. ASSUME Never({"ids", "uncached"})' PROVE NothingSkipped'
  <2>0. Never({"ids", "uncached"})
    BY <1>0, <1>7, NeverBefore
  <2>1. Passed(saved) /\ Passed(processed) /\ InTurn
    BY <1>0, <2>0 DEF NothingSkipped
  <2>2. Passed(saved)' /\ Passed(processed)'
    BY <1>0, <1>1, <2>1 DEF Passed, files, locals
  <2>3. InTurn'
    <3>1. CASE StartImport
      BY <1>0, <2>0, <3>1, ImportInTurn DEF files
    <3>2. CASE UNCHANGED target
      BY <1>0, <2>1, <3>2, InTurnStays DEF files, locals
    <3>. QED  BY <1>0, <3>1, <3>2
  <2>. QED  BY <2>2, <2>3 DEF NothingSkipped
<1>. QED  BY <1>2, <1>3, <1>4, <1>5, <1>6, <1>7

\* A run that gives up, or meets an error.
LEMMA GiveUpKeeps == ASSUME MigrationInv, GiveUp
                     PROVE  MigrationInv'
BY SameCounts, PlainStopKeeps DEF GiveUp, MigrationInv

LEMMA ErrorKeeps == ASSUME MigrationInv, Error
                    PROVE  MigrationInv'
BY FaultGrows, PlainStopKeeps DEF Error, MigrationInv

\* The cursor moves past the batch.
LEMMA AdvanceKeeps == ASSUME MigrationInv, Advance
                      PROVE  MigrationInv'
<1>. USE DEF MigrationInv
<1>0. /\ pc = "advance" /\ pc' = "next"
      /\ processed' = processed + Len(BatchIds) /\ saved' = processed'
      /\ processed = start
      /\ UNCHANGED <<source, target, cache, mode, found, ids, start, batch, used>>
  BY DEF Advance, Done, RunState, InBatch, Preparing
<1>1. Counted
  BY <1>0, SameCounts
<1>2. Len(BatchIds) \in Nat /\ DOMAIN BatchIds = 1..Len(BatchIds) /\ start \in Nat
  BY BatchSlice, LenProperties DEF TypeOK
<1>3. TypeOK'
  BY <1>0, <1>2 DEF TypeOK, Steps
<1>4. RunState'
  <2>1. BatchIds' = BatchIds
    BY <1>0 DEF BatchIds
  <2>2. mode # "dry"
    BY <1>0 DEF RunState, Preparing
  <2>. QED  BY <1>0, <2>1, <2>2 DEF RunState, Preparing, InBatch
<1>5. IndexOrdered'
  BY <1>0 DEF IndexOrdered, Working, InBatch, Never, Ascending, IsPrefixOf
<1>6. IndexComplete'
  BY <1>0 DEF IndexComplete, Working, InBatch, Never, Ids
<1>7. BatchInHand'
  BY <1>0 DEF BatchInHand
<1>8. ASSUME Never({"ids", "uncached"})' PROVE NothingSkipped'
  <2>0. Never({"ids", "uncached"})
    BY <1>1, <1>8, NeverBefore
  <2>1. Passed(start) /\ InTurn
    BY <1>0, <2>0 DEF NothingSkipped
  <2>2. Ids(BatchIds) \cap source \subseteq Ids(target)
    BY <1>0 DEF BatchInHand
  <2>3. \A i \in 1..Len(BatchIds) :
           start + i <= Len(cache) /\ cache[start + i] = BatchIds[i]
    BY <1>0, <2>0, BatchOfIndex DEF InBatch
  <2>4. ASSUME NEW i \in 1..(start + Len(BatchIds))
        PROVE  i <= Len(cache) /\ (cache[i] \in Ids(target) \/ cache[i] \notin source)
    <3>1. CASE i <= start
      <4>1. i \in 1..start
        BY <1>2, <3>1
      <4>. QED  BY <2>1, <4>1 DEF Passed
    <3>2. CASE i > start
      <4>1. i - start \in 1..Len(BatchIds) /\ start + (i - start) = i
        BY <1>2, <3>2
      <4>2. BatchIds[i - start] \in Ids(BatchIds)
        BY <1>2, <4>1 DEF Ids
      <4>. QED  BY <2>2, <2>3, <4>1, <4>2
    <3>. QED  BY <1>2, <3>1, <3>2
  <2>5. Passed(start + Len(BatchIds))
    BY <2>4 DEF Passed
  <2>6. Passed(saved)' /\ Passed(processed)'
    <3>1. /\ saved' = start + Len(BatchIds) /\ processed' = start + Len(BatchIds)
          /\ cache' = cache /\ source' = source /\ Ids(target)' = Ids(target)
      BY <1>0 DEF Ids
    <3>. QED  BY <2>5, <3>1 DEF Passed
  <2>7. InTurn'
    BY <1>0, <2>1, InTurnStays
  <2>. QED  BY <2>6, <2>7 DEF NothingSkipped
<1>. QED  BY <1>3, <1>4, <1>5, <1>6, <1>7, <1>8

\* The next batch, or the end of a test run.
LEMMA NextBatchKeeps == ASSUME MigrationInv, NextBatch
                        PROVE  MigrationInv'
<1>. USE DEF MigrationInv
<1>0. pc = "next" /\ UNCHANGED <<source, target, files, used>>
  BY DEF NextBatch
<1>1. Counted
  BY <1>0, SameCounts
<1>2. CASE Stop
  BY <1>0, <1>1, <1>2, PlainStopKeeps
<1>3. CASE /\ start' = start + Len(BatchIds) /\ pc' = "fetch"
           /\ UNCHANGED <<mode, found, ids, processed, batch>>
  <2>0. processed = start + Len(BatchIds)
    BY <1>0 DEF RunState
  <2>1. TypeOK'
    <3>1. start' \in 0..Len(ids)
      BY <1>3, BatchSlice, LenProperties DEF TypeOK
    <3>. QED  BY <1>0, <1>3, <3>1 DEF TypeOK, files, Steps
  <2>2. RunState'
    BY <1>0, <1>3, <2>0 DEF RunState, files, Preparing, InBatch
  <2>3. IndexOrdered'
    BY <1>0, <1>3 DEF IndexOrdered, files, Working, InBatch, Never, Ascending, IsPrefixOf
  <2>4. IndexComplete'
    BY <1>0, <1>3 DEF IndexComplete, files, Working, InBatch, Never, Ids
  <2>5. BatchInHand'
    BY <1>3 DEF BatchInHand
  <2>6. ASSUME Never({"ids", "uncached"})' PROVE NothingSkipped'
    <3>1. Passed(saved) /\ Passed(processed) /\ InTurn
      BY <1>0, <1>1, <2>6, NeverBefore DEF NothingSkipped
    <3>2. Passed(saved)' /\ Passed(processed)'
      BY <1>0, <1>3, <3>1 DEF Passed, files
    <3>3. InTurn'
      BY <1>0, <1>3, <3>1, InTurnStays DEF files
    <3>. QED  BY <3>2, <3>3 DEF NothingSkipped
  <2>. QED  BY <2>1, <2>2, <2>3, <2>4, <2>5, <2>6
<1>. QED  BY <1>2, <1>3 DEF NextBatch

\* The process dies, maybe in the middle of a write.
LEMMA CrashKeeps == ASSUME MigrationInv, Crash
                    PROVE  MigrationInv'
<1>. USE DEF MigrationInv
<1>0. /\ Stop /\ Counted /\ UNCHANGED <<source, target>>
      /\ ~Never({"crash", "uncached"})'
      /\ cache \in Seq(MessageIds) /\ ids \in Seq(MessageIds) /\ saved \in Nat
      /\ target \in Seq(MessageIds) /\ Ascending(cache) /\ Ascending(ids)
  <2>1. Counted /\ used'["crash"] > 0
    BY FaultGrows DEF Crash
  <2>2. ~Never({"crash", "uncached"})'
    BY <2>1 DEF Never
  <2>. QED  BY <2>1, <2>2 DEF Crash, TypeOK, IndexOrdered
<1>1. ASSUME Never({"ids", "uncached"})' PROVE Passed(saved) /\ InTurn
  BY <1>0, <1>1, NeverBefore DEF NothingSkipped
<1>2. CASE UNCHANGED files
  BY <1>0, <1>2, PlainStopKeeps
<1>3. CASE saved' = 0 /\ UNCHANGED cache
  <2>1. Ascending(cache')
    BY <1>0, <1>3
  <2>2. ASSUME Never({"ids", "uncached"})' PROVE Passed(saved)' /\ InTurn'
    <3>1. Passed(saved)'
      BY <1>3 DEF Passed
    <3>2. InTurn'
      BY <1>0, <1>1, <1>3, <2>2, InTurnStays DEF Stop
    <3>. QED  BY <3>1, <3>2
  <2>. QED  BY <1>0, <1>3, <2>1, <2>2, StopKeeps
<1>4. CASE /\ pc = "writeCache"
           /\ \E n \in 0..Len(ids) : cache' = Prefix(ids, n)
           /\ UNCHANGED saved
  <2>1. PICK n \in 0..Len(ids) : cache' = Prefix(ids, n)
    BY <1>4
  <2>2. n \in Nat
    BY <1>0, LenProperties
  <2>3. cache' \in Seq(MessageIds) /\ Ascending(cache')
    BY <1>0, <2>1, <2>2, PrefixOf
  <2>4. ASSUME Never({"ids", "uncached"})' PROVE Passed(saved)' /\ InTurn'
    <3>1. cache = <<>>
      BY <1>4 DEF RunState
    <3>2. saved = 0 /\ target = <<>>
      BY <1>0, <1>1, <2>4, <3>1, EmptyIndex
    <3>3. Passed(saved)'
      BY <1>4, <3>2 DEF Passed
    <3>4. InTurn'
      BY <1>0, <3>2, EmptySeq, LenProperties DEF InTurn, Ids
    <3>. QED  BY <3>3, <3>4
  <2>. QED  BY <1>0, <1>4, <2>3, <2>4, StopKeeps
<1>. QED  BY <1>2, <1>3, <1>4 DEF Crash

\* A message of the source goes.
LEMMA DeleteKeeps == ASSUME MigrationInv, Delete
                     PROVE  MigrationInv'
<1>. USE DEF MigrationInv
<1>0. /\ source' \subseteq source /\ UNCHANGED <<target, files, pc, locals>> /\ Counted
  BY FaultGrows DEF Delete
<1>1. BatchIds' = BatchIds
  BY <1>0 DEF BatchIds, locals
<1>2. TypeOK'
  BY <1>0 DEF TypeOK, files, locals, Counted
<1>3. RunState'
  <2>1. mode = "ids" => used'["ids"] > 0
    <3>1. mode = "ids" => used["ids"] \in Nat /\ used["ids"] > 0 /\ used'["ids"] \in Nat
                          /\ used'["ids"] >= used["ids"]
      BY <1>0 DEF RunState, TypeOK, Counted, Modes
    <3>. QED  BY <3>1
  <2>. QED  BY <1>0, <1>1, <2>1 DEF RunState, files, locals
<1>4. IndexOrdered'
  <2>1. Never({"uncached"})' => Never({"uncached"})
    BY <1>0, NeverBefore
  <2>. QED  BY <1>0, <2>1 DEF IndexOrdered, files, locals, Ascending, Descending, IsPrefixOf
<1>5. IndexComplete'
  <2>1. Never({"crash", "uncached"})' => Never({"crash", "uncached"})
    BY <1>0, NeverBefore
  <2>2. /\ Ids(found)' = Ids(found) /\ Ids(ids)' = Ids(ids) /\ Ids(cache)' = Ids(cache)
        /\ Last(found)' = Last(found) /\ found' = found /\ cache' = cache
        /\ pc' = pc /\ mode' = mode
    BY <1>0 DEF Ids, Last, files, locals
  <2>. QED  BY <1>0, <2>1, <2>2 DEF IndexComplete
<1>6. BatchInHand'
  <2>1. /\ Ids(batch)' = Ids(batch) /\ Ids(BatchIds)' = Ids(BatchIds)
        /\ Ids(target)' = Ids(target) /\ pc' = pc /\ batch' = batch
    BY <1>0, <1>1 DEF Ids, locals
  <2>. QED  BY <1>0, <2>1 DEF BatchInHand, Ascending
<1>7. ASSUME Never({"ids", "uncached"})' PROVE NothingSkipped'
  <2>1. Passed(saved) /\ (pc # "idle" => Passed(processed)) /\ InTurn
    BY <1>0, <1>7, NeverBefore DEF NothingSkipped
  <2>2. Passed(saved)' /\ (pc' # "idle" => Passed(processed)')
    BY <1>0, <2>1 DEF Passed, files, locals, Ids
  <2>3. InTurn'
    BY <1>0, <2>1, InTurnStays DEF files, locals
  <2>. QED  BY <2>2, <2>3 DEF NothingSkipped
<1>. QED  BY <1>2, <1>3, <1>4, <1>5, <1>6, <1>7

\* Nothing happens.
LEMMA StutterKeeps == ASSUME MigrationInv, UNCHANGED vars
                      PROVE  MigrationInv'
<1>1. Counted /\ source' \subseteq source /\ UNCHANGED <<target, files, pc, locals>>
      /\ used' = used /\ source' = source
  BY SameCounts DEF vars, MigrationInv
<1>2. BatchIds' = BatchIds
  BY <1>1 DEF BatchIds, locals
<1>. USE DEF MigrationInv
<1>3. TypeOK' /\ RunState'
  BY <1>1, <1>2 DEF TypeOK, RunState, files, locals
<1>4. IndexOrdered' /\ IndexComplete' /\ BatchInHand'
  BY <1>1, <1>2 DEF IndexOrdered, IndexComplete, BatchInHand, files, locals, Ids, Never,
                    Ascending, Descending, IsPrefixOf, Last
<1>5. ASSUME Never({"ids", "uncached"})' PROVE NothingSkipped'
  BY <1>1, <1>5, InTurnStays DEF NothingSkipped, Passed, Ids, Never, files, locals
<1>. QED  BY <1>3, <1>4, <1>5

\* Nothing is imported, cached or saved at the start.
LEMMA InitialMigration == ASSUME Init PROVE MigrationInv
<1>1. <<>> \in Seq(MessageIds) /\ Len(<<>>) = 0 /\ DOMAIN <<>> = {}
  BY EmptySeq, LenProperties
<1>2. TypeOK
  BY <1>1 DEF Init, TypeOK, Steps, Modes
<1>3. RunState
  BY DEF Init, RunState, Preparing, InBatch
<1>4. IndexOrdered /\ IndexComplete /\ BatchInHand
  BY <1>1 DEF Init, IndexOrdered, IndexComplete, BatchInHand, Ascending, Working, InBatch
<1>5. NothingSkipped
  BY <1>1 DEF Init, NothingSkipped, Passed, InTurn, Ids
<1>. QED  BY <1>2, <1>3, <1>4, <1>5 DEF MigrationInv

\* What a run knows agrees with the files, whatever stops it and whenever.
THEOREM MigrationInvariant == Spec => []MigrationInv
<1>1. Init => MigrationInv
  BY InitialMigration
<1>2. ASSUME MigrationInv, [Next]_vars PROVE MigrationInv'
  <2>1. CASE \E m \in Modes : StartRun(m)
    BY <1>2, <2>1, StartRunKeeps
  <2>2. CASE OpenIndex \/ Discover \/ WriteCache \/ Resume \/ SaveResume
    BY <1>2, <2>2, OpenIndexKeeps, DiscoverKeeps, WriteCacheKeeps, ResumeKeeps, SaveResumeKeeps
  <2>3. CASE Fetch \/ Stage \/ Import \/ GiveUp \/ Advance \/ NextBatch
    BY <1>2, <2>3, FetchKeeps, StageKeeps, ImportKeeps, GiveUpKeeps, AdvanceKeeps, NextBatchKeeps
  <2>4. CASE Error \/ Crash \/ Delete
    BY <1>2, <2>4, ErrorKeeps, CrashKeeps, DeleteKeeps
  <2>5. CASE UNCHANGED vars
    BY <1>2, <2>5, StutterKeeps
  <2>. QED  BY <1>2, <2>1, <2>2, <2>3, <2>4, <2>5 DEF Next
<1>. QED  BY <1>1, <1>2, PTL DEF Spec

\* The files, the counters and what a run holds have their types.
THEOREM TypeCorrect == Spec => []TypeOK
<1>1. MigrationInv => TypeOK
  BY DEF MigrationInv
<1>. QED  BY <1>1, MigrationInvariant, PTL

\* The saved cursor never passes over a message that is not in the target.
THEOREM NothingIsSkipped == Spec => []NoSkip
<1>1. MigrationInv => NoSkip
  BY DEF MigrationInv, NothingSkipped, Passed, NoSkip
<1>. QED  BY <1>1, MigrationInvariant, PTL

\* Repetitions aside, messages are imported in the order of the source.
THEOREM ImportedInOrder == Spec => []OldestFirst
<1>1. MigrationInv => OldestFirst
  BY DEF MigrationInv, NothingSkipped, InTurn, Before, OldestFirst
<1>. QED  BY <1>1, MigrationInvariant, PTL

\* A full run that reports DONE has moved every message that exists.
THEOREM DoneMeansComplete == Spec => []DoneIsComplete
<1>1. ASSUME MigrationInv PROVE DoneIsComplete
  <2>. USE <1>1 DEF MigrationInv
  <2>1. SUFFICES ASSUME pc = "fetch", mode = "full", start >= Len(ids),
                        Never({"ids", "uncached", "crash"})
                 PROVE  source \subseteq Ids(target)
    BY DEF DoneIsComplete
  <2>2. Never({"uncached"}) /\ Never({"ids", "uncached"}) /\ Never({"crash", "uncached"})
    BY <2>1 DEF Never
  <2>3. ids = cache /\ source \subseteq Ids(cache)
    BY <2>1, <2>2 DEF IndexOrdered, IndexComplete, Working, InBatch
  <2>4. processed = start /\ Passed(start)
    BY <2>1, <2>2 DEF RunState, InBatch, NothingSkipped
  <2>5. DOMAIN cache = 1..Len(cache) /\ Len(cache) \in Nat /\ start = Len(cache)
    BY <2>1, <2>3, LenProperties DEF TypeOK
  <2>6. ASSUME NEW m \in source PROVE m \in Ids(target)
    <3>1. PICK i \in 1..Len(cache) : cache[i] = m
      BY <2>3, <2>5 DEF Ids
    <3>. QED  BY <2>4, <2>5, <3>1 DEF Passed
  <2>. QED  BY <2>6
<1>. QED  BY <1>1, MigrationInvariant, PTL

-----------------------------------------------------------------------------
(* How often a message is imported.                                        *)

\* The copies a message may have, and how many of them the run at work may
\* still spend beyond what its cursor owes: a run with a window keeps one for
\* the window and one for the cursor it overwrites, a run with a slice one for
\* starting over.
Budget == 1 + Interruptions + used["limit"] + used["test"] + 2 * used["ids"]
Spare == (IF mode = "ids" THEN 1 ELSE 0)
         + (IF mode \in {"ids", "limit", "test"} /\ pc \in Preparing THEN 1 ELSE 0)

\* A copy is owed to each message the first n of s do not hold.
Held(s, n, m) == n <= Len(s) /\ \E i \in 1..n : s[i] = m
Owed(s, n, m) == IF Held(s, n, m) THEN 0 ELSE 1

WithinBudget(m) ==
    /\ Copies(m) + Spare <= Budget
    /\ pc # "advance" /\ mode # "ids" => Copies(m) + Owed(cache, saved, m) + Spare <= Budget
    /\ pc \in {"fetch", "stage", "import"} => Copies(m) + Owed(ids, start, m) + Spare <= Budget
    /\ pc \in {"advance", "next"} =>
          Copies(m) + Owed(ids, start + Len(BatchIds), m) + Spare <= Budget
BudgetInv == Never({"uncached"}) => \A m \in MessageIds : WithinBudget(m)

\* The numbers are numbers.
LEMMA BudgetNumbers ==
    ASSUME TypeOK
    PROVE  /\ \A m : Copies(m) \in Nat
           /\ Budget \in Nat /\ Spare \in 0..2
           /\ \A s, n, m : Owed(s, n, m) \in 0..1
<1>1. ASSUME NEW m PROVE Copies(m) \in Nat
  <2>. DEFINE T == {i \in DOMAIN target : target[i] = m}
  <2>1. Len(target) \in Nat /\ DOMAIN target = 1..Len(target)
    BY LenProperties DEF TypeOK
  <2>2. T \subseteq 1..Len(target) /\ IsFiniteSet(1..Len(target))
    BY <2>1, FS_Interval
  <2>. HIDE DEF T
  <2>3. IsFiniteSet(T)
    BY <2>2, FS_Subset
  <2>. QED  BY <2>3, FS_CardinalityType DEF Copies, T
<1>2. Budget \in Nat
  <2>1. \A k \in {"crash", "badEcho", "lostAnswer", "limit", "test", "ids"} : used[k] \in Nat
    BY DEF TypeOK, Modes, Faults
  <2>. QED  BY <2>1 DEF Budget, Interruptions
<1>3. Spare \in 0..2
  BY DEF Spare
<1>4. \A s, n, m : Owed(s, n, m) \in 0..1
  BY DEF Owed
<1>. QED  BY <1>1, <1>2, <1>3, <1>4

\* The budget only grows, and by what each run and each fault may cost.
LEMMA BudgetGrows ==
    ASSUME TypeOK, Counted
    PROVE  Budget' \in Nat /\ Budget' >= Budget
<1>1. \A k \in {"crash", "badEcho", "lostAnswer", "limit", "test", "ids"} :
         used[k] \in Nat /\ used'[k] \in Nat /\ used'[k] >= used[k]
  BY DEF TypeOK, Counted, Modes, Faults
<1>. QED  BY <1>1 DEF Budget, Interruptions

LEMMA BudgetPays ==
    ASSUME TypeOK, NEW kind \in Modes \cup Faults, Count(kind)
    PROVE  /\ kind \in {"crash", "badEcho", "lostAnswer", "limit", "test"} => Budget' = Budget + 1
           /\ kind = "ids" => Budget' = Budget + 2
<1>1. used' = [used EXCEPT ![kind] = used[kind] + 1]
  BY DEF Count
<1>2. \A k \in {"crash", "badEcho", "lostAnswer", "limit", "test", "ids"} :
         /\ used[k] \in Nat
         /\ used'[k] = IF k = kind THEN used[k] + 1 ELSE used[k]
  BY <1>1 DEF TypeOK, Modes, Faults
<1>3. CASE kind = "crash"
  BY <1>2, <1>3 DEF Budget, Interruptions
<1>4. CASE kind = "badEcho"
  BY <1>2, <1>4 DEF Budget, Interruptions
<1>5. CASE kind = "lostAnswer"
  BY <1>2, <1>5 DEF Budget, Interruptions
<1>6. CASE kind = "limit"
  BY <1>2, <1>6 DEF Budget, Interruptions
<1>7. CASE kind = "test"
  BY <1>2, <1>7 DEF Budget, Interruptions
<1>8. CASE kind = "ids"
  BY <1>2, <1>8 DEF Budget, Interruptions
<1>. QED  BY <1>3, <1>4, <1>5, <1>6, <1>7, <1>8

\* A longer part of a sequence owes no more.
LEMMA OwedLess ==
    ASSUME NEW s, NEW n \in Nat, NEW k \in Nat, n <= k, k <= Len(s), Len(s) \in Nat, NEW m
    PROVE  Owed(s, k, m) <= Owed(s, n, m)
<1>1. Held(s, n, m) => Held(s, k, m)
  BY DEF Held
<1>. QED  BY <1>1 DEF Owed

\* The first part of a sequence owes what the sequence owes.
LEMMA OwedByPrefix ==
    ASSUME NEW s, NEW t, IsPrefixOf(s, t), Len(s) \in Nat, Len(t) \in Nat,
           DOMAIN s = 1..Len(s), NEW n \in 0..Len(s), NEW m
    PROVE  Owed(t, n, m) = Owed(s, n, m)
<1>1. n <= Len(s) /\ n <= Len(t)
  BY DEF IsPrefixOf
<1>2. \A i \in 1..n : s[i] = t[i]
  BY <1>1 DEF IsPrefixOf
<1>3. Held(s, n, m) <=> Held(t, n, m)
  BY <1>1, <1>2 DEF Held
<1>. QED  BY <1>3 DEF Owed

\* What an import adds to the copies of a message.
LEMMA CopiesImported ==
    ASSUME TypeOK, Ascending(batch), StartImport, NEW m
    PROVE  Copies(m)' = IF m \in Ids(batch) THEN Copies(m) + 1 ELSE Copies(m)
<1>. DEFINE after == target \o batch
            Old == {i \in DOMAIN target : target[i] = m}
            New == {i \in DOMAIN after : after[i] = m}
<1>1. /\ Len(after) = Len(target) + Len(batch) /\ after \in Seq(MessageIds)
      /\ \A i \in 1..Len(target) : after[i] = target[i]
      /\ \A i \in 1..Len(batch) : after[Len(target) + i] = batch[i]
      /\ \A i \in DOMAIN after : \/ i \in 1..Len(target)
                                 \/ i - Len(target) \in 1..Len(batch) /\ i > Len(target)
  BY ConcatIds DEF TypeOK
<1>2. /\ Len(target) \in Nat /\ DOMAIN target = 1..Len(target)
      /\ Len(batch) \in Nat /\ DOMAIN batch = 1..Len(batch)
      /\ DOMAIN after = 1..Len(after)
  BY <1>1, LenProperties DEF TypeOK
<1>. HIDE DEF after
<1>3. Copies(m) = Cardinality(Old)
  BY DEF Copies
<1>4. Copies(m)' = Cardinality(New)
  BY DEF Copies, StartImport, after
<1>5. IsFiniteSet(Old)
  <2>1. Old \subseteq 1..Len(target) /\ IsFiniteSet(1..Len(target))
    BY <1>2, FS_Interval
  <2>. HIDE DEF Old
  <2>. QED  BY <2>1, FS_Subset
<1>6. ASSUME NEW i \in New, i \notin Old
      PROVE  i - Len(target) \in 1..Len(batch) /\ batch[i - Len(target)] = m
  <2>1. i - Len(target) \in 1..Len(batch) /\ Len(target) + (i - Len(target)) = i
    BY <1>1, <1>2, <1>6
  <2>. QED  BY <1>1, <1>6, <2>1
<1>7. Old \subseteq New
  BY <1>1, <1>2
<1>8. CASE m \notin Ids(batch)
  <2>1. New = Old
    BY <1>2, <1>6, <1>7, <1>8 DEF Ids
  <2>. QED  BY <1>3, <1>4, <1>8, <2>1
<1>9. CASE m \in Ids(batch)
  <2>1. PICK j \in 1..Len(batch) : batch[j] = m
    BY <1>2, <1>9 DEF Ids
  <2>. DEFINE p == Len(target) + j
  <2>2. p \in New /\ p \notin Old
    BY <1>1, <1>2, <2>1
  <2>3. ASSUME NEW i \in New, i \notin Old PROVE i = p
    <3>1. i - Len(target) \in 1..Len(batch) /\ batch[i - Len(target)] = m
      BY <1>6, <2>3
    <3>2. batch[j] \in Nat
      BY <1>2, ElementOfSeq, SizeAssumption DEF TypeOK, MessageIds
    <3>3. ~(i - Len(target) < j) /\ ~(j < i - Len(target))
      BY <1>2, <2>1, <3>1, <3>2 DEF Ascending
    <3>. QED  BY <1>2, <3>1, <3>3
  <2>4. New = Old \cup {p}
    BY <1>7, <2>2, <2>3
  <2>5. Cardinality(Old \cup {p}) = Cardinality(Old) + 1
    BY <1>5, <2>2, FS_AddElement
  <2>. QED  BY <1>3, <1>4, <1>9, <2>4, <2>5
<1>. QED  BY <1>8, <1>9

\* A step that imports nothing keeps the copies, and what bounds them.
LEMMA NothingImported ==
    ASSUME MigrationInv, BudgetInv, Counted, UNCHANGED target,
           Never({"uncached"})', NEW m \in MessageIds
    PROVE  /\ WithinBudget(m) /\ Copies(m)' = Copies(m) /\ Copies(m) \in Nat
           /\ Budget \in Nat /\ Budget' \in Nat /\ Budget' >= Budget
           /\ Spare \in 0..2
<1>1. TypeOK
  BY DEF MigrationInv
<1>2. WithinBudget(m)
  BY <1>1, NeverBefore DEF BudgetInv
<1>3. Copies(m)' = Copies(m)
  BY DEF Copies
<1>. QED  BY <1>1, <1>2, <1>3, BudgetNumbers, BudgetGrows

\* A run is over, and not between an import and the saving of its cursor.
LEMMA StopBudget ==
    ASSUME MigrationInv, BudgetInv, Stop, Counted, UNCHANGED <<target, files>>,
           pc # "advance"
    PROVE  BudgetInv'
<1>. SUFFICES ASSUME Never({"uncached"})', NEW m \in MessageIds
              PROVE  WithinBudget(m)'
  BY DEF BudgetInv
<1>1. /\ WithinBudget(m) /\ Copies(m)' = Copies(m) /\ Copies(m) \in Nat
      /\ Budget \in Nat /\ Budget' \in Nat /\ Budget' >= Budget
      /\ Spare \in 0..2
  BY NothingImported
<1>2. pc' = "idle" /\ Spare' = 0
  BY DEF Stop, Spare, Preparing
<1>3. Owed(cache, saved, m)' = Owed(cache, saved, m) /\ Owed(cache, saved, m) \in 0..1
  BY DEF Owed, Held, files
<1>4. mode = "ids" => Spare >= 1
  BY DEF Spare
<1>5. Copies(m) + Owed(cache, saved, m) <= Budget
  <2>1. CASE mode = "ids"
    BY <1>1, <1>3, <1>4, <2>1 DEF WithinBudget
  <2>2. CASE mode # "ids"
    BY <1>1, <1>3, <2>2 DEF WithinBudget
  <2>. QED  BY <2>1, <2>2
<1>. QED  BY <1>1, <1>2, <1>3, <1>5 DEF WithinBudget

\* A run pays for what it may cost.
LEMMA StartRunBudget == ASSUME MigrationInv, BudgetInv, NEW r \in Modes, StartRun(r)
                        PROVE  BudgetInv'
<1>. SUFFICES ASSUME Never({"uncached"})', NEW m \in MessageIds
              PROVE  WithinBudget(m)'
  BY DEF BudgetInv
<1>1. TypeOK /\ Counted /\ UNCHANGED <<target, cache, saved>> /\ Count(r)
      /\ pc = "idle" /\ pc' = "open" /\ mode = "full" /\ mode' = r
  BY CountGrows DEF StartRun, MigrationInv, RunState, files
<1>2. /\ WithinBudget(m) /\ Copies(m)' = Copies(m) /\ Copies(m) \in Nat
      /\ Budget \in Nat /\ Budget' \in Nat /\ Budget' >= Budget
  BY <1>1, NothingImported
<1>3. /\ Owed(cache, saved, m)' = Owed(cache, saved, m) /\ Owed(cache, saved, m) \in 0..1
  BY <1>1 DEF Owed, Held
<1>4. Copies(m) + Owed(cache, saved, m) <= Budget
  BY <1>1, <1>2, <1>3 DEF WithinBudget, Spare
<1>5. Budget' >= Budget + Spare' /\ Spare' \in 0..2
  <2>1. Spare' = IF r = "ids" THEN 2 ELSE IF r \in {"limit", "test"} THEN 1 ELSE 0
    BY <1>1 DEF Spare, Preparing
  <2>2. CASE r = "ids"
    BY <1>1, <1>2, <2>1, <2>2, BudgetPays
  <2>3. CASE r \in {"limit", "test"}
    BY <1>1, <1>2, <2>1, <2>3, BudgetPays
  <2>4. CASE r \notin {"ids", "limit", "test"}
    BY <1>2, <2>1, <2>4
  <2>. QED  BY <2>2, <2>3, <2>4
<1>6. pc' \notin {"fetch", "stage", "import", "advance", "next"}
  BY <1>1
<1>7. /\ Copies(m)' + Owed(cache, saved, m)' + Spare' <= Budget'
      /\ Copies(m)' + Spare' <= Budget'
  <2>1. PICK c \in Nat, o \in 0..1, b \in Nat, d \in Nat, r1 \in 0..2 :
           /\ c = Copies(m) /\ o = Owed(cache, saved, m) /\ b = Budget
           /\ d = Budget' /\ r1 = Spare'
    BY <1>2, <1>3, <1>5
  <2>2. c + o <= b /\ d >= b + r1
    BY <1>4, <1>5, <2>1
  <2>3. c + o + r1 <= d /\ c + r1 <= d
    BY <2>2
  <2>. QED  BY <1>2, <1>3, <2>1, <2>3
<1>. QED  BY <1>6, <1>7 DEF WithinBudget

\* Nothing is spent, or saved, before the first batch.
LEMMA PreparingBudget ==
    ASSUME MigrationInv, BudgetInv, OpenIndex \/ Discover \/ WriteCache \/ Resume
    PROVE  BudgetInv'
<1>. SUFFICES ASSUME Never({"uncached"})', NEW m \in MessageIds
              PROVE  WithinBudget(m)'
  BY DEF BudgetInv
<1>1. /\ Counted /\ UNCHANGED <<target, mode, saved>>
      /\ pc \in Preparing /\ pc' \in Preparing
      /\ cache = <<>> \/ UNCHANGED cache
  <2>1. CASE OpenIndex
    BY <2>1, SameCounts DEF OpenIndex, MigrationInv, RunState, Preparing
  <2>2. CASE Discover
    BY <2>2, SameCounts DEF Discover, MigrationInv, Preparing, files
  <2>3. CASE WriteCache
    BY <2>3, SameCounts, FaultGrows DEF WriteCache, MigrationInv, RunState, Preparing, locals
  <2>4. CASE Resume
    BY <2>4, SameCounts DEF Resume, MigrationInv, Preparing, files
  <2>. QED  BY <2>1, <2>2, <2>3, <2>4
<1>2. /\ WithinBudget(m) /\ Copies(m)' = Copies(m) /\ Copies(m) \in Nat
      /\ Budget \in Nat /\ Budget' \in Nat /\ Budget' >= Budget
      /\ Spare \in 0..2
  BY <1>1, NothingImported
<1>3. Spare' = Spare
  BY <1>1 DEF Spare
<1>4. /\ Owed(cache, saved, m)' <= Owed(cache, saved, m)
      /\ Owed(cache, saved, m)' \in 0..1 /\ Owed(cache, saved, m) \in 0..1
  <2>1. CASE cache = <<>>
    <3>1. saved \in Nat /\ Len(cache) = 0
      BY <2>1, EmptySeq DEF MigrationInv, TypeOK
    <3>2. ~Held(cache, saved, m)
      BY <3>1 DEF Held
    <3>. QED  BY <3>2 DEF Owed
  <2>2. CASE UNCHANGED cache
    BY <1>1, <2>2 DEF Owed, Held
  <2>. QED  BY <1>1, <2>1, <2>2
<1>5. pc \notin {"advance"} /\ pc' \notin {"advance", "fetch", "stage", "import", "next"}
  BY <1>1 DEF Preparing
<1>. QED  BY <1>1, <1>2, <1>3, <1>4, <1>5 DEF WithinBudget

\* The cursor the batches start from.
LEMMA SaveResumeBudget == ASSUME MigrationInv, BudgetInv, SaveResume
                          PROVE  BudgetInv'
<1>. SUFFICES ASSUME Never({"uncached"})', NEW m \in MessageIds
              PROVE  WithinBudget(m)'
  BY DEF BudgetInv
<1>1. /\ pc = "saveResume" /\ pc' = "fetch" /\ saved' = processed /\ saved = processed
      /\ start = IF mode = "ids" \/ processed > Len(ids) THEN 0 ELSE processed
      /\ UNCHANGED <<source, target, cache, mode, found, ids, start, batch, used>>
      /\ TypeOK /\ Counted
  BY SameCounts DEF SaveResume, MigrationInv, RunState, Preparing
<1>2. /\ WithinBudget(m) /\ Copies(m)' = Copies(m) /\ Copies(m) \in Nat
      /\ Budget \in Nat /\ Budget' \in Nat /\ Budget' >= Budget
      /\ Spare \in 0..2
  BY <1>1, NothingImported
<1>3. /\ Owed(cache, saved, m)' = Owed(cache, saved, m) /\ Owed(cache, saved, m) \in 0..1
      /\ Owed(ids, start, m)' = Owed(ids, start, m) /\ Owed(ids, start, m) \in 0..1
  BY <1>1 DEF Owed, Held
<1>4. /\ mode \in {"ids", "limit", "test"} => Spare = Spare' + 1
      /\ mode \notin {"ids", "limit", "test"} => Spare = Spare'
      /\ Spare' \in 0..2
  BY <1>1 DEF Spare, Preparing
<1>5. mode \notin {"ids", "limit", "test"} => Owed(ids, start, m) <= Owed(cache, saved, m)
  <2>1. SUFFICES ASSUME mode \notin {"ids", "limit", "test"}
                 PROVE  Owed(ids, start, m) <= Owed(cache, saved, m)
    OBVIOUS
  <2>2. Never({"uncached"})
    BY <1>1, NeverBefore
  <2>3. ids = cache
    BY <1>1, <2>1, <2>2 DEF MigrationInv, IndexOrdered, Working
  <2>4. CASE processed > Len(ids)
    <3>1. ~(saved <= Len(cache))
      BY <1>1, <2>3, <2>4, LenProperties DEF TypeOK
    <3>2. Owed(cache, saved, m) = 1
      BY <3>1 DEF Owed, Held
    <3>. QED  BY <1>3, <3>2
  <2>5. CASE ~(processed > Len(ids))
    BY <1>1, <1>3, <2>1, <2>3, <2>5
  <2>. QED  BY <2>4, <2>5
<1>6. PICK c \in Nat, o \in 0..1, p \in 0..1, b \in Nat, d \in Nat, r \in 0..2, r1 \in 0..2 :
         /\ c = Copies(m) /\ o = Owed(cache, saved, m) /\ p = Owed(ids, start, m)
         /\ b = Budget /\ d = Budget' /\ r = Spare /\ r1 = Spare'
  BY <1>2, <1>3, <1>4
<1>7. c + r <= b /\ (mode # "ids" => c + o + r <= b) /\ b <= d
  BY <1>1, <1>2, <1>6 DEF WithinBudget
<1>8. c + r1 <= d /\ c + p + r1 <= d /\ (mode # "ids" => c + o + r1 <= d)
  <2>1. CASE mode \in {"ids", "limit", "test"}
    <3>1. r = r1 + 1
      BY <1>4, <1>6, <2>1
    <3>2. p <= 1
      OBVIOUS
    <3>. QED  BY <1>7, <3>1, <3>2
  <2>2. CASE mode \notin {"ids", "limit", "test"}
    <3>1. p <= o /\ r = r1 /\ mode # "ids"
      BY <1>4, <1>5, <1>6, <2>2
    <3>. QED  BY <1>7, <3>1
  <2>. QED  BY <2>1, <2>2
<1>9. /\ mode' # "ids" => Copies(m)' + Owed(cache, saved, m)' + Spare' <= Budget'
      /\ Copies(m)' + Owed(ids, start, m)' + Spare' <= Budget'
      /\ Copies(m)' + Spare' <= Budget'
  BY <1>1, <1>2, <1>3, <1>6, <1>8
<1>10. pc' = "fetch"
  BY <1>1
<1>. QED  BY <1>9, <1>10 DEF WithinBudget

\* A batch that is fetched or staged spends nothing.
LEMMA FetchStageBudget == ASSUME MigrationInv, BudgetInv, Fetch \/ Stage
                          PROVE  BudgetInv'
<1>1. TypeOK /\ Counted /\ UNCHANGED <<target, files>> /\ pc \in {"fetch", "stage"}
  BY SameCounts DEF Fetch, Stage, MigrationInv
<1>2. CASE Stop
  BY <1>1, <1>2, StopBudget
<1>3. CASE ~Stop
  <2>1. /\ UNCHANGED <<mode, ids>> /\ pc' \in {"fetch", "stage", "import"}
        /\ start' \in {start, start + Len(BatchIds)}
    BY <1>3 DEF Fetch, Stage
  <2>2. /\ start \in Nat /\ start' \in Nat /\ Len(ids) \in Nat
        /\ start <= start' /\ start' <= Len(ids)
    BY <1>1, <2>1, BatchSlice, LenProperties DEF TypeOK
  <2>. SUFFICES ASSUME Never({"uncached"})', NEW m \in MessageIds
                PROVE  WithinBudget(m)'
    BY DEF BudgetInv
  <2>3. /\ WithinBudget(m) /\ Copies(m)' = Copies(m) /\ Copies(m) \in Nat
        /\ Budget \in Nat /\ Budget' \in Nat /\ Budget' >= Budget
        /\ Spare \in 0..2
    BY <1>1, NothingImported
  <2>4. Spare' = Spare
    BY <1>1, <2>1 DEF Spare, Preparing
  <2>5. /\ Owed(cache, saved, m)' = Owed(cache, saved, m) /\ Owed(cache, saved, m) \in 0..1
        /\ Owed(ids, start', m) \in 0..1 /\ Owed(ids, start, m) \in 0..1
        /\ Owed(ids, start, m)' = Owed(ids, start', m)
        /\ Owed(ids, start', m) <= Owed(ids, start, m)
    <3>1. Owed(ids, start', m) <= Owed(ids, start, m)
      <4>1. PICK k \in Nat : k = start'
        BY <2>2
      <4>2. Owed(ids, k, m) <= Owed(ids, start, m)
        BY <2>2, <4>1, OwedLess
      <4>. QED  BY <4>1, <4>2
    <3>. QED  BY <1>1, <2>1, <3>1 DEF Owed, Held, files
  <2>6. PICK c \in Nat, o \in 0..1, p \in 0..1, q \in 0..1, b \in Nat, d \in Nat, r \in 0..2 :
           /\ c = Copies(m) /\ o = Owed(cache, saved, m) /\ p = Owed(ids, start, m)
           /\ q = Owed(ids, start', m) /\ b = Budget /\ d = Budget' /\ r = Spare
    BY <2>3, <2>5
  <2>7. c + r <= b /\ (mode # "ids" => c + o + r <= b) /\ c + p + r <= b /\ b <= d /\ q <= p
    BY <1>1, <2>3, <2>5, <2>6 DEF WithinBudget
  <2>8. c + r <= d /\ (mode # "ids" => c + o + r <= d) /\ c + q + r <= d
    BY <2>7
  <2>9. /\ mode' # "ids" => Copies(m)' + Owed(cache, saved, m)' + Spare' <= Budget'
        /\ Copies(m)' + Owed(ids, start, m)' + Spare' <= Budget'
        /\ Copies(m)' + Spare' <= Budget'
    BY <2>1, <2>3, <2>4, <2>5, <2>6, <2>8
  <2>. QED  BY <2>1, <2>9 DEF WithinBudget
<1>. QED  BY <1>2, <1>3

\* An import spends what the cursor owes; a batch given up after it is paid for.
LEMMA ImportBudget == ASSUME MigrationInv, BudgetInv, Import
                      PROVE  BudgetInv'
<1>. SUFFICES ASSUME Never({"uncached"})', NEW m \in MessageIds
              PROVE  WithinBudget(m)'
  BY DEF BudgetInv
<1>. USE DEF MigrationInv
<1>1. /\ pc = "import" /\ pc' \in {"advance", "giveUp"} /\ UNCHANGED <<files, locals>>
      /\ Counted
      /\ StartImport \/ UNCHANGED target
      /\ pc' = "advance" => StartImport
      /\ pc' = "giveUp" /\ ~UNCHANGED target => Budget' = Budget + 1
  <2>1. CASE StartImport /\ AfterImport(TRUE) /\ UNCHANGED used
    BY <2>1, SameCounts DEF Import, AfterImport, Gate
  <2>2. CASE /\ Ids(batch) \cap MediaIds # {} /\ Fault("badEcho")
             /\ StartImport /\ AfterImport(FALSE)
    BY <2>2, FaultGrows, BudgetPays DEF Import, AfterImport, Gate, Fault
  <2>3. CASE Fault("notStarted") /\ UNCHANGED target /\ AfterImport(FALSE)
    BY <2>3, FaultGrows DEF Import, AfterImport, Gate
  <2>4. CASE Fault("lostAnswer") /\ StartImport /\ pc' = "giveUp" /\ UNCHANGED locals
    BY <2>4, FaultGrows, BudgetPays DEF Import, Fault
  <2>. QED  BY <2>1, <2>2, <2>3, <2>4 DEF Import
<1>2. /\ WithinBudget(m) /\ Copies(m) \in Nat /\ Budget \in Nat /\ Budget' \in Nat
      /\ Budget' >= Budget /\ Spare \in 0..2 /\ Spare' = Spare
      /\ Owed(cache, saved, m) \in 0..1 /\ Owed(ids, start, m) \in 0..1
      /\ Owed(ids, start + Len(BatchIds), m) \in 0..1
  <2>0. TypeOK /\ Never({"uncached"})
    BY <1>1, NeverBefore
  <2>1. WithinBudget(m)
    BY <2>0 DEF BudgetInv
  <2>2. Spare' = Spare
    BY <1>1 DEF Spare, locals, Preparing
  <2>3. Budget' \in Nat /\ Budget' >= Budget
    BY <1>1, <2>0, BudgetGrows
  <2>4. /\ Copies(m) \in Nat /\ Budget \in Nat /\ Spare \in 0..2
        /\ Owed(cache, saved, m) \in 0..1 /\ Owed(ids, start, m) \in 0..1
        /\ Owed(ids, start + Len(BatchIds), m) \in 0..1
    BY <2>0, BudgetNumbers
  <2>. QED  BY <2>1, <2>2, <2>3, <2>4
<1>3. /\ Ids(batch) \subseteq Ids(BatchIds) /\ Ascending(batch) /\ Ascending(ids)
  BY <1>1 DEF BatchInHand, IndexOrdered
<1>4. /\ BatchIds \in Seq(MessageIds) /\ DOMAIN BatchIds = 1..Len(BatchIds)
      /\ Len(BatchIds) \in Nat /\ start + Len(BatchIds) <= Len(ids)
      /\ \A i \in 1..Len(BatchIds) : BatchIds[i] = ids[start + i]
      /\ start \in Nat /\ Len(ids) \in Nat /\ DOMAIN ids = 1..Len(ids)
  BY BatchSlice, LenProperties DEF TypeOK
<1>5. Owed(ids, start + Len(BatchIds), m) <= Owed(ids, start, m)
  BY <1>4, OwedLess
<1>6. ASSUME m \in Ids(batch)
      PROVE  Owed(ids, start, m) = 1 /\ Owed(ids, start + Len(BatchIds), m) = 0
  <2>1. PICK k \in 1..Len(BatchIds) : BatchIds[k] = m
    BY <1>3, <1>4, <1>6 DEF Ids
  <2>2. start + k \in 1..(start + Len(BatchIds)) /\ ids[start + k] = m
    BY <1>4, <2>1
  <2>3. Held(ids, start + Len(BatchIds), m)
    BY <1>4, <2>2 DEF Held
  <2>4. ~Held(ids, start, m)
    <3>1. ASSUME NEW i \in 1..start, ids[i] = m PROVE FALSE
      <4>1. i \in DOMAIN ids /\ start + k \in DOMAIN ids /\ i < start + k
        BY <1>4
      <4>2. m \in Nat
        BY SizeAssumption DEF MessageIds
      <4>. QED  BY <1>3, <2>2, <3>1, <4>1, <4>2 DEF Ascending
    <3>. QED  BY <3>1 DEF Held
  <2>. QED  BY <2>3, <2>4 DEF Owed
<1>7. /\ Copies(m)' \in Nat
      /\ Copies(m)' = Copies(m) \/ (m \in Ids(batch) /\ Copies(m)' = Copies(m) + 1 /\ ~UNCHANGED target)
  <2>1. CASE StartImport
    <3>1. Copies(m)' = IF m \in Ids(batch) THEN Copies(m) + 1 ELSE Copies(m)
      BY <1>3, <2>1, CopiesImported
    <3>2. UNCHANGED target => Copies(m)' = Copies(m)
      BY DEF Copies
    <3>. QED  BY <1>2, <3>1, <3>2
  <2>2. CASE UNCHANGED target
    BY <1>2, <2>2 DEF Copies
  <2>. QED  BY <1>1, <2>1, <2>2
<1>8. pc' = "advance" => Copies(m)' = IF m \in Ids(batch) THEN Copies(m) + 1 ELSE Copies(m)
  BY <1>1, <1>3, CopiesImported
<1>9. PICK c \in Nat, a \in Nat, o \in 0..1, p \in 0..1, q \in 0..1, b \in Nat, d \in Nat, r \in 0..2 :
         /\ c = Copies(m) /\ a = Copies(m)' /\ o = Owed(cache, saved, m)
         /\ p = Owed(ids, start, m) /\ q = Owed(ids, start + Len(BatchIds), m)
         /\ b = Budget /\ d = Budget' /\ r = Spare
  BY <1>2, <1>7
<1>10. /\ c + r <= b /\ (mode # "ids" => c + o + r <= b) /\ c + p + r <= b
       /\ b <= d /\ q <= p
       /\ a = c \/ (a = c + 1 /\ p = 1)
       /\ pc' = "advance" => (a = c \/ q = 0)
       /\ pc' = "giveUp" => (a = c \/ d = b + 1)
  BY <1>1, <1>2, <1>5, <1>6, <1>7, <1>9 DEF WithinBudget
<1>11. /\ a + r <= d /\ (pc' = "advance" => a + q + r <= d)
       /\ pc' = "giveUp" /\ mode # "ids" => a + o + r <= d
  <2>1. CASE a = c
    BY <1>10, <2>1
  <2>2. CASE a = c + 1 /\ p = 1
    BY <1>1, <1>10, <2>2
  <2>. QED  BY <1>10, <2>1, <2>2
<1>12. /\ mode' = mode /\ Owed(cache, saved, m)' = Owed(cache, saved, m)
       /\ Owed(ids, start + Len(BatchIds), m)' = Owed(ids, start + Len(BatchIds), m)
  BY <1>1 DEF locals, files, Owed, Held, BatchIds
<1>13. /\ Copies(m)' + Spare' <= Budget'
       /\ pc' = "giveUp" /\ mode' # "ids" => Copies(m)' + Owed(cache, saved, m)' + Spare' <= Budget'
       /\ pc' = "advance" => Copies(m)' + Owed(ids, start + Len(BatchIds), m)' + Spare' <= Budget'
  BY <1>2, <1>9, <1>11, <1>12
<1>. QED  BY <1>1, <1>13 DEF WithinBudget

\* The saved cursor owes no more than the one it replaces.
LEMMA AdvanceBudget == ASSUME MigrationInv, BudgetInv, Advance
                       PROVE  BudgetInv'
<1>. SUFFICES ASSUME Never({"uncached"})', NEW m \in MessageIds
              PROVE  WithinBudget(m)'
  BY DEF BudgetInv
<1>. USE DEF MigrationInv
<1>1. /\ pc = "advance" /\ pc' = "next" /\ Counted
      /\ saved' = start + Len(BatchIds)
      /\ UNCHANGED <<target, cache, mode, ids, start>>
  BY SameCounts DEF Advance, Done, RunState, InBatch, Preparing
<1>2. /\ WithinBudget(m) /\ Copies(m)' = Copies(m) /\ Copies(m) \in Nat
      /\ Budget \in Nat /\ Budget' \in Nat /\ Budget' >= Budget
      /\ Spare \in 0..2
  BY <1>1, NothingImported
<1>3. Spare' = Spare
  BY <1>1 DEF Spare, Preparing
<1>4. PICK n \in 0..Len(ids) : n = start + Len(BatchIds)
  BY BatchSlice, LenProperties DEF TypeOK
<1>5. mode # "ids" => Owed(cache, n, m) = Owed(ids, n, m)
  <2>1. SUFFICES ASSUME mode # "ids" PROVE Owed(cache, n, m) = Owed(ids, n, m)
    OBVIOUS
  <2>2. IsPrefixOf(ids, cache)
    BY <1>1, <2>1, NeverBefore DEF IndexOrdered, Working, InBatch
  <2>. QED  BY <2>2, OwedByPrefix, LenProperties DEF TypeOK
<1>6. /\ Owed(cache, saved, m)' = Owed(cache, n, m)
      /\ Owed(ids, start + Len(BatchIds), m)' = Owed(ids, n, m)
      /\ Owed(ids, n, m) \in 0..1
  BY <1>1, <1>4 DEF Owed, Held, BatchIds
<1>7. PICK c \in Nat, o \in 0..1, b \in Nat, d \in Nat, r \in 0..2 :
         /\ c = Copies(m) /\ o = Owed(ids, n, m) /\ b = Budget /\ d = Budget' /\ r = Spare
  BY <1>2, <1>6
<1>8. c + r <= b /\ c + o + r <= b /\ b <= d
  BY <1>1, <1>2, <1>4, <1>7 DEF WithinBudget
<1>9. c + r <= d /\ c + o + r <= d
  BY <1>8
<1>10. /\ Copies(m)' + Spare' <= Budget'
       /\ mode' # "ids" => Copies(m)' + Owed(cache, saved, m)' + Spare' <= Budget'
       /\ Copies(m)' + Owed(ids, start + Len(BatchIds), m)' + Spare' <= Budget'
  BY <1>1, <1>2, <1>3, <1>5, <1>6, <1>7, <1>9
<1>. QED  BY <1>1, <1>10 DEF WithinBudget

\* The next batch starts where the last one ended.
LEMMA NextBatchBudget == ASSUME MigrationInv, BudgetInv, NextBatch
                         PROVE  BudgetInv'
<1>1. pc = "next" /\ TypeOK /\ Counted /\ UNCHANGED <<target, files>>
  BY SameCounts DEF NextBatch, MigrationInv
<1>2. CASE Stop
  BY <1>1, <1>2, StopBudget
<1>3. CASE ~Stop
  <2>1. /\ UNCHANGED <<mode, ids>> /\ pc' = "fetch" /\ start' = start + Len(BatchIds)
    BY <1>3 DEF NextBatch
  <2>. SUFFICES ASSUME Never({"uncached"})', NEW m \in MessageIds
                PROVE  WithinBudget(m)'
    BY DEF BudgetInv
  <2>2. /\ WithinBudget(m) /\ Copies(m)' = Copies(m) /\ Copies(m) \in Nat
        /\ Budget \in Nat /\ Budget' \in Nat /\ Budget' >= Budget
        /\ Spare \in 0..2
    BY <1>1, NothingImported
  <2>3. Spare' = Spare
    BY <1>1, <2>1 DEF Spare, Preparing
  <2>4. /\ Owed(cache, saved, m)' = Owed(cache, saved, m) /\ Owed(cache, saved, m) \in 0..1
        /\ Owed(ids, start, m)' = Owed(ids, start + Len(BatchIds), m)
        /\ Owed(ids, start + Len(BatchIds), m) \in 0..1
    BY <1>1, <2>1 DEF Owed, Held, files
  <2>5. PICK c \in Nat, o \in 0..1, q \in 0..1, b \in Nat, d \in Nat, r \in 0..2 :
           /\ c = Copies(m) /\ o = Owed(cache, saved, m)
           /\ q = Owed(ids, start + Len(BatchIds), m) /\ b = Budget /\ d = Budget' /\ r = Spare
    BY <2>2, <2>4
  <2>6. c + r <= b /\ (mode # "ids" => c + o + r <= b) /\ c + q + r <= b /\ b <= d
    BY <1>1, <2>2, <2>5 DEF WithinBudget
  <2>7. c + r <= d /\ (mode # "ids" => c + o + r <= d) /\ c + q + r <= d
    BY <2>6
  <2>8. /\ mode' # "ids" => Copies(m)' + Owed(cache, saved, m)' + Spare' <= Budget'
        /\ Copies(m)' + Owed(ids, start, m)' + Spare' <= Budget'
        /\ Copies(m)' + Spare' <= Budget'
    BY <2>1, <2>2, <2>3, <2>4, <2>5, <2>7
  <2>. QED  BY <2>1, <2>8 DEF WithinBudget
<1>. QED  BY <1>2, <1>3

\* A crash pays for the batch it may have to repeat.
LEMMA CrashBudget == ASSUME MigrationInv, BudgetInv, Crash
                     PROVE  BudgetInv'
<1>. SUFFICES ASSUME Never({"uncached"})', NEW m \in MessageIds
              PROVE  WithinBudget(m)'
  BY DEF BudgetInv
<1>1. Stop /\ Counted /\ UNCHANGED target /\ Count("crash") /\ TypeOK
  BY FaultGrows DEF Crash, Fault, MigrationInv
<1>2. /\ WithinBudget(m) /\ Copies(m)' = Copies(m) /\ Copies(m) \in Nat
      /\ Budget \in Nat /\ Budget' = Budget + 1 /\ Spare \in 0..2
  BY <1>1, NothingImported, BudgetPays DEF Faults
<1>3. pc' = "idle" /\ Spare' = 0
  BY <1>1 DEF Stop, Spare, Preparing
<1>4. Copies(m) <= Budget
  BY <1>2 DEF WithinBudget
<1>5. Owed(cache, saved, m)' \in 0..1
  BY DEF Owed
<1>6. PICK c \in Nat, o \in 0..1, b \in Nat :
         c = Copies(m) /\ o = Owed(cache, saved, m)' /\ b = Budget
  BY <1>2, <1>5
<1>7. c + o + 0 <= b + 1 /\ c + 0 <= b + 1
  BY <1>4, <1>6
<1>8. Copies(m)' + Owed(cache, saved, m)' + Spare' <= Budget' /\ Copies(m)' + Spare' <= Budget'
  BY <1>2, <1>3, <1>6, <1>7
<1>. QED  BY <1>3, <1>8 DEF WithinBudget

\* A deletion in the source, and a step in which nothing happens.
LEMMA StillBudget ==
    ASSUME MigrationInv, BudgetInv, Counted, UNCHANGED <<target, files, pc, locals>>
    PROVE  BudgetInv'
<1>. SUFFICES ASSUME Never({"uncached"})', NEW m \in MessageIds
              PROVE  WithinBudget(m)'
  BY DEF BudgetInv
<1>1. /\ WithinBudget(m) /\ Copies(m)' = Copies(m) /\ Copies(m) \in Nat
      /\ Budget \in Nat /\ Budget' \in Nat /\ Budget' >= Budget
      /\ Spare \in 0..2
  BY NothingImported
<1>2. /\ Owed(cache, saved, m)' = Owed(cache, saved, m) /\ Owed(cache, saved, m) \in 0..1
      /\ Owed(ids, start, m)' = Owed(ids, start, m) /\ Owed(ids, start, m) \in 0..1
      /\ Owed(ids, start + Len(BatchIds), m)' = Owed(ids, start + Len(BatchIds), m)
      /\ Owed(ids, start + Len(BatchIds), m) \in 0..1
      /\ Spare' = Spare /\ pc' = pc /\ mode' = mode
  BY DEF Owed, Held, files, locals, BatchIds, Spare
<1>3. PICK c \in Nat, o \in 0..1, p \in 0..1, q \in 0..1, b \in Nat, d \in Nat, r \in 0..2 :
         /\ c = Copies(m) /\ o = Owed(cache, saved, m) /\ p = Owed(ids, start, m)
         /\ q = Owed(ids, start + Len(BatchIds), m) /\ b = Budget /\ d = Budget' /\ r = Spare
  BY <1>1, <1>2
<1>4. /\ c + r <= b /\ b <= d
      /\ pc # "advance" /\ mode # "ids" => c + o + r <= b
      /\ pc \in {"fetch", "stage", "import"} => c + p + r <= b
      /\ pc \in {"advance", "next"} => c + q + r <= b
  BY <1>1, <1>3 DEF WithinBudget
<1>5. /\ c + r <= d
      /\ pc # "advance" /\ mode # "ids" => c + o + r <= d
      /\ pc \in {"fetch", "stage", "import"} => c + p + r <= d
      /\ pc \in {"advance", "next"} => c + q + r <= d
  BY <1>4
<1>6. /\ Copies(m)' + Spare' <= Budget'
      /\ pc' # "advance" /\ mode' # "ids" => Copies(m)' + Owed(cache, saved, m)' + Spare' <= Budget'
      /\ pc' \in {"fetch", "stage", "import"} => Copies(m)' + Owed(ids, start, m)' + Spare' <= Budget'
      /\ pc' \in {"advance", "next"} =>
            Copies(m)' + Owed(ids, start + Len(BatchIds), m)' + Spare' <= Budget'
  BY <1>1, <1>2, <1>3, <1>5
<1>. QED  BY <1>6 DEF WithinBudget

\* No message is imported more often than the runs and the faults account for.
THEOREM RepetitionsPaidFor == Spec => []CopiesBounded
<1>1. Init => BudgetInv
  <2>1. SUFFICES ASSUME Init, NEW m \in MessageIds PROVE WithinBudget(m)
    BY DEF BudgetInv
  <2>2. Copies(m) = 0
    <3>1. {i \in DOMAIN target : target[i] = m} = {}
      BY <2>1, EmptySeq, LenProperties DEF Init
    <3>. QED  BY <3>1, FS_EmptySet DEF Copies
  <2>3. Budget = 1 /\ Spare = 0
    BY <2>1 DEF Init, Budget, Interruptions, Spare, Modes, Faults, Preparing
  <2>4. Owed(cache, saved, m) \in 0..1
    BY DEF Owed
  <2>. QED  BY <2>1, <2>2, <2>3, <2>4 DEF WithinBudget, Init
<1>2. ASSUME MigrationInv, BudgetInv, [Next]_vars PROVE BudgetInv'
  <2>1. CASE \E m \in Modes : StartRun(m)
    BY <1>2, <2>1, StartRunBudget
  <2>2. CASE OpenIndex \/ Discover \/ WriteCache \/ Resume \/ SaveResume
    BY <1>2, <2>2, PreparingBudget, SaveResumeBudget
  <2>3. CASE Fetch \/ Stage \/ Import \/ Advance \/ NextBatch
    BY <1>2, <2>3, FetchStageBudget, ImportBudget, AdvanceBudget, NextBatchBudget
  <2>4. CASE GiveUp
    BY <1>2, <2>4, SameCounts, StopBudget DEF GiveUp, MigrationInv
  <2>5. CASE Error
    BY <1>2, <2>5, FaultGrows, StopBudget DEF Error, MigrationInv
  <2>6. CASE Crash
    BY <1>2, <2>6, CrashBudget
  <2>7. CASE Delete
    BY <1>2, <2>7, FaultGrows, StillBudget DEF Delete, MigrationInv
  <2>8. CASE UNCHANGED vars
    BY <1>2, <2>8, SameCounts, StillBudget DEF vars, MigrationInv
  <2>. QED  BY <1>2, <2>1, <2>2, <2>3, <2>4, <2>5, <2>6, <2>7, <2>8 DEF Next
<1>3. MigrationInv /\ BudgetInv => CopiesBounded
  <2>1. SUFFICES ASSUME MigrationInv, BudgetInv, Never({"uncached"}), NEW m \in MessageIds
                 PROVE  Copies(m) <= Budget
    BY DEF CopiesBounded, Budget
  <2>2. Copies(m) \in Nat /\ Budget \in Nat /\ Spare \in 0..2
    BY <2>1, BudgetNumbers DEF MigrationInv
  <2>3. Copies(m) + Spare <= Budget
    BY <2>1 DEF BudgetInv, WithinBudget
  <2>. QED  BY <2>2, <2>3
<1>. QED  BY <1>1, <1>2, <1>3, MigrationInvariant, PTL DEF Spec
=============================================================================
