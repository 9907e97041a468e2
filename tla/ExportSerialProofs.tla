------------------------- MODULE ExportSerialProofs -------------------------
(***************************************************************************)
(* What holds of ExportEngine as long as the tasks of an export run one    *)
(* after another, for every chat, every number of workers and every budget *)
(* of losses, redeliveries and requests.                                   *)
(***************************************************************************)
EXTENDS ExportEngineProofs

\* At no time do two workers run a task of the export.  Nothing in the code
\* sees to it: a redelivery or an early resume breaks it, and run
\* export_reprocess shows what happens then.
OneTask == \A v, w \in Workers : pc[v] # "idle" /\ pc[w] # "idle" => v = w

-----------------------------------------------------------------------------
(* The invariant. *)

Descending(s) == \A i, j \in DOMAIN s : i < j => s[i] > s[j]

\* What a task knows of the page it is about to commit: it continues the ledger
\* downwards without a hole, but for messages newer than a first page.
PageInHand(j) ==
    /\ j.page # <<>> /\ Descending(j.page)
    /\ Ids(j.page) \subseteq Below(rowOffset)
    /\ j.off = j.page[Len(j.page)] /\ j.cnt = rowCount + Len(j.page)
    /\ \A m \in Below(rowOffset) :
          j.off <= m /\ (rowOffset # 0 \/ m <= j.page[1]) => m \in Ids(j.page)

\* The last page was empty; a first message may have arrived since.
NothingLeft == Below(rowOffset) = {} \/ (rowOffset = 0 /\ OldMessages = {})

SerialTask(w) ==
    /\ pc[w] \in Loaded => job[w].off = rowOffset /\ job[w].cnt = rowCount
    /\ pc[w] = "persist" => PageInHand(job[w])
    /\ pc[w] \in Loaded \cup {"persist"} => status # "completed"
    /\ pc[w] \in AtEnd => NothingLeft

InChat == OldMessages \subseteq chat /\ ledger \subseteq chat

SerialInv ==
    /\ InChat /\ NoOrphan /\ CheckpointExact /\ NoGap
    /\ IF status = "deleted" THEN ledger = {}
                             ELSE \A w \in Workers : SerialTask(w)

-----------------------------------------------------------------------------
(* Pages. *)

\* Message ids are numbers above zero.
LEMMA IdsAreNat ==
    ASSUME NEW m \in MessageIds
    PROVE  m \in Nat /\ m > 0
BY ChatAssumption DEF MessageIds

\* A page in descending order holds as many messages as it has places, the
\* newest first and the oldest last.
LEMMA DescendingCount ==
    ASSUME NEW p \in Seq(MessageIds), Descending(p)
    PROVE  /\ Cardinality(Ids(p)) = Len(p) /\ Len(p) \in Nat
           /\ p # <<>> => /\ p[1] \in Ids(p) /\ p[Len(p)] \in Ids(p)
                          /\ \A m \in Ids(p) : p[Len(p)] <= m /\ m <= p[1]
<1>1. Len(p) \in Nat /\ DOMAIN p = 1..Len(p) /\ \A i \in DOMAIN p : p[i] \in MessageIds
  BY LenProperties, ElementOfSeq
<1>2. \A i \in DOMAIN p : p[i] \in Nat
  BY <1>1, IdsAreNat
<1>3. IsFiniteSet(1..Len(p)) /\ Cardinality(1..Len(p)) = Len(p)
  BY <1>1, FS_Interval
<1>4. p \in Surjection(1..Len(p), Ids(p))
  BY <1>1 DEF Surjection, Ids
<1>5. p \in Injection(1..Len(p), Ids(p))
  <2>1. \A i, j \in DOMAIN p : p[i] = p[j] => i = j
    BY <1>1, <1>2 DEF Descending
  <2>. QED  BY <1>4, <2>1, <1>1 DEF Surjection, Injection, IsInjective
<1>6. Cardinality(Ids(p)) = Len(p)
  BY <1>3, <1>4, <1>5, FS_Surjection
<1>7. ASSUME p # <<>>
      PROVE  /\ p[1] \in Ids(p) /\ p[Len(p)] \in Ids(p)
             /\ \A m \in Ids(p) : p[Len(p)] <= m /\ m <= p[1]
  <2>1. 1 \in DOMAIN p /\ Len(p) \in DOMAIN p
    BY <1>1, <1>7, EmptySeq
  <2>2. ASSUME NEW i \in DOMAIN p PROVE p[Len(p)] <= p[i] /\ p[i] <= p[1]
    <3>1. i \in 1..Len(p) /\ 1 <= i /\ i <= Len(p)
      BY <1>1
    <3>2. i = 1 \/ p[1] > p[i]
      BY <1>1, <2>1, <3>1 DEF Descending
    <3>3. i = Len(p) \/ p[i] > p[Len(p)]
      BY <1>1, <2>1, <3>1 DEF Descending
    <3>. QED  BY <1>2, <2>1, <3>2, <3>3
  <2>. QED  BY <2>1, <2>2 DEF Ids
<1>. QED  BY <1>1, <1>6, <1>7

\* What Telegram returns below the checkpoint.
LEMMA FetchedPage ==
    ASSUME TypeOK, NEW p \in Pages(rowOffset), p # <<>>
    PROVE  /\ p \in Seq(MessageIds) /\ Descending(p) /\ Ids(p) \subseteq Below(rowOffset)
           /\ p[Len(p)] \in Nat /\ Len(p) \in Nat
           /\ \A m \in Below(rowOffset) : p[Len(p)] <= m => m \in Ids(p)
<1>1. /\ p \in Seq(MessageIds) /\ Ids(p) \subseteq Below(rowOffset)
      /\ p[Len(p)] \in Ids(p) /\ Below(rowOffset) \subseteq MessageIds
  BY PageType DEF TypeOK, Below
<1>2. Descending(p)
  BY DEF Pages, IsPage, Descending
<1>3. p[Len(p)] \in Nat /\ Len(p) \in Nat
  BY <1>1, IdsAreNat, LenProperties
<1>4. ASSUME NEW m \in Below(rowOffset), p[Len(p)] <= m PROVE m \in Ids(p)
  <2>1. m \in Ids(p) \/ (Len(p) = BatchSize /\ m < p[BatchSize])
    BY DEF Pages, IsPage
  <2>2. m \in Nat
    BY <1>1, IdsAreNat
  <2>. QED  BY <1>3, <1>4, <2>1, <2>2
<1>. QED  BY <1>1, <1>2, <1>3, <1>4

\* An empty page: nothing is below the checkpoint.
LEMMA EmptyPage ==
    ASSUME NEW o, <<>> \in Pages(o)
    PROVE  Below(o) = {}
<1>1. ASSUME NEW m \in Below(o) PROVE FALSE
  <2>1. m \in Ids(<<>>) \/ Len(<<>>) = BatchSize
    BY DEF Pages, IsPage
  <2>. QED  BY <2>1, BatchAssumption DEF Ids
<1>. QED  BY <1>1

-----------------------------------------------------------------------------
(* The invariant is inductive. *)

\* A step of a task is taken by a task, or starts one.
LEMMA Busy ==
    ASSUME NEW w \in Workers, RunTask(w)
    PROVE  pc[w] # "idle" \/ TakeTask(w)
<1>1. CASE LoadExport(w) \/ MarkRunning(w) \/ PrepareDir(w) \/ PrepareFails(w)
           \/ OpenWorkfile(w) \/ FetchBatch(w) \/ FetchEnd(w)
  BY <1>1 DEF LoadExport, MarkRunning, PrepareDir, PrepareFails, OpenWorkfile,
              FetchBatch, FetchEnd
<1>2. CASE FloodWait(w) \/ NetworkError(w) \/ AccessRevoked(w) \/ PersistBatch(w)
           \/ PersistFails(w) \/ DownloadBatch(w)
  BY <1>2 DEF FloodWait, NetworkError, AccessRevoked, PersistBatch, PersistFails,
              DownloadBatch
<1>3. CASE BatchCheckpoint(w) \/ PollStatus(w) \/ LastCheckpoint(w) \/ Assemble(w)
           \/ Complete(w) \/ MarkFailed(w)
  BY <1>3 DEF BatchCheckpoint, PollStatus, LastCheckpoint, Assemble, Complete, MarkFailed
<1>. QED  BY <1>1, <1>2, <1>3 DEF RunTask

\* After a step of a task every other worker is idle.
LEMMA OthersIdle ==
    ASSUME TypeOK, OneTask, OneTask', NEW w \in Workers, RunTask(w)
    PROVE  \A v \in Workers \ {w} : pc'[v] = "idle"
<1>1. \A v \in Workers \ {w} : pc'[v] = pc[v]
  BY TaskKinds DEF TaskFrame
<1>2. CASE pc[w] # "idle"
  BY <1>1, <1>2 DEF OneTask
<1>3. CASE TakeTask(w)
  <2>1. pc'[w] # "idle"
    BY <1>3, GotoFrame DEF TakeTask, TypeOK
  <2>. QED  BY <2>1 DEF OneTask
<1>. QED  BY <1>2, <1>3, Busy

\* The page in hand after a fetch.
LEMMA FetchedInHand ==
    ASSUME TypeOK, NEW w \in Workers, FetchBatch(w), SerialTask(w)
    PROVE  pc'[w] = "persist" /\ PageInHand(job[w])'
<1>1. /\ pc[w] = "fetch" /\ pc'[w] = "persist"
      /\ UNCHANGED <<chat, rowOffset, rowCount, status>>
  BY GotoFrame DEF FetchBatch, TypeOK, rowVars
<1>2. job[w].off = rowOffset /\ job[w].cnt = rowCount
  BY <1>1 DEF SerialTask, Loaded, CopySteps
<1>3. PICK p \in Pages(job[w].off) :
         /\ p # <<>>
         /\ job'[w].off = p[Len(p)] /\ job'[w].cnt = job[w].cnt + Len(p)
         /\ job'[w].page = p
  BY FetchEffect
<1>4. /\ Descending(p) /\ Ids(p) \subseteq Below(rowOffset)
      /\ \A m \in Below(rowOffset) : p[Len(p)] <= m => m \in Ids(p)
  BY <1>2, <1>3, FetchedPage
<1>5. Below(rowOffset)' = Below(rowOffset)
  BY <1>1 DEF Below
<1>6. (job[w])' = job'[w]
  OBVIOUS
<1>. QED  BY <1>1, <1>2, <1>3, <1>4, <1>5, <1>6 DEF PageInHand

\* A committed page: the ledger ends at the new checkpoint and has no hole.
LEMMA CommittedPage ==
    ASSUME TypeOK, SerialInv, NEW w \in Workers, PersistBatch(w)
    PROVE  /\ ledger' \subseteq chat /\ CheckpointExact' /\ NoGap'
           /\ Ids(job[w].page) \cap ledger = {}
           /\ rowOffset' = job[w].off /\ rowCount' = job[w].cnt
           /\ pc'[w] = "download"
<1>1. /\ pc[w] = "persist" /\ pc'[w] = "download" /\ status # "deleted" /\ chat' = chat
      /\ ledger' = ledger \cup Ids(job[w].page)
      /\ Ids(job[w].page) \cap ledger = {}
      /\ rowOffset' = job[w].off /\ rowCount' = job[w].cnt
  BY GotoFrame DEF PersistBatch, WriteOffset, TypeOK
<1>2. PICK p \in Seq(MessageIds) : p = job[w].page
  BY DEF TypeOK, Jobs
<1>3. /\ p # <<>> /\ Descending(p) /\ Ids(p) \subseteq Below(rowOffset)
      /\ rowOffset' = p[Len(p)] /\ rowCount' = rowCount + Len(p)
      /\ \A m \in Below(rowOffset) :
            p[Len(p)] <= m /\ (rowOffset # 0 \/ m <= p[1]) => m \in Ids(p)
  BY <1>1, <1>2 DEF SerialInv, SerialTask, PageInHand
<1>4. /\ ledger \subseteq chat /\ chat \subseteq MessageIds /\ rowOffset \in Nat
      /\ Below(rowOffset) \subseteq chat
  BY DEF SerialInv, InChat, TypeOK, Below
<1>5. /\ Cardinality(Ids(p)) = Len(p) /\ Len(p) \in Nat
      /\ p[1] \in Ids(p) /\ p[Len(p)] \in Ids(p)
      /\ \A m \in Ids(p) : p[Len(p)] <= m /\ m <= p[1]
  BY <1>2, <1>3, DescendingCount
<1>6. rowCount' = Cardinality(ledger')
  <2>1. Cardinality(ledger') = Cardinality(ledger) + Cardinality(Ids(p))
    <3>1. ledger \in SUBSET MessageIds /\ Ids(p) \in SUBSET MessageIds /\ ledger \cap Ids(p) = {}
      BY <1>1, <1>2, <1>3, <1>4
    <3>. QED  BY <1>1, <1>2, <3>1, DisjointCount
  <2>2. rowCount = Cardinality(ledger)
    BY DEF SerialInv, CheckpointExact
  <2>. QED  BY <1>3, <1>5, <2>1, <2>2
<1>7. \A m \in ledger : rowOffset # 0 /\ rowOffset <= m
  BY <1>4, IdsAreNat DEF SerialInv, CheckpointExact
<1>8. \A m \in Ids(p) : m \in Nat /\ (rowOffset # 0 => m < rowOffset)
  BY <1>3, <1>4, IdsAreNat DEF Below
<1>9. CheckpointExact'
  <2>1. rowOffset' \in ledger'
    BY <1>1, <1>2, <1>3, <1>5
  <2>2. ASSUME NEW m \in ledger' PROVE rowOffset' <= m
    <3>1. CASE m \in Ids(p)
      BY <1>3, <1>5, <3>1
    <3>2. CASE m \in ledger
      <4>1. m \in Nat /\ rowOffset <= m /\ p[Len(p)] \in Nat /\ p[Len(p)] < rowOffset
        BY <1>4, <1>5, <1>7, <1>8, <3>2, IdsAreNat
      <4>. QED  BY <1>3, <1>4, <4>1
    <3>. QED  BY <1>1, <1>2, <3>1, <3>2
  <2>. QED  BY <1>6, <2>1, <2>2 DEF CheckpointExact
<1>10. NoGap'
  <2>1. SUFFICES ASSUME NEW m \in chat, NEW n \in ledger', p[Len(p)] <= m, m <= n
                 PROVE  m \in ledger'
    BY <1>1, <1>3 DEF NoGap
  <2>2. m \in Nat /\ n \in Nat /\ p[1] \in Nat
    BY <1>1, <1>2, <1>4, <1>5, <1>8, IdsAreNat
  <2>3. CASE m \in Below(rowOffset)
    <3>1. rowOffset # 0 \/ m <= p[1]
      <4>1. CASE rowOffset = 0
        <5>1. n \in Ids(p)
          BY <1>1, <1>2, <1>7, <4>1
        <5>2. n <= p[1]
          BY <1>5, <5>1
        <5>. QED  BY <2>1, <2>2, <5>2
      <4>. QED  BY <4>1
    <3>. QED  BY <1>1, <1>2, <1>3, <2>1, <2>3, <3>1
  <2>4. CASE m \notin Below(rowOffset)
    <3>1. rowOffset # 0 /\ rowOffset <= m
      BY <1>4, <2>2, <2>4 DEF Below
    <3>2. n \in ledger
      <4>1. CASE n \in Ids(p)
        BY <1>4, <1>8, <2>1, <2>2, <3>1, <4>1
      <4>. QED  BY <1>1, <1>2, <4>1
    <3>3. m \in ledger
      BY <2>1, <3>1, <3>2 DEF SerialInv, NoGap
    <3>. QED  BY <1>1, <3>3
  <2>. QED  BY <2>3, <2>4
<1>11. ledger' \subseteq chat
  BY <1>1, <1>2, <1>3, <1>4
<1>. QED  BY <1>1, <1>9, <1>10, <1>11

\* What a message that arrives above the chat leaves as it was.
LEMMA Arrival ==
    ASSUME TypeOK, InChat, CheckpointExact, NEW m \in MessageIds, \A n \in chat : n < m
    PROVE  /\ \A n \in ledger : n < m
           /\ rowOffset # 0 => rowOffset < m
BY DEF InChat, CheckpointExact

\* The row keeps its counters, or _checkpoint writes the same ones again.
LEMMA RowSame ==
    ASSUME SerialInv, NEW w \in Workers, RowKept \/ RowWritten(w), ledger' = ledger
    PROVE  UNCHANGED <<ledger, rowOffset, rowCount>>
<1>1. CASE RowKept
  BY <1>1 DEF RowKept
<1>2. CASE RowWritten(w)
  <2>1. pc[w] \in Loaded /\ status # "deleted"
    BY <1>2 DEF RowWritten, Loaded, CopySteps
  <2>2. job[w].off = rowOffset /\ job[w].cnt = rowCount
    BY <2>1 DEF SerialInv, SerialTask
  <2>. QED  BY <1>2, <2>2 DEF RowWritten
<1>. QED  BY <1>1, <1>2

\* A step of a task.
LEMMA TaskSerial ==
    ASSUME TypeOK, TypeOK', OneTask, OneTask', SerialInv, NEW w \in Workers, RunTask(w)
    PROVE  SerialInv'
<1>1. /\ TaskFrame(w)
      /\ \/ Leaves(w) \/ Loads(w) \/ Moves(w) \/ FetchBatch(w) \/ PersistBatch(w)
  BY TaskKinds
<1>2. NoOrphan' /\ chat' = chat /\ (status' = "deleted" <=> status = "deleted")
  BY <1>1 DEF SerialInv, NoOrphan, TaskFrame
<1>3. ASSUME UNCHANGED <<ledger, rowOffset, rowCount>>,
             status # "deleted" => SerialTask(w)'
      PROVE  SerialInv'
  <2>1. InChat' /\ CheckpointExact' /\ NoGap'
    BY <1>2, <1>3 DEF SerialInv, InChat, CheckpointExact, NoGap
  <2>2. \A v \in Workers \ {w} : SerialTask(v)'
    BY OthersIdle DEF SerialTask, Loaded, CopySteps, AtEnd
  <2>. QED  BY <1>2, <1>3, <2>1, <2>2 DEF SerialInv
<1>5. CASE Leaves(w)
  <2>1. SerialTask(w)'
    BY <1>5 DEF Leaves, SerialTask, Loaded, CopySteps, AtEnd
  <2>. QED  BY <1>3, <1>5, <2>1, RowSame DEF Leaves
<1>6. CASE Loads(w)
  <2>1. /\ pc'[w] = "mark" /\ status' # "completed"
        /\ job'[w].off = rowOffset /\ job'[w].cnt = rowCount
    BY <1>6 DEF Loads, CopyOfRow, NoJob
  <2>2. UNCHANGED <<ledger, rowOffset, rowCount>>
    BY <1>6, RowSame DEF Loads
  <2>3. SerialTask(w)'
    BY <2>1, <2>2 DEF SerialTask, AtEnd
  <2>. QED  BY <1>3, <2>2, <2>3
<1>7. CASE Moves(w)
  <2>1. UNCHANGED <<ledger, rowOffset, rowCount>>
    BY <1>7, RowSame DEF Moves
  <2>2. ASSUME status # "deleted" PROVE SerialTask(w)'
    <3>1. SerialTask(w)
      BY <2>2 DEF SerialInv
    <3>2. /\ pc[w] \in Loaded /\ pc'[w] \in Loaded
          /\ job'[w].off = job[w].off /\ job'[w].cnt = job[w].cnt
          /\ status' \in {status, "running"}
      BY <1>7 DEF Moves
    <3>3. pc'[w] # "persist"
      BY <3>2 DEF Loaded, CopySteps
    <3>4. NothingLeft' = NothingLeft
      BY <1>2, <2>1 DEF NothingLeft, Below
    <3>5. ASSUME pc'[w] \in AtEnd PROVE NothingLeft
      <4>1. CASE pc[w] \in AtEnd
        BY <3>1, <4>1 DEF SerialTask
      <4>2. CASE LastPage(w)
        <5>1. job[w].off = rowOffset
          BY <3>1, <3>2 DEF SerialTask
        <5>. QED  BY <4>2, <5>1, EmptyPage DEF LastPage, NothingLeft
      <4>. QED  BY <1>7, <3>5, <4>1, <4>2 DEF Moves
    <3>. QED  BY <2>1, <3>1, <3>2, <3>3, <3>4, <3>5 DEF SerialTask
  <2>. QED  BY <1>3, <2>1, <2>2
<1>8. CASE FetchBatch(w)
  <2>1. UNCHANGED <<ledger, rowOffset, rowCount, status>>
    BY <1>8 DEF FetchBatch, rowVars, ledgerVars
  <2>2. ASSUME status # "deleted" PROVE SerialTask(w)'
    <3>1. SerialTask(w) /\ pc[w] = "fetch"
      BY <1>8, <2>2 DEF SerialInv, FetchBatch
    <3>2. pc'[w] = "persist" /\ PageInHand(job[w])'
      BY <1>8, <3>1, FetchedInHand
    <3>3. status # "completed"
      BY <3>1 DEF SerialTask, Loaded, CopySteps
    <3>. QED  BY <2>1, <3>2, <3>3 DEF SerialTask, Loaded, CopySteps, AtEnd
  <2>. QED  BY <1>3, <2>1, <2>2
<1>9. CASE PersistBatch(w)
  <2>1. /\ ledger' \subseteq chat /\ CheckpointExact' /\ NoGap' /\ pc'[w] = "download"
        /\ rowOffset' = job[w].off /\ rowCount' = job[w].cnt
    BY <1>9, CommittedPage
  <2>2. /\ status # "deleted" /\ status' = status /\ job' = job /\ pc[w] = "persist"
    BY <1>9 DEF PersistBatch
  <2>3. status' # "completed"
    BY <2>2 DEF SerialInv, SerialTask
  <2>4. SerialTask(w)'
    BY <2>1, <2>2, <2>3 DEF SerialTask, AtEnd
  <2>5. \A v \in Workers \ {w} : SerialTask(v)'
    BY OthersIdle DEF SerialTask, Loaded, CopySteps, AtEnd
  <2>. QED  BY <1>2, <2>1, <2>2, <2>4, <2>5 DEF SerialInv, InChat
<1>. QED  BY <1>1, <1>5, <1>6, <1>7, <1>8, <1>9

\* A request or an event that leaves the tasks alone, a new message included.
LEMMA AsideSerial ==
    ASSUME TypeOK, SerialInv, Aside
    PROVE  SerialInv'
<1>1. /\ UNCHANGED <<ledger, rowOffset, rowCount, pc, job>> /\ chat \subseteq chat'
      /\ \/ status' = status /\ (status = "deleted" => request' = request)
         \/ status # "deleted" /\ status' \in {"paused", "cancelled", "queued"}
      /\ \A m \in chat' \ chat : m \in MessageIds /\ \A n \in chat : n < m
  BY DEF Aside, ledgerVars, taskVars
<1>2. \A m \in chat' \ chat : /\ \A n \in ledger : n < m
                              /\ rowOffset # 0 => rowOffset < m
  BY <1>1, Arrival DEF SerialInv
<1>3. /\ \A m \in chat' : m \in Nat
      /\ \A n \in ledger : n \in Nat
      /\ rowOffset \in Nat
  <2>1. \A m \in chat' : m \in MessageIds
    BY <1>1 DEF TypeOK
  <2>. QED  BY <2>1, IdsAreNat DEF TypeOK
<1>4. InChat' /\ CheckpointExact' /\ NoOrphan'
  BY <1>1 DEF SerialInv, InChat, CheckpointExact, NoOrphan
<1>5. NoGap'
  <2>1. SUFFICES ASSUME NEW m \in chat', NEW n \in ledger, rowOffset <= m, m <= n
                 PROVE  m \in ledger
    BY <1>1 DEF NoGap
  <2>2. m \in chat
    BY <1>2, <1>3, <2>1
  <2>. QED  BY <2>1, <2>2 DEF SerialInv, NoGap
\* With a checkpoint, what is below it stays what it was.
<1>6. rowOffset # 0 => Below(rowOffset)' = Below(rowOffset)
  BY <1>1, <1>2, <1>3 DEF Below
<1>7. Below(rowOffset) \subseteq Below(rowOffset)' /\ Below(rowOffset)' \subseteq chat'
  BY <1>1 DEF Below
<1>8. NothingLeft => NothingLeft'
  <2>1. CASE rowOffset = 0 /\ NothingLeft
    <3>1. OldMessages = {}
      BY <2>1 DEF NothingLeft, Below, SerialInv, InChat
    <3>. QED  BY <1>1, <2>1, <3>1 DEF NothingLeft
  <2>2. CASE rowOffset # 0 /\ NothingLeft
    BY <1>1, <1>6, <2>2 DEF NothingLeft
  <2>. QED  BY <2>1, <2>2
<1>9. ASSUME NEW w \in Workers, PageInHand(job[w]) PROVE PageInHand(job[w])'
  <2>1. PICK p \in Seq(MessageIds) : p = job[w].page
    BY DEF TypeOK, Jobs
  <2>2. /\ p # <<>> /\ Descending(p) /\ Ids(p) \subseteq Below(rowOffset)
        /\ job[w].off = p[Len(p)] /\ job[w].cnt = rowCount + Len(p)
        /\ \A m \in Below(rowOffset) :
              job[w].off <= m /\ (rowOffset # 0 \/ m <= p[1]) => m \in Ids(p)
    BY <1>9, <2>1 DEF PageInHand
  <2>3. p[1] \in chat /\ p[1] \in Nat
    <3>1. p[1] \in Below(rowOffset)
      BY <2>2, DescendingCount
    <3>. QED  BY <1>1, <1>3, <3>1 DEF Below
  <2>4. ASSUME NEW m \in Below(rowOffset)', job[w].off <= m, rowOffset # 0 \/ m <= p[1]
        PROVE  m \in Ids(p)
    <3>1. m \in Below(rowOffset)
      <4>1. CASE rowOffset # 0
        BY <1>6, <2>4, <4>1
      <4>2. CASE rowOffset = 0
        <5>1. m \in chat' /\ m <= p[1]
          BY <1>7, <2>4, <4>2
        <5>2. m \in chat
          BY <1>1, <1>3, <2>3, <5>1
        <5>. QED  BY <4>2, <5>2 DEF Below
      <4>. QED  BY <4>1, <4>2
    <3>. QED  BY <2>2, <2>4, <3>1
  <2>5. Ids(p) \subseteq Below(rowOffset)'
    BY <1>7, <2>2
  <2>6. UNCHANGED <<rowOffset, rowCount, job>>
    BY <1>1
  <2>. QED  BY <2>1, <2>2, <2>4, <2>5, <2>6 DEF PageInHand
<1>10. ASSUME status' # "deleted", NEW w \in Workers PROVE SerialTask(w)'
  <2>1. SerialTask(w) /\ (status # "completed" => status' # "completed")
    BY <1>1, <1>10 DEF SerialInv
  <2>. QED  BY <1>1, <1>8, <1>9, <2>1 DEF SerialTask
<1>11. status' = "deleted" => ledger' = {}
  BY <1>1 DEF SerialInv
<1>. QED  BY <1>4, <1>5, <1>10, <1>11 DEF SerialInv

\* The row and its ledger are deleted.
LEMMA PurgeSerial ==
    ASSUME TypeOK, SerialInv, PurgeRow
    PROVE  SerialInv'
<1>1. /\ status' = "deleted" /\ rowCount' = 0 /\ rowOffset' = 0 /\ ledger' = {}
      /\ request'.op = "none" /\ chat' = chat
  BY DEF PurgeRow, DeleteLedger, NoRequest
<1>. QED  BY <1>1, FS_EmptySet DEF SerialInv, InChat, NoOrphan, CheckpointExact, NoGap

\* A task is lost.
LEMMA LostSerial ==
    ASSUME TypeOK, SerialInv, NEW w \in Workers, Lost(w)
    PROVE  SerialInv'
<1>1. /\ pc'[w] = "idle" /\ \A v \in Workers \ {w} : pc'[v] = pc[v] /\ job'[v] = job[v]
      /\ UNCHANGED <<chat, status, rowCount, rowOffset, ledger, request>>
  BY LostFrame DEF rowVars, ledgerVars
<1>2. SerialTask(w)'
  BY <1>1 DEF SerialTask, Loaded, CopySteps, AtEnd
<1>3. ASSUME NEW v \in Workers \ {w}, SerialTask(v) PROVE SerialTask(v)'
  BY <1>1, <1>3 DEF SerialTask, PageInHand, NothingLeft, Below
<1>. QED  BY <1>1, <1>2, <1>3
     DEF SerialInv, InChat, NoOrphan, CheckpointExact, NoGap

\* Every step keeps the invariant.
LEMMA SerialStep ==
    ASSUME TypeOK, TypeOK', OneTask, OneTask', SerialInv, [Next]_vars
    PROVE  SerialInv'
<1>1. CASE UNCHANGED vars
  BY <1>1 DEF vars, rowVars, ledgerVars, taskVars, SerialInv, InChat, NoOrphan,
              CheckpointExact, NoGap, SerialTask, PageInHand, NothingLeft, Below
<1>2. ASSUME NEW w \in Workers, RunTask(w) PROVE SerialInv'
  BY <1>2, TaskSerial
<1>3. CASE Next /\ ~\E w \in Workers : RunTask(w)
  <2>1. Aside \/ PurgeRow \/ \E w \in Workers : Lost(w)
    BY <1>3, OtherKinds DEF Next, SerialInv
  <2>. QED  BY <2>1, AsideSerial, PurgeSerial, LostSerial
<1>. QED  BY <1>1, <1>2, <1>3

\* The initial state.
LEMMA SerialInit ==
    ASSUME Init
    PROVE  SerialInv
BY FS_EmptySet DEF Init, SerialInv, InChat, NoOrphan, CheckpointExact, NoGap, SerialTask,
                   Loaded, CopySteps, AtEnd

\* The invariant holds throughout.
THEOREM SerialInvariant == Spec /\ []OneTask => []SerialInv
<1>1. Init => SerialInv
  BY SerialInit
<1>2. TypeOK /\ TypeOK' /\ OneTask /\ OneTask' /\ SerialInv /\ [Next]_vars => SerialInv'
  BY SerialStep
<1>. QED  BY <1>1, <1>2, TypeCorrect, PTL DEF Spec

\* messages_processed is the size of the ledger and checkpoint_offset_id its
\* smallest id, through losses, failed transactions, requests and deletion.
THEOREM CheckpointIsExact == Spec /\ []OneTask => []CheckpointExact
<1>1. SerialInv => CheckpointExact
  BY DEF SerialInv
<1>. QED  BY <1>1, SerialInvariant, PTL

\* The ledger is an interval of the chat: nothing between two exported messages
\* is left out.
THEOREM LedgerHasNoGap == Spec /\ []OneTask => []NoGap
<1>1. SerialInv => NoGap
  BY DEF SerialInv
<1>. QED  BY <1>1, SerialInvariant, PTL

\* No page in hand overlaps the ledger, so the unique constraint never fires
\* and the export can always go on from its checkpoint.
THEOREM NothingReprocessed == Spec /\ []OneTask => []NeverReprocessed
<1>1. ASSUME TypeOK, SerialInv PROVE NeverReprocessed
  <2>1. SUFFICES ASSUME NEW w \in Workers, pc[w] = "persist",
                        NEW m \in Ids(job[w].page), m \in ledger
                 PROVE  FALSE
    BY DEF NeverReprocessed
  <2>2. status # "deleted"
    BY <1>1, <2>1 DEF SerialInv
  <2>3. m \in Below(rowOffset)
    BY <1>1, <2>1, <2>2 DEF SerialInv, SerialTask, PageInHand
  <2>4. rowOffset \in Nat /\ m \in Nat /\ rowOffset # 0 /\ rowOffset <= m
    BY <1>1, <2>1, IdsAreNat DEF TypeOK, SerialInv, CheckpointExact
  <2>. QED  BY <2>3, <2>4 DEF Below
<1>. QED  BY <1>1, SerialInvariant, TypeCorrect, PTL

-----------------------------------------------------------------------------
(* Refinement. *)

\* What the row says of the copy.
LEMMA CopyStates ==
    /\ CopyState = "done" <=> status = "completed"
    /\ CopyState = "gone" <=> status = "deleted"
    /\ CopyState = "open" <=> status \notin {"completed", "deleted"}
    /\ CopyState \in {"done", "gone", "open"}
BY DEF CopyState

\* A committed page is one step of the copy.
LEMMA PersistCopies ==
    ASSUME TypeOK, SerialInv, NEW w \in Workers, PersistBatch(w)
    PROVE  Copy!CopyPage \/ Copy!CopyStalePage
<1>1. /\ pc[w] = "persist" /\ status # "deleted" /\ UNCHANGED <<status, chat>>
      /\ ledger' = ledger \cup Ids(job[w].page)
      /\ Ids(job[w].page) \cap ledger = {} /\ rowOffset' = job[w].off
  BY DEF PersistBatch, WriteOffset
<1>2. PICK p \in Seq(MessageIds) : p = job[w].page
  BY DEF TypeOK, Jobs
<1>3. /\ p # <<>> /\ Descending(p) /\ Ids(p) \subseteq Below(rowOffset)
      /\ rowOffset' = p[Len(p)] /\ status # "completed"
      /\ \A m \in Below(rowOffset) :
            p[Len(p)] <= m /\ (rowOffset # 0 \/ m <= p[1]) => m \in Ids(p)
  BY <1>1, <1>2 DEF SerialInv, SerialTask, PageInHand
<1>4. /\ p[1] \in Ids(p) /\ p[Len(p)] \in Ids(p)
      /\ \A m \in Ids(p) : p[Len(p)] <= m /\ m <= p[1]
  BY <1>3, DescendingCount
<1>5. CopyState = "open" /\ CopyState' = CopyState
  <2>1. CopyState = "open"
    BY <1>1, <1>3, CopyStates
  <2>. QED  BY <1>1, <2>1 DEF CopyState
<1>6. Below(rowOffset) = Copy!BelowCursor /\ Below(rowOffset) \subseteq chat
  BY DEF Below, Copy!BelowCursor
<1>7. \A m \in chat : m \in Nat
  BY IdsAreNat DEF TypeOK
<1>8. CASE rowOffset # 0
  <2>1. Ids(p) = {m \in Copy!BelowCursor : m >= p[Len(p)]}
    BY <1>3, <1>4, <1>6, <1>7, <1>8
  <2>2. p[Len(p)] \in Copy!BelowCursor
    BY <1>3, <1>4, <1>6
  <2>. QED  BY <1>1, <1>2, <1>3, <1>5, <2>1, <2>2 DEF Copy!CopyPage
<1>9. CASE rowOffset = 0
  <2>1. ledger = {}
    BY <1>9, IdsAreNat DEF SerialInv, CheckpointExact, TypeOK
  <2>2. Below(rowOffset) = chat
    BY <1>9 DEF Below
  <2>3. Ids(p) = {m \in chat : p[Len(p)] <= m /\ m <= p[1]}
    BY <1>3, <1>4, <1>7, <1>9, <2>2
  <2>4. /\ p[Len(p)] \in chat /\ p[1] \in chat /\ p[Len(p)] <= p[1]
        /\ ledger' = {m \in chat : p[Len(p)] <= m /\ m <= p[1]}
    BY <1>1, <1>2, <1>3, <1>4, <2>1, <2>2, <2>3
  <2>. QED  BY <1>1, <1>3, <1>5, <1>9, <2>1, <2>4 DEF Copy!CopyStalePage
<1>. QED  BY <1>8, <1>9

\* A change of status alone opens or finishes the copy, or says nothing new.
LEMMA StatusMoves ==
    ASSUME UNCHANGED <<chat, ledger, rowOffset>>,
           status' = "deleted" <=> status = "deleted",
           status' = "completed" => status = "completed" \/ NothingLeft
    PROVE  Copy!Finish \/ Copy!Reopen \/ UNCHANGED <<chat, ledger, rowOffset, CopyState>>
<1>1. CopyState' = "done" <=> status' = "completed"
  BY DEF CopyState
<1>2. CopyState' = "gone" <=> status' = "deleted"
  BY DEF CopyState
<1>3. CopyState' \in {"done", "gone", "open"}
  BY DEF CopyState
<1>4. CASE status = "completed" /\ status' # "completed"
  BY <1>1, <1>2, <1>3, <1>4, CopyStates DEF Copy!Reopen
<1>5. CASE status # "completed" /\ status' = "completed"
  <2>1. NothingLeft /\ CopyState = "open" /\ CopyState' = "done"
    BY <1>1, <1>5, CopyStates
  <2>2. Copy!BelowCursor = {} \/ (rowOffset = 0 /\ OldMessages = {})
    BY <2>1 DEF NothingLeft, Below, Copy!BelowCursor
  <2>. QED  BY <2>1, <2>2 DEF Copy!Finish
<1>6. CASE status = "completed" <=> status' = "completed"
  <2>1. CopyState' = CopyState
    BY <1>1, <1>2, <1>3, <1>6, CopyStates
  <2>. QED  BY <2>1
<1>. QED  BY <1>4, <1>5, <1>6

\* Every step of an export is a step of the copy, or none.
LEMMA CopyStep ==
    ASSUME TypeOK, TypeOK', SerialInv, [Next]_vars
    PROVE  [Copy!Next]_<<chat, ledger, rowOffset, CopyState>>
<1>1. CASE UNCHANGED vars
  BY <1>1 DEF vars, rowVars, ledgerVars, CopyState
<1>2. ASSUME NEW w \in Workers, RunTask(w)
      PROVE  [Copy!Next]_<<chat, ledger, rowOffset, CopyState>>
  <2>1. /\ TaskFrame(w)
        /\ \/ Leaves(w) \/ Loads(w) \/ Moves(w) \/ FetchBatch(w) \/ PersistBatch(w)
    BY <1>2, TaskKinds
  <2>2. CASE PersistBatch(w)
    BY <2>2, PersistCopies DEF Copy!Next
  <2>3. CASE ~PersistBatch(w)
    <3>1. ledger' = ledger /\ (RowKept \/ RowWritten(w))
      BY <2>1, <2>3 DEF Leaves, Loads, Moves, FetchBatch, RowKept, rowVars, ledgerVars
    <3>2. UNCHANGED <<chat, ledger, rowOffset>>
      BY <2>1, <3>1, RowSame DEF TaskFrame
    <3>3. status' = "completed" => status = "completed" \/ NothingLeft
      <4>1. SUFFICES ASSUME status' = "completed", status # "completed" PROVE NothingLeft
        OBVIOUS
      <4>2. pc[w] = "complete" /\ status # "deleted"
        BY <2>1, <4>1 DEF TaskFrame
      <4>. QED  BY <4>2 DEF SerialInv, SerialTask, AtEnd
    <3>. QED  BY <2>1, <3>2, <3>3, StatusMoves DEF TaskFrame, Copy!Next
  <2>. QED  BY <2>2, <2>3
<1>3. CASE Next /\ ~\E w \in Workers : RunTask(w)
  <2>1. Aside \/ PurgeRow \/ \E w \in Workers : Lost(w)
    BY <1>3, OtherKinds DEF Next, SerialInv
  <2>2. CASE Aside /\ chat' = chat
    <3>1. /\ UNCHANGED <<chat, ledger, rowOffset>>
          /\ status' = "deleted" <=> status = "deleted"
          /\ status' = "completed" => status = "completed"
      BY <2>2 DEF Aside, ledgerVars
    <3>. QED  BY <3>1, StatusMoves DEF Copy!Next
  <2>3. CASE Aside /\ chat' # chat
    <3>1. /\ UNCHANGED <<ledger, rowOffset, CopyState>>
          /\ \E m \in 1..MaxId : (\A n \in chat : n < m) /\ chat' = chat \cup {m}
      BY <2>3 DEF Aside, ledgerVars, CopyState, MessageIds
    <3>. QED  BY <3>1 DEF Copy!Next, Copy!Arrive
  <2>4. CASE PurgeRow
    <3>1. CopyState' = "gone" /\ ledger' = {} /\ rowOffset' = 0 /\ chat' = chat
      BY <2>4 DEF PurgeRow, DeleteLedger, CopyState
    <3>. QED  BY <3>1 DEF Copy!Next, Copy!Discard
  <2>5. ASSUME NEW w \in Workers, Lost(w)
        PROVE  UNCHANGED <<chat, ledger, rowOffset, CopyState>>
    BY <2>5, LostFrame DEF rowVars, ledgerVars, CopyState
  <2>. QED  BY <2>1, <2>2, <2>3, <2>4, <2>5
<1>. QED  BY <1>1, <1>2, <1>3

\* An export implements ChatCopy: whatever is lost, fails or is asked for, the
\* checkpoint passes every message once, and "completed" means the end.
THEOREM ExportIsACopy == Spec /\ []OneTask => ImplementsChatCopy
<1>1. Init => Copy!Init
  BY DEF Init, Copy!Init, CopyState
<1>2. TypeOK /\ TypeOK' /\ SerialInv /\ [Next]_vars
         => [Copy!Next]_<<chat, ledger, rowOffset, CopyState>>
  BY CopyStep
<1>. QED  BY <1>1, <1>2, SerialInvariant, TypeCorrect, PTL
     DEF Spec, ImplementsChatCopy, Copy!Spec

-----------------------------------------------------------------------------
(* Without losses. *)

\* No process of a worker dies.
LossFree == Budget["workerLoss"] = 0 /\ Budget["childLoss"] = 0

\* What the environment may not do it never does.
Unspent == \A k \in EventKinds : Budget[k] = 0 => budget[k] = 0

LEMMA SpendUnspent ==
    ASSUME TypeOK, Unspent, NEW kind \in EventKinds, Spend(kind)
    PROVE  Unspent' /\ Budget[kind] # 0
<1>1. budget[kind] > 0 /\ budget' = [budget EXCEPT ![kind] = @ - 1]
  BY DEF Spend
<1>2. Budget[kind] # 0
  BY <1>1 DEF Unspent
<1>3. \A k \in EventKinds : k # kind => budget'[k] = budget[k]
  BY <1>1 DEF TypeOK
<1>. QED  BY <1>2, <1>3 DEF Unspent

LEMMA UnspentStep ==
    ASSUME TypeOK, Unspent, [Next]_vars
    PROVE  Unspent'
<1>1. CASE budget' = budget
  BY <1>1 DEF Unspent
<1>. QED  BY <1>1, BudgetSpent, SpendUnspent

\* What the environment may not do it never does.
THEOREM BudgetKept == Spec => []Unspent
<1>1. Init => Unspent
  BY DEF Init, Unspent
<1>2. TypeOK /\ Unspent /\ [Next]_vars => Unspent'
  BY UnspentStep
<1>. QED  BY <1>1, <1>2, TypeCorrect, PTL DEF Spec

LEMMA NobodyLost ==
    ASSUME TypeOK, Unspent, LossFree, NEW w \in Workers
    PROVE  ~Lost(w)
BY SpendUnspent DEF Lost, WorkerLoss, ChildLoss, LossFree, EventKinds

-----------------------------------------------------------------------------
(* The files of the directory. *)

\* No process dies and no transaction is lost.
FaultFree == LossFree /\ Budget["dbError"] = 0

\* While the workfile of a task is open, some of its lines may be buffered.
Buffering == {"fetch", "persist", "download", "checkpoint", "poll"}

\* Lines for exactly these messages, newest first.
Lists(s, ids) == Ids(s) = ids /\ Descending(s)

\* The workfile with the lines still buffered lists the ledger and the page
\* that is about to be committed.
TaskDirectory(w) ==
    pc[w] \in Buffering =>
        /\ w \in linked
        /\ Lists(workfile \o job[w].buf,
                 IF pc[w] = "persist" THEN ledger \cup Ids(job[w].page) ELSE ledger)

ArchiveExact == /\ Ids(archive) = ledger
                /\ \A i, j \in DOMAIN archive : i < j => archive[i] < archive[j]

FileInv ==
    /\ \A w \in Workers : pc[w] \notin Buffering => job[w].buf = <<>>
    /\ status # "deleted" /\ request.op # "purge" =>
          /\ \A w \in Workers : TaskDirectory(w)
          /\ (\A w \in Workers : pc[w] \notin Buffering) => Lists(workfile, ledger)
          /\ status = "completed" \/ (\E w \in Workers : pc[w] = "complete") => ArchiveExact

\* Lines appended below everything in a list.
LEMMA ListsConcat ==
    ASSUME NEW s \in Seq(MessageIds), NEW t \in Seq(MessageIds),
           Descending(s), Descending(t),
           \A m \in Ids(s), n \in Ids(t) : m > n
    PROVE  Lists(s \o t, Ids(s) \cup Ids(t))
<1>1. /\ Len(s) \in Nat /\ Len(t) \in Nat
      /\ DOMAIN s = 1..Len(s) /\ DOMAIN t = 1..Len(t)
      /\ s \o t \in Seq(MessageIds) /\ Len(s \o t) = Len(s) + Len(t)
      /\ DOMAIN (s \o t) = 1..(Len(s) + Len(t))
  BY LenProperties, ConcatProperties
<1>2. \A i \in 1..(Len(s) + Len(t)) :
         (s \o t)[i] = IF i <= Len(s) THEN s[i] ELSE t[i - Len(s)]
  BY ConcatProperties
<1>3. \A i \in 1..(Len(s) + Len(t)) :
         \/ i \in 1..Len(s) /\ i <= Len(s)
         \/ i - Len(s) \in 1..Len(t) /\ ~(i <= Len(s))
  BY <1>1
<1>4. \A i \in DOMAIN (s \o t) : (s \o t)[i] \in Ids(s) \cup Ids(t)
  BY <1>1, <1>2, <1>3 DEF Ids
<1>5. \A i \in 1..Len(s) : i \in DOMAIN (s \o t) /\ (s \o t)[i] = s[i]
  BY <1>1, <1>2
<1>6. \A i \in 1..Len(t) : Len(s) + i \in DOMAIN (s \o t) /\ (s \o t)[Len(s) + i] = t[i]
  <2>. TAKE i \in 1..Len(t)
  <2>1. /\ Len(s) + i \in 1..(Len(s) + Len(t)) /\ ~(Len(s) + i <= Len(s))
        /\ (Len(s) + i) - Len(s) = i
    BY <1>1
  <2>. QED  BY <1>1, <1>2, <2>1
<1>7. Ids(s \o t) = Ids(s) \cup Ids(t)
  <2>1. Ids(s \o t) \subseteq Ids(s) \cup Ids(t)
    BY <1>4 DEF Ids
  <2>2. Ids(s) \subseteq Ids(s \o t)
    BY <1>1, <1>5 DEF Ids
  <2>3. Ids(t) \subseteq Ids(s \o t)
    BY <1>1, <1>6 DEF Ids
  <2>. QED  BY <2>1, <2>2, <2>3
<1>8. Descending(s \o t)
  <2>1. SUFFICES ASSUME NEW i \in DOMAIN (s \o t), NEW j \in DOMAIN (s \o t), i < j
                 PROVE  (s \o t)[i] > (s \o t)[j]
    BY DEF Descending
  <2>2. i \in Nat /\ j \in Nat
    BY <1>1
  <2>3. CASE j \in 1..Len(s)
    <3>1. i \in 1..Len(s)
      BY <1>1, <2>1, <2>2, <2>3
    <3>. QED  BY <1>1, <1>5, <2>1, <2>3, <3>1 DEF Descending
  <2>4. CASE i \in 1..Len(s) /\ j \notin 1..Len(s)
    <3>1. j - Len(s) \in 1..Len(t) /\ (s \o t)[j] = t[j - Len(s)] /\ (s \o t)[i] = s[i]
      BY <1>1, <1>2, <1>3, <1>5, <2>4
    <3>2. s[i] \in Ids(s) /\ t[j - Len(s)] \in Ids(t)
      BY <1>1, <2>4, <3>1 DEF Ids
    <3>. QED  BY <3>1, <3>2
  <2>5. CASE i \notin 1..Len(s) /\ j \notin 1..Len(s)
    <3>1. /\ i - Len(s) \in 1..Len(t) /\ (s \o t)[i] = t[i - Len(s)]
          /\ j - Len(s) \in 1..Len(t) /\ (s \o t)[j] = t[j - Len(s)]
      BY <1>1, <1>2, <1>3, <2>5
    <3>2. i - Len(s) < j - Len(s)
      BY <1>1, <2>1, <2>2
    <3>. QED  BY <1>1, <3>1, <3>2 DEF Descending
  <2>. QED  BY <2>3, <2>4, <2>5
<1>. QED  BY <1>7, <1>8 DEF Lists

\* messages.json is the workfile turned round.
LEMMA ReversedList ==
    ASSUME NEW s \in Seq(MessageIds), Descending(s)
    PROVE  /\ Ids(Reverse(s)) = Ids(s)
           /\ \A i, j \in DOMAIN Reverse(s) : i < j => Reverse(s)[i] < Reverse(s)[j]
<1>1. Len(s) \in Nat /\ DOMAIN s = 1..Len(s) /\ \A i \in DOMAIN s : s[i] \in MessageIds
  BY LenProperties, ElementOfSeq
<1>2. DOMAIN Reverse(s) = 1..Len(s)
  BY <1>1 DEF Reverse
<1>3. \A i \in 1..Len(s) : (Len(s) - i) + 1 \in 1..Len(s)
                           /\ Reverse(s)[i] = s[(Len(s) - i) + 1]
  BY <1>1 DEF Reverse
<1>4. Ids(Reverse(s)) \subseteq Ids(s)
  BY <1>1, <1>2, <1>3 DEF Ids
<1>5. ASSUME NEW i \in 1..Len(s) PROVE s[i] \in Ids(Reverse(s))
  <2>1. (Len(s) - i) + 1 \in 1..Len(s) /\ (Len(s) - ((Len(s) - i) + 1)) + 1 = i
    BY <1>1
  <2>2. Reverse(s)[(Len(s) - i) + 1] = s[i]
    BY <1>3, <2>1
  <2>. QED  BY <1>2, <2>1, <2>2 DEF Ids
<1>6. Ids(s) \subseteq Ids(Reverse(s))
  BY <1>1, <1>5 DEF Ids
<1>7. ASSUME NEW i \in 1..Len(s), NEW j \in 1..Len(s), i < j
      PROVE  Reverse(s)[i] < Reverse(s)[j]
  <2>1. (Len(s) - j) + 1 < (Len(s) - i) + 1
    BY <1>1, <1>7
  <2>2. s[(Len(s) - j) + 1] > s[(Len(s) - i) + 1]
    BY <1>1, <1>3, <2>1 DEF Descending
  <2>3. s[(Len(s) - j) + 1] \in Nat /\ s[(Len(s) - i) + 1] \in Nat
    BY <1>1, <1>3, IdsAreNat
  <2>. QED  BY <1>3, <2>2, <2>3
<1>. QED  BY <1>2, <1>4, <1>6, <1>7

\* The kinds of step of a task, by what they do to the files: apart from the
\* workfile; with its lines kept; closing it; and the four below.
Apart(w) == /\ {pc[w], pc'[w]} \cap Buffering = {} /\ pc'[w] # "complete"
            /\ CloseWorkfile(w) \/ UNCHANGED workfile
            /\ archive' = archive /\ job'[w].buf \in {<<>>, job[w].buf}
Keeps(w) == /\ {pc[w], pc'[w]} \subseteq Buffering \ {"persist"}
            /\ UNCHANGED <<workfile, archive, linked>> /\ job'[w].buf = job[w].buf
Closes(w) == /\ pc[w] \in Buffering /\ pc'[w] \notin Buffering \cup {"complete"}
             /\ CloseWorkfile(w) /\ job'[w].buf = <<>>
             /\ pc[w] = "persist" => PersistFails(w)

\* Raising and ending empty the buffer.
LEMMA LeavesBuffer ==
    ASSUME TypeOK, NEW w \in Workers, Raise(w) \/ EndTask(w)
    PROVE  /\ pc'[w] \in {"idle", "raise"} /\ job'[w].buf = <<>>
           /\ Raise(w) => CloseWorkfile(w)
<1>1. job \in [Workers -> Jobs] /\ job[w] \in Jobs
  BY DEF TypeOK
<1>2. CASE Raise(w)
  <2>1. job'[w] = [job[w] EXCEPT !.buf = <<>>]
    BY <1>1, <1>2 DEF Raise
  <2>2. job'[w].buf = <<>>
    BY <1>1, <2>1 DEF Jobs
  <2>. QED  BY <1>2, <2>2, RaiseFrame DEF Raise
<1>3. CASE EndTask(w)
  <2>1. job'[w].buf = <<>>
    BY <1>1, <1>3 DEF EndTask, NoJob
  <2>. QED  BY <1>3, <2>1, EndTaskFrame, RaiseFrame DEF Raise
<1>. QED  BY <1>2, <1>3

\* Every step of a task is of one of these kinds.
LEMMA FileKinds ==
    ASSUME TypeOK, NEW w \in Workers, RunTask(w)
    PROVE  \/ Apart(w) \/ Keeps(w) \/ Closes(w) \/ OpenWorkfile(w)
           \/ FetchBatch(w) \/ PersistBatch(w) \/ Assemble(w) \/ Complete(w)
<1>. USE DEF diskVars
<1>0. job \in [Workers -> Jobs] /\ pc \in [Workers -> Steps] /\ job[w] \in Jobs
  BY DEF TypeOK
<1>a. ASSUME pc[w] \notin Buffering, Raise(w) \/ (EndTask(w) /\ UNCHANGED diskVars)
      PROVE  Apart(w)
  <2>1. /\ pc'[w] \in {"idle", "raise"} /\ job'[w].buf = <<>>
        /\ CloseWorkfile(w) \/ UNCHANGED workfile
    BY <1>a, LeavesBuffer
  <2>2. archive' = archive
    BY <1>a DEF Raise, CloseWorkfile
  <2>. QED  BY <1>a, <2>1, <2>2 DEF Apart, Buffering
<1>b. ASSUME pc[w] \in Buffering, Raise(w) \/ (EndTask(w) /\ CloseWorkfile(w)),
             pc[w] = "persist" => PersistFails(w)
      PROVE  Closes(w)
  <2>1. /\ pc'[w] \in {"idle", "raise"} /\ job'[w].buf = <<>> /\ CloseWorkfile(w)
    BY <1>b, LeavesBuffer
  <2>. QED  BY <1>b, <2>1 DEF Closes, Buffering
<1>c. ASSUME NEW step, Goto(w, step), job' = job, pc[w] \notin Buffering, UNCHANGED diskVars,
             step \notin Buffering, step # "complete"
      PROVE  Apart(w)
  <2>1. pc'[w] = step
    BY <1>0, <1>c, GotoFrame
  <2>. QED  BY <1>c, <2>1 DEF Apart
<1>d. ASSUME NEW step, Goto(w, step), job' = job, pc[w] \in Buffering \ {"persist"},
             UNCHANGED diskVars, step \in Buffering \ {"persist"}
      PROVE  Keeps(w)
  <2>1. pc'[w] = step
    BY <1>0, <1>d, GotoFrame
  <2>. QED  BY <1>d, <2>1 DEF Keeps
<1>1. CASE TakeTask(w)
  BY <1>1, <1>c DEF TakeTask, Buffering
<1>2. CASE LoadExport(w)
  <2>1. CASE EndTask(w)
    BY <1>2, <1>a, <2>1 DEF LoadExport, Buffering
  <2>2. CASE Goto(w, "mark") /\ job' = [job EXCEPT ![w] = CopyOfRow]
    <3>1. job'[w] = CopyOfRow /\ pc'[w] = "mark"
      BY <1>0, <2>2, GotoFrame
    <3>2. job'[w].buf = <<>>
      BY <3>1 DEF CopyOfRow, NoJob
    <3>. QED  BY <1>2, <3>1, <3>2 DEF LoadExport, Apart, Buffering
  <2>. QED  BY <1>2, <2>1, <2>2 DEF LoadExport
<1>3. CASE MarkRunning(w)
  <2>1. CASE EndTask(w)
    BY <1>3, <1>a, <2>1 DEF MarkRunning, Buffering
  <2>2. CASE Goto(w, "prepare") /\ job' = job
    BY <1>3, <1>c, <2>2 DEF MarkRunning, Buffering
  <2>. QED  BY <1>3, <2>1, <2>2 DEF MarkRunning
<1>4. CASE PrepareDir(w)
  BY <1>4, <1>c DEF PrepareDir, Buffering
<1>5. CASE PrepareFails(w)
  BY <1>5, <1>a DEF PrepareFails, Buffering
<1>6. CASE FetchEnd(w)
  <2>1. pc'[w] = "lastCheckpoint"
    BY <1>0, <1>6, GotoFrame DEF FetchEnd
  <2>2. job'[w] = [job[w] EXCEPT !.buf = <<>>]
    BY <1>0, <1>6 DEF FetchEnd
  <2>3. job'[w].buf = <<>>
    BY <1>0, <2>2 DEF Jobs
  <2>. QED  BY <1>6, <2>1, <2>3 DEF FetchEnd, Closes, Buffering
<1>7. CASE FloodWait(w) \/ NetworkError(w) \/ AccessRevoked(w)
  <2>1. pc[w] = "fetch"
    BY <1>7 DEF FloodWait, NetworkError, AccessRevoked
  <2>2. CASE Raise(w)
    BY <1>b, <2>1, <2>2 DEF Buffering
  <2>3. CASE /\ UNCHANGED <<pc, diskVars>>
             /\ \/ job' = [job EXCEPT ![w].floods = @ + 1]
                \/ job' = [job EXCEPT ![w].tries = @ + 1]
    <3>1. job'[w].buf = job[w].buf
      BY <1>0, <2>3 DEF Jobs
    <3>. QED  BY <2>1, <2>3, <3>1 DEF Keeps, Buffering
  <2>. QED  BY <1>7, <2>2, <2>3 DEF FloodWait, NetworkError, AccessRevoked
<1>8. CASE PersistFails(w)
  BY <1>8, <1>b DEF PersistFails, Buffering
<1>9. CASE DownloadBatch(w)
  <2>1. PICK n \in {0, SinceCheckpoint(w)}, step \in {"fetch", "checkpoint"} :
           job' = [job EXCEPT ![w].page = <<>>, ![w].since = n] /\ Goto(w, step)
    BY <1>9 DEF DownloadBatch
  <2>2. pc[w] = "download" /\ pc'[w] = step
    BY <1>0, <1>9, <2>1, GotoFrame DEF DownloadBatch
  <2>3. job'[w] = [job[w] EXCEPT !.page = <<>>, !.since = n]
    BY <1>0, <2>1
  <2>4. job'[w].buf = job[w].buf
    BY <1>0, <2>3 DEF Jobs
  <2>. QED  BY <1>9, <2>2, <2>4 DEF DownloadBatch, Keeps, Buffering
<1>10. CASE BatchCheckpoint(w)
  <2>0. pc[w] = "checkpoint"
    BY <1>10 DEF BatchCheckpoint
  <2>1. CASE Raise(w) \/ (EndTask(w) /\ CloseWorkfile(w))
    BY <1>b, <2>0, <2>1 DEF Buffering
  <2>2. CASE Goto(w, "poll") /\ UNCHANGED <<diskVars, job>>
    BY <1>d, <2>0, <2>2 DEF Buffering
  <2>. QED  BY <1>10, <2>1, <2>2 DEF BatchCheckpoint, Checkpoint
<1>11. CASE PollStatus(w)
  <2>0. pc[w] = "poll"
    BY <1>11 DEF PollStatus
  <2>1. CASE EndTask(w) /\ CloseWorkfile(w)
    BY <1>b, <2>0, <2>1 DEF Buffering
  <2>2. CASE Goto(w, "fetch") /\ UNCHANGED <<diskVars, job>>
    BY <1>d, <2>0, <2>2 DEF Buffering
  <2>. QED  BY <1>11, <2>1, <2>2 DEF PollStatus
<1>12. CASE LastCheckpoint(w)
  <2>0. pc[w] = "lastCheckpoint"
    BY <1>12 DEF LastCheckpoint
  <2>1. CASE Raise(w)
    BY <1>a, <2>0, <2>1 DEF Buffering
  <2>2. CASE EndTask(w) /\ CloseWorkfile(w)
    <3>1. /\ pc'[w] = "idle" /\ job'[w].buf = <<>>
      BY <2>2, LeavesBuffer, EndTaskFrame
    <3>. QED  BY <2>0, <2>2, <3>1 DEF Apart, Buffering, CloseWorkfile
  <2>3. CASE Goto(w, "assemble") /\ UNCHANGED <<diskVars, job>>
    BY <1>c, <2>0, <2>3 DEF Buffering
  <2>. QED  BY <1>12, <2>1, <2>2, <2>3 DEF LastCheckpoint, Checkpoint
<1>13. CASE MarkFailed(w)
  BY <1>13, <1>a DEF MarkFailed, Buffering
<1>. QED  BY <1>1, <1>2, <1>3, <1>4, <1>5, <1>6, <1>7, <1>8, <1>9, <1>10, <1>11, <1>12,
             <1>13
     DEF RunTask

\* A page that is about to be committed is never in the ledger already.
LEMMA PageIsNew ==
    ASSUME TypeOK, SerialInv, NEW w \in Workers, pc[w] = "persist"
    PROVE  Ids(job[w].page) \cap ledger = {}
<1>1. SUFFICES ASSUME NEW m \in Ids(job[w].page), m \in ledger
               PROVE  FALSE
  OBVIOUS
<1>2. status # "deleted"
  BY <1>1 DEF SerialInv
<1>3. m \in Below(rowOffset)
  BY <1>1, <1>2 DEF SerialInv, SerialTask, PageInHand
<1>4. rowOffset \in Nat /\ m \in Nat /\ rowOffset # 0 /\ rowOffset <= m
  BY <1>1, IdsAreNat DEF TypeOK, SerialInv, CheckpointExact
<1>. QED  BY <1>3, <1>4 DEF Below

\* The lines of a page go on below those of the ledger.
LEMMA FetchLists ==
    ASSUME TypeOK, SerialInv, status # "deleted", NEW w \in Workers, pc[w] = "fetch",
           Lists(workfile \o job[w].buf, ledger),
           NEW p \in Pages(job[w].off), p # <<>>
    PROVE  Lists(workfile \o (job[w].buf \o p), ledger \cup Ids(p))
<1>1. job[w].off = rowOffset
  BY DEF SerialInv, SerialTask, Loaded, CopySteps
<1>2. p \in Seq(MessageIds) /\ Descending(p) /\ Ids(p) \subseteq Below(rowOffset)
  BY <1>1, FetchedPage
<1>3. workfile \in Seq(MessageIds) /\ job[w].buf \in Seq(MessageIds)
  BY BufferType DEF TypeOK
<1>4. PICK s \in Seq(MessageIds) : s = workfile \o job[w].buf
  BY <1>3, ConcatProperties
<1>5. Descending(s) /\ Ids(s) = ledger
  BY <1>4 DEF Lists
<1>6. \A m \in ledger, n \in Ids(p) : m > n
  <2>. SUFFICES ASSUME NEW m \in ledger, NEW n \in Ids(p) PROVE m > n
    OBVIOUS
  <2>1. m \in Nat /\ rowOffset \in Nat /\ rowOffset # 0 /\ rowOffset <= m
    <3>1. ledger \subseteq MessageIds /\ rowOffset \in Nat
      BY DEF TypeOK
    <3>2. rowOffset \in ledger /\ rowOffset <= m
      BY DEF SerialInv, CheckpointExact
    <3>3. m \in MessageIds /\ rowOffset \in MessageIds
      BY ONLY <3>1, <3>2, m \in ledger
    <3>4. m \in Nat /\ rowOffset > 0
      BY ONLY <3>3, IdsAreNat
    <3>. QED  BY ONLY <3>1, <3>2, <3>4
  <2>2. n \in MessageIds /\ (rowOffset = 0 \/ n < rowOffset)
    BY <1>2 DEF Below, TypeOK
  <2>. QED  BY <2>1, <2>2, IdsAreNat
<1>7. Lists(s \o p, ledger \cup Ids(p))
  BY <1>2, <1>5, <1>6, ListsConcat
<1>8. s \o p = workfile \o (job[w].buf \o p)
  <2>1. (workfile \o job[w].buf) \o p = workfile \o (job[w].buf \o p)
    <3>1. /\ workfile \in Seq(MessageIds) /\ job[w].buf \in Seq(MessageIds)
          /\ p \in Seq(MessageIds)
      BY <1>2, <1>3
    <3>2. PICK a \in Seq(MessageIds), b \in Seq(MessageIds), c \in Seq(MessageIds) :
             a = workfile /\ b = job[w].buf /\ c = p
      BY ONLY <3>1
    <3>3. (a \o b) \o c = a \o (b \o c)
      BY ONLY a \in Seq(MessageIds), b \in Seq(MessageIds), c \in Seq(MessageIds), SMT
    <3>. QED  BY ONLY <3>2, <3>3
  <2>. QED  BY ONLY <1>4, <2>1
<1>. QED  BY <1>7, <1>8

\* A step of a task keeps the directory in order.
LEMMA TaskFileInv ==
    ASSUME TypeOK, OneTask, OneTask', SerialInv, Unspent, FaultFree, FileInv,
           NEW w \in Workers, RunTask(w)
    PROVE  FileInv'
<1>1. /\ \A v \in Workers \ {w} : pc'[v] = pc[v] /\ job'[v] = job[v] /\ pc'[v] = "idle"
      /\ request' = request
      /\ status' = "deleted" <=> status = "deleted"
      /\ status' = "completed" => status = "completed" \/ pc[w] = "complete"
  BY TaskKinds, OthersIdle DEF TaskFrame
<1>2. ~PersistBatch(w) => ledger' = ledger
  BY TaskKinds DEF Leaves, Loads, Moves, FetchBatch, ledgerVars
<1>3. job[w].buf \in Seq(MessageIds) /\ workfile \in Seq(MessageIds)
  BY BufferType DEF TypeOK
<1>4. pc[w] \notin Buffering => job[w].buf = <<>>
  BY DEF FileInv
<1>5. "idle" \notin Buffering /\ "persist" \in Buffering
  BY DEF Buffering
\* What remains to be shown of the task that moves.
<1>6. ASSUME pc'[w] \notin Buffering => job'[w].buf = <<>>,
             status # "deleted" /\ request.op # "purge" =>
                /\ TaskDirectory(w)'
                /\ pc'[w] \notin Buffering => Lists(workfile', ledger')
                /\ status' = "completed" \/ pc'[w] = "complete" => ArchiveExact'
      PROVE  FileInv'
  <2>1. \A v \in Workers : pc'[v] \notin Buffering => job'[v].buf = <<>>
    BY <1>1, <1>6 DEF FileInv
  <2>2. ASSUME status' # "deleted", request'.op # "purge"
        PROVE  /\ \A v \in Workers : TaskDirectory(v)'
               /\ (\A v \in Workers : pc'[v] \notin Buffering) => Lists(workfile, ledger)'
               /\ status' = "completed" \/ (\E v \in Workers : pc'[v] = "complete")
                     => ArchiveExact'
    <3>1. \A v \in Workers \ {w} : TaskDirectory(v)'
      BY <1>1, <1>5 DEF TaskDirectory
    <3>2. Lists(workfile, ledger)' <=> Lists(workfile', ledger')
      BY DEF Lists
    <3>. QED  BY <1>1, <1>6, <2>2, <3>1, <3>2
  <2>. QED  BY <2>1, <2>2 DEF FileInv
\* What is known of it.
<1>7. ASSUME status # "deleted", request.op # "purge"
      PROVE  /\ TaskDirectory(w)
             /\ pc[w] \notin Buffering => Lists(workfile, ledger)
             /\ status = "completed" \/ pc[w] = "complete" => ArchiveExact
  <2>1. pc[w] \notin Buffering => \A v \in Workers : pc[v] \notin Buffering
    BY <1>1, <1>5
  <2>. QED  BY <1>7, <2>1 DEF FileInv
<1>8. ASSUME archive' = archive, ledger' = ledger, pc'[w] # "complete",
             status # "deleted", request.op # "purge"
      PROVE  status' = "completed" \/ pc'[w] = "complete" => ArchiveExact'
  BY <1>1, <1>7, <1>8 DEF ArchiveExact, Ids
<1>9. CASE Apart(w)
  <2>1. /\ pc[w] \notin Buffering /\ pc'[w] \notin Buffering /\ pc'[w] # "complete"
        /\ archive' = archive /\ job'[w].buf = <<>>
    BY <1>4, <1>9 DEF Apart
  <2>2. workfile' = workfile
    <3>1. workfile \o <<>> = workfile
      BY <1>3, ConcatEmptySeq
    <3>. QED  BY <1>4, <1>9, <2>1, <3>1 DEF Apart, CloseWorkfile, Appended
  <2>3. ledger' = ledger
    BY <1>2, <1>5, <2>1 DEF PersistBatch
  <2>4. TaskDirectory(w)'
    BY <2>1 DEF TaskDirectory
  <2>. QED  BY <1>6, <1>7, <1>8, <2>1, <2>2, <2>3, <2>4
<1>10. CASE Keeps(w)
  <2>1. /\ pc[w] \in Buffering /\ pc[w] # "persist" /\ pc'[w] \in Buffering
        /\ pc'[w] # "persist" /\ pc'[w] # "complete"
        /\ workfile' = workfile /\ archive' = archive /\ linked' = linked
        /\ job'[w].buf = job[w].buf
    BY <1>10 DEF Keeps, Buffering
  <2>2. ledger' = ledger
    BY <1>2, <2>1 DEF PersistBatch
  <2>3. TaskDirectory(w) => TaskDirectory(w)'
    BY <2>1, <2>2 DEF TaskDirectory, Lists, Ids, Descending
  <2>. QED  BY <1>6, <1>7, <1>8, <2>1, <2>2, <2>3
<1>11. CASE Closes(w)
  <2>1. /\ pc[w] \in Buffering /\ pc'[w] \notin Buffering /\ pc'[w] # "complete"
        /\ archive' = archive /\ job'[w].buf = <<>> /\ CloseWorkfile(w)
    BY <1>11 DEF Closes, CloseWorkfile
  <2>2. ASSUME status # "deleted" PROVE pc[w] # "persist"
    <3>1. SUFFICES ASSUME pc[w] = "persist" PROVE FALSE
      OBVIOUS
    <3>2. PersistFails(w) /\ Ids(job[w].page) \cap ledger = {}
      BY <1>11, <3>1, PageIsNew DEF Closes
    <3>3. Spend("dbError")
      BY <2>2, <3>2 DEF PersistFails
    <3>. QED  BY <3>3, SpendUnspent DEF FaultFree, EventKinds
  <2>3. ASSUME status # "deleted", request.op # "purge"
        PROVE  ledger' = ledger /\ Lists(workfile', ledger')
    <3>1. pc[w] # "persist" /\ TaskDirectory(w)
      BY <1>7, <2>2, <2>3
    <3>2. ledger' = ledger
      BY <1>2, <3>1 DEF PersistBatch
    <3>3. w \in linked /\ Lists(workfile \o job[w].buf, ledger)
      BY <2>1, <3>1 DEF TaskDirectory
    <3>4. workfile' = workfile \o job[w].buf
      BY <2>1, <3>3 DEF CloseWorkfile, Appended
    <3>. QED  BY <3>2, <3>3, <3>4
  <2>4. TaskDirectory(w)'
    BY <2>1 DEF TaskDirectory
  <2>. QED  BY <1>6, <1>8, <2>1, <2>3, <2>4
<1>12. CASE OpenWorkfile(w)
  <2>1. /\ pc[w] = "open" /\ pc'[w] = "fetch" /\ job' = job /\ archive' = archive
        /\ workfile' = workfile /\ w \in linked' /\ ledger' = ledger
    BY <1>12, GotoFrame DEF OpenWorkfile, TypeOK, ledgerVars
  <2>2. job[w].buf = <<>> /\ pc[w] \notin Buffering /\ pc'[w] \in Buffering
    BY <1>4, <2>1 DEF Buffering
  <2>3. workfile \o <<>> = workfile
    BY <1>3, ConcatEmptySeq
  <2>4. Lists(workfile, ledger) => TaskDirectory(w)'
    BY <2>1, <2>2, <2>3 DEF TaskDirectory
  <2>. QED  BY <1>6, <1>7, <1>8, <2>1, <2>2, <2>4
<1>13. CASE FetchBatch(w)
  <2>1. /\ pc[w] = "fetch" /\ pc'[w] = "persist"
        /\ UNCHANGED <<workfile, archive, linked, ledger>>
    BY <1>13, GotoFrame DEF FetchBatch, TypeOK, ledgerVars, diskVars
  <2>2. PICK p \in Pages(job[w].off) :
           p # <<>> /\ job'[w].page = p /\ job'[w].buf = job[w].buf \o p
    BY <1>13, FetchEffect
  <2>3. ASSUME status # "deleted", TaskDirectory(w) PROVE TaskDirectory(w)'
    <3>1. w \in linked /\ Lists(workfile \o job[w].buf, ledger)
      BY <2>1, <2>3 DEF TaskDirectory, Buffering
    <3>2. Lists(workfile \o (job[w].buf \o p), ledger \cup Ids(p))
      BY <2>1, <2>2, <2>3, <3>1, FetchLists
    <3>3. Lists(workfile' \o job'[w].buf, ledger' \cup Ids(job'[w].page))
      BY <2>1, <2>2, <3>2
    <3>. QED  BY <2>1, <3>1, <3>3 DEF TaskDirectory, Lists, Ids
  <2>4. pc'[w] \in Buffering
    BY <2>1 DEF Buffering
  <2>. QED  BY <1>6, <1>7, <1>8, <2>1, <2>3, <2>4
<1>14. CASE PersistBatch(w)
  <2>1. /\ pc[w] = "persist" /\ pc'[w] = "download" /\ status # "deleted"
        /\ UNCHANGED <<status, workfile, archive, linked, job>>
        /\ ledger' = ledger \cup Ids(job[w].page)
    BY <1>14, GotoFrame DEF PersistBatch, TypeOK, diskVars
  <2>2. status' # "completed"
    BY <2>1 DEF SerialInv, SerialTask
  <2>3. pc'[w] \in Buffering
    BY <2>1 DEF Buffering
  <2>4. TaskDirectory(w) => TaskDirectory(w)'
    BY <2>1, <2>3, <1>5 DEF TaskDirectory, Lists, Ids, Descending
  <2>. QED  BY <1>6, <1>7, <2>1, <2>2, <2>3, <2>4
<1>15. CASE Assemble(w)
  <2>1. /\ pc[w] = "assemble" /\ UNCHANGED <<workfile, job, ledger, status>>
        /\ \/ archive' = Reverse(workfile) /\ pc'[w] = "complete"
           \/ pc'[w] = "raise"
    BY <1>15, GotoFrame DEF Assemble, TypeOK, ledgerVars, rowVars
  <2>2. pc[w] \notin Buffering /\ pc'[w] \notin Buffering
    BY <2>1 DEF Buffering
  <2>3. ASSUME status # "deleted", request.op # "purge"
        PROVE  /\ Lists(workfile', ledger')
               /\ status' = "completed" \/ pc'[w] = "complete" => ArchiveExact'
    <3>1. Lists(workfile, ledger)
      BY <1>7, <2>2, <2>3
    <3>2. status # "completed"
      BY <2>1, <2>3 DEF SerialInv, SerialTask, Loaded
    <3>3. ASSUME archive' = Reverse(workfile) PROVE ArchiveExact'
      <4>1. /\ Ids(Reverse(workfile)) = ledger
            /\ \A i, j \in DOMAIN Reverse(workfile) :
                  i < j => Reverse(workfile)[i] < Reverse(workfile)[j]
        BY <1>3, <3>1, ReversedList DEF Lists
      <4>. QED  BY <2>1, <3>3, <4>1 DEF ArchiveExact, Ids
    <3>. QED  BY <2>1, <3>1, <3>2, <3>3
  <2>4. TaskDirectory(w)'
    BY <2>2 DEF TaskDirectory
  <2>5. job'[w].buf = <<>>
    BY <1>4, <2>1, <2>2
  <2>. QED  BY <1>6, <2>3, <2>4, <2>5
<1>16. CASE Complete(w)
  <2>2. pc'[w] \in {"idle", "raise"} /\ job'[w].buf = <<>>
    BY <1>16, LeavesBuffer DEF Complete
  <2>3. pc[w] \notin Buffering /\ pc'[w] \notin Buffering
    BY <1>16, <2>2 DEF Complete, Buffering
  <2>4. ledger' = ledger
    BY <1>16 DEF Complete, ledgerVars
  <2>5. status # "deleted" => workfile' = workfile /\ archive' = archive
    BY <1>16 DEF Complete, diskVars
  <2>6. TaskDirectory(w)'
    BY <2>3 DEF TaskDirectory
  <2>. QED  BY <1>6, <1>7, <1>8, <2>2, <2>3, <2>4, <2>5, <2>6
<1>. QED  BY <1>9, <1>10, <1>11, <1>12, <1>13, <1>14, <1>15, <1>16, FileKinds

\* A request, an event or a lost message.
LEMMA OtherFileInv ==
    ASSUME TypeOK, SerialInv, FileInv, Aside \/ PurgeRow
    PROVE  FileInv'
<1>1. CASE PurgeRow
  BY <1>1 DEF PurgeRow, FileInv, taskVars
<1>2. CASE Aside /\ RemoveTree
  BY <1>2 DEF Aside, RemoveTree, FileInv, taskVars
<1>3. CASE Aside /\ ~RemoveTree
  <2>1. /\ UNCHANGED <<pc, job, ledger, workfile, archive, linked>>
        /\ status' = "deleted" <=> status = "deleted"
        /\ status' = "completed" => status = "completed"
        /\ request.op = "purge" => request'.op = "purge"
    BY <1>3 DEF Aside, taskVars, diskVars, ledgerVars
  <2>2. ASSUME NEW w \in Workers, TaskDirectory(w) PROVE TaskDirectory(w)'
    <3>1. /\ pc'[w] = pc[w] /\ job'[w].page = job[w].page /\ linked' = linked
          /\ workfile' \o job'[w].buf = workfile \o job[w].buf /\ ledger' = ledger
      BY <2>1
    <3>. QED  BY <2>2, <3>1 DEF TaskDirectory, Lists, Ids, Descending
  <2>3. /\ Lists(workfile, ledger) => Lists(workfile, ledger)'
        /\ ArchiveExact => ArchiveExact'
    BY <2>1 DEF Lists, Ids, Descending, ArchiveExact
  <2>4. \A w \in Workers : pc'[w] \notin Buffering => job'[w].buf = <<>>
    BY <2>1 DEF FileInv
  <2>5. ASSUME status' # "deleted", request'.op # "purge"
        PROVE  /\ \A w \in Workers : TaskDirectory(w)'
               /\ (\A w \in Workers : pc'[w] \notin Buffering) => Lists(workfile, ledger)'
               /\ status' = "completed" \/ (\E w \in Workers : pc'[w] = "complete")
                     => ArchiveExact'
    <3>1. status # "deleted" /\ request.op # "purge"
      BY <2>1, <2>5
    <3>. QED  BY <2>1, <2>2, <2>3, <3>1 DEF FileInv
  <2>. QED  BY <2>4, <2>5 DEF FileInv
<1>. QED  BY <1>1, <1>2, <1>3

\* As long as no process dies and no transaction is lost, messages.json of a
\* completed export is the ledger, each message once and oldest first, however
\* often the export was throttled, failed, was paused or taken up again.
THEOREM ArchiveIsExact == FaultFree /\ Spec /\ []OneTask => []ArchiveMatchesLedger
<1>1. Init => FileInv
  BY DEF Init, FileInv, Buffering, TaskDirectory, Lists, Ids, Descending, NoJob
<1>2. FaultFree /\ TypeOK /\ OneTask /\ OneTask' /\ SerialInv /\ Unspent /\ FileInv
         /\ [Next]_vars => FileInv'
  <2> SUFFICES ASSUME FaultFree, TypeOK, OneTask, OneTask', SerialInv, Unspent, FileInv,
                      [Next]_vars
               PROVE  FileInv'
    OBVIOUS
  <2>1. CASE UNCHANGED vars
    BY <2>1 DEF vars, rowVars, ledgerVars, diskVars, taskVars, FileInv, TaskDirectory,
                Lists, Ids, Descending, ArchiveExact
  <2>2. ASSUME NEW w \in Workers, RunTask(w) PROVE FileInv'
    BY <2>2, TaskFileInv
  <2>3. CASE Next /\ ~\E w \in Workers : RunTask(w)
    <3>1. Aside \/ PurgeRow
      BY <2>3, OtherKinds, NobodyLost DEF Next, SerialInv, FaultFree
    <3>. QED  BY <3>1, OtherFileInv
  <2>. QED  BY <2>1, <2>2, <2>3
<1>3. FileInv => ArchiveMatchesLedger
  BY DEF FileInv, ArchiveMatchesLedger, ArchiveExact
<1>4. FaultFree => FaultFree'
  BY DEF FaultFree, LossFree
<1>. QED  BY <1>1, <1>2, <1>3, <1>4, SerialInvariant, BudgetKept, TypeCorrect, PTL DEF Spec
=============================================================================
