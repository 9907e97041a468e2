------------------------- MODULE ExportEngineProofs -------------------------
(***************************************************************************)
(* What holds of ExportEngine for every chat, every number of workers and  *)
(* every budget of losses, redeliveries and requests.                      *)
(***************************************************************************)
EXTENDS ExportEngine, FiniteSetTheorems, SequenceTheorems, TLAPS

-----------------------------------------------------------------------------
(* Lemmas about pages and counts. *)

\* A page is a sequence of message ids of the chat below the offset.
LEMMA PageType ==
    ASSUME NEW o \in Nat, chat \subseteq MessageIds, NEW p \in Pages(o)
    PROVE  /\ p \in Seq(MessageIds)
           /\ Ids(p) \subseteq Below(o)
           /\ p # <<>> => p[Len(p)] \in Ids(p)
<1>1. PICK n \in 0..BatchSize : p \in [1..n -> Below(o)]
  BY DEF Pages
<1>2. n \in Nat /\ Below(o) \subseteq MessageIds
  BY BatchAssumption DEF Below
<1>3. p \in Seq(MessageIds) /\ Len(p) = n /\ DOMAIN p = 1..n
  BY <1>1, <1>2
<1>4. Ids(p) \subseteq Below(o)
  BY <1>1 DEF Ids
<1>5. p # <<>> => n \in 1..n
  BY <1>2, <1>3
<1>. QED  BY <1>3, <1>4, <1>5 DEF Ids

\* The number of media files of a page is a number.
LEMMA MediaCount ==
    ASSUME NEW S \in SUBSET MessageIds
    PROVE  Cardinality(S \cap Media) \in Nat
<1>1. IsFiniteSet(MessageIds)
  BY ChatAssumption, FS_Interval DEF MessageIds
<1>2. IsFiniteSet(S \cap Media)
  BY <1>1, FS_Subset, S \cap Media \subseteq MessageIds
<1>. QED  BY <1>2, FS_CardinalityType

\* Spending an event keeps the budget well-typed.
LEMMA SpendType ==
    ASSUME NEW kind \in EventKinds, budget \in [EventKinds -> Nat], Spend(kind)
    PROVE  budget' \in [EventKinds -> Nat]
BY DEF Spend

\* The values a variable is reset to have its type.
LEMMA ResetType ==
    /\ <<>> \in Seq(MessageIds)
    /\ NoJob \in Jobs
    /\ NoRequest \in Requests
<1>1. <<>> \in Seq(MessageIds)
  OBVIOUS
<1>. QED  BY <1>1 DEF NoJob, Jobs, NoRequest, Requests, Statuses

\* A job stays a job when its worker's buffer or page is replaced.
LEMMA BufferType ==
    ASSUME NEW w \in Workers, job \in [Workers -> Jobs]
    PROVE  /\ [job EXCEPT ![w].buf = <<>>] \in [Workers -> Jobs]
           /\ job[w].buf \in Seq(MessageIds) /\ job[w].page \in Seq(MessageIds)
BY ResetType DEF Jobs

\* Closing the workfile appends buffered message ids, or nothing.
LEMMA CloseType ==
    ASSUME TypeOK, NEW w \in Workers, CloseWorkfile(w)
    PROVE  /\ workfile' \in Seq(MessageIds) /\ linked' \subseteq Workers
           /\ disk' = disk /\ archive' = archive
<1>1. job[w].buf \in Seq(MessageIds) /\ workfile \in Seq(MessageIds)
  BY BufferType DEF TypeOK
<1>2. workfile \o job[w].buf \in Seq(MessageIds)
  BY <1>1, ConcatProperties
<1>. QED  BY <1>1, <1>2 DEF TypeOK, CloseWorkfile, Appended

\* Going to a step, raising and ending a task keep the task's variables typed.
LEMMA GotoType ==
    ASSUME TypeOK, NEW w \in Workers, NEW step \in Steps, Goto(w, step)
    PROVE  pc' \in [Workers -> Steps]
BY DEF TypeOK, Goto

LEMMA RaiseType ==
    ASSUME TypeOK, NEW w \in Workers, Raise(w)
    PROVE  /\ pc' \in [Workers -> Steps] /\ job' \in [Workers -> Jobs]
           /\ workfile' \in Seq(MessageIds) /\ linked' \subseteq Workers
           /\ disk' = disk /\ archive' = archive
<1>1. job' \in [Workers -> Jobs]
  BY BufferType DEF TypeOK, Raise
<1>2. pc' \in [Workers -> Steps]
  BY GotoType DEF Raise, Steps
<1>. QED  BY <1>1, <1>2, CloseType DEF Raise

LEMMA EndTaskType ==
    ASSUME TypeOK, NEW w \in Workers, EndTask(w)
    PROVE  /\ pc' \in [Workers -> Steps] /\ job' \in [Workers -> Jobs]
           /\ held' \subseteq Workers /\ ready' = ready
<1>1. job' \in [Workers -> Jobs]
  BY ResetType DEF TypeOK, EndTask
<1>2. pc' \in [Workers -> Steps]
  BY GotoType DEF EndTask, Steps
<1>. QED  BY <1>1, <1>2 DEF TypeOK, EndTask

\* The copy of the row a task starts from.
LEMMA LoadType ==
    ASSUME TypeOK, NEW w \in Workers, LoadExport(w)
    PROVE  job' \in [Workers -> Jobs]
<1>1. CASE EndTask(w)
  BY <1>1, EndTaskType
<1>2. CASE job' = [job EXCEPT ![w] = CopyOfRow]
  <2>1. /\ status \in Statuses /\ rowOffset \in Nat /\ rowCount \in Nat
        /\ rowFiles \in Nat /\ job \in [Workers -> Jobs]
    BY DEF TypeOK
  <2>2. CopyOfRow \in Jobs
    BY <2>1, ResetType DEF CopyOfRow, Jobs
  <2>. QED  BY <1>2, <2>1, <2>2
<1>. QED  BY <1>1, <1>2 DEF LoadExport

\* A fetched page extends the copy.
LEMMA FetchType ==
    ASSUME TypeOK, NEW w \in Workers, FetchBatch(w)
    PROVE  job' \in [Workers -> Jobs]
<1>1. PICK p \in Pages(job[w].off) :
         /\ p # <<>>
         /\ job' = [job EXCEPT ![w].off = p[Len(p)],
                               ![w].cnt = @ + Len(p),
                               ![w].files = @ + Cardinality(Ids(p) \cap Media),
                               ![w].page = p,
                               ![w].buf = @ \o p,
                               ![w].floods = 0, ![w].tries = 0]
  BY DEF FetchBatch
<1>2. job \in [Workers -> Jobs] /\ job[w] \in Jobs /\ chat \subseteq MessageIds
  BY DEF TypeOK
<1>3. /\ job[w].off \in Nat /\ job[w].cnt \in Nat /\ job[w].files \in Nat
      /\ job[w].buf \in Seq(MessageIds)
  BY <1>2 DEF Jobs
<1>4. /\ p \in Seq(MessageIds) /\ Ids(p) \subseteq MessageIds
      /\ p[Len(p)] \in MessageIds
  BY <1>1, <1>2, <1>3, PageType DEF Below
<1>5. /\ job[w].files + Cardinality(Ids(p) \cap Media) \in Nat
      /\ job[w].cnt + Len(p) \in Nat
  <2>1. Cardinality(Ids(p) \cap Media) \in Nat
    BY <1>4, MediaCount
  <2>2. Len(p) \in Nat
    BY <1>4, LenProperties
  <2>. QED  BY <1>3, <2>1, <2>2
<1>6. job[w].buf \o p \in Seq(MessageIds)
  BY <1>3, <1>4, ConcatProperties
<1>7. p[Len(p)] \in Nat
  <2>1. \A m \in MessageIds : m \in Nat
    BY ONLY ChatAssumption DEF MessageIds
  <2>. QED  BY ONLY <1>4, <2>1
<1>8. PICK off \in Nat, cnt \in Nat, files \in Nat, buf \in Seq(MessageIds) :
         /\ off = p[Len(p)] /\ cnt = job[w].cnt + Len(p) /\ buf = job[w].buf \o p
         /\ files = job[w].files + Cardinality(Ids(p) \cap Media)
  BY ONLY <1>5, <1>6, <1>7
<1>9. PICK row \in Jobs :
         row = [job[w] EXCEPT !.off = off, !.cnt = cnt, !.files = files, !.page = p,
                              !.buf = buf, !.floods = 0, !.tries = 0]
  BY <1>2, <1>4 DEF Jobs
<1>10. job' = [job EXCEPT ![w] = row]
  BY ONLY <1>1, <1>2, <1>8, <1>9, w \in Workers
<1>. QED  BY ONLY <1>2, <1>9, <1>10, w \in Workers, row \in Jobs

\* The counter of messages since the last checkpoint.
LEMMA DownloadType ==
    ASSUME TypeOK, NEW w \in Workers, DownloadBatch(w)
    PROVE  job' \in [Workers -> Jobs] /\ pc' \in [Workers -> Steps]
<1>1. job \in [Workers -> Jobs] /\ job[w] \in Jobs
  BY DEF TypeOK
<1>2. SinceCheckpoint(w) \in Nat
  BY <1>1, LenProperties DEF Jobs, SinceCheckpoint
<1>3. PICK n \in {0, SinceCheckpoint(w)}, step \in {"fetch", "checkpoint"} :
         job' = [job EXCEPT ![w].page = <<>>, ![w].since = n] /\ Goto(w, step)
  BY DEF DownloadBatch
<1>4. [job[w] EXCEPT !.page = <<>>, !.since = n] \in Jobs
  <2>1. n \in Nat /\ <<>> \in Seq(MessageIds)
    BY <1>2, ResetType
  <2>. QED  BY <1>1, <2>1 DEF Jobs
<1>5. job' = [job EXCEPT ![w] = [job[w] EXCEPT !.page = <<>>, !.since = n]]
  BY <1>1, <1>3
<1>6. job' \in [Workers -> Jobs]
  BY <1>1, <1>4, <1>5
<1>. QED  BY <1>3, <1>6, GotoType DEF Steps

LEMMA CheckpointType ==
    ASSUME TypeOK, NEW w \in Workers, NEW next \in Steps, Checkpoint(w, next)
    PROVE  /\ status' \in Statuses /\ rowCount' \in Nat /\ rowOffset' \in Nat
           /\ rowFiles' \in Nat /\ rowDir' \in BOOLEAN
           /\ pc' \in [Workers -> Steps] /\ job' \in [Workers -> Jobs]
           /\ workfile' \in Seq(MessageIds) /\ linked' \subseteq Workers
           /\ disk' = disk /\ archive' = archive
           /\ held' \subseteq Workers /\ ready' = ready
<1>1. job \in [Workers -> Jobs] /\ job[w] \in Jobs
  BY DEF TypeOK
<1>2. job[w].cnt \in Nat /\ job[w].off \in Nat /\ job[w].files \in Nat
  BY <1>1 DEF Jobs
<1>3. CASE Raise(w) /\ UNCHANGED <<rowVars, queueVars>>
  BY <1>3, RaiseType DEF TypeOK, rowVars, queueVars
<1>4. CASE /\ rowCount' = job[w].cnt /\ rowOffset' = job[w].off
           /\ rowFiles' = job[w].files
           /\ UNCHANGED <<status, rowDir>>
           /\ CloseWorkfile(w) /\ EndTask(w)
  BY <1>2, <1>4, CloseType, EndTaskType DEF TypeOK
<1>5. CASE /\ rowCount' = job[w].cnt /\ rowOffset' = job[w].off
           /\ rowFiles' = job[w].files
           /\ UNCHANGED <<status, rowDir>>
           /\ Goto(w, next) /\ UNCHANGED <<diskVars, queueVars, job>>
  BY <1>2, <1>5, GotoType DEF TypeOK, diskVars, queueVars
<1>. QED  BY <1>3, <1>4, <1>5 DEF Checkpoint, WriteOffset, WriteFiles

LEMMA DieType ==
    ASSUME TypeOK, NEW w \in Workers, Die(w)
    PROVE  /\ pc' \in [Workers -> Steps] /\ job' \in [Workers -> Jobs]
           /\ workfile' \in Seq(MessageIds) /\ linked' \subseteq Workers
<1>1. job[w].buf \in Seq(MessageIds) /\ workfile \in Seq(MessageIds)
  BY BufferType DEF TypeOK
<1>2. \A n \in 0..Len(job[w].buf) :
         workfile \o SubSeq(job[w].buf, 1, n) \in Seq(MessageIds)
  BY <1>1, SubSeqProperties, ConcatProperties, LenProperties
<1>3. workfile' \in Seq(MessageIds)
  BY <1>1, <1>2 DEF Die
<1>4. job' \in [Workers -> Jobs]
  BY ResetType DEF TypeOK, Die
<1>. QED  BY <1>3, <1>4 DEF TypeOK, Die, Steps

-----------------------------------------------------------------------------
(* Type correctness. *)

\* Every variable keeps its type, whatever the chat and the workers.
THEOREM TypeCorrect == Spec => []TypeOK
<1>1. Init => TypeOK
  <2> SUFFICES ASSUME Init PROVE TypeOK
    OBVIOUS
  <2>1. request \in Requests
    BY DEF Init, Requests, NoRequest, Statuses
  <2>2. pc \in [Workers -> Steps] /\ job \in [Workers -> Jobs]
    BY ResetType DEF Init, Steps
  <2>. QED  BY <2>1, <2>2, ChatAssumption, BudgetAssumption, ResetType
       DEF Init, TypeOK, Statuses
<1>2. TypeOK /\ [Next]_vars => TypeOK'
  <2> SUFFICES ASSUME TypeOK, [Next]_vars PROVE TypeOK'
    OBVIOUS
  <2> USE DEF rowVars, ledgerVars, diskVars, queueVars, taskVars
  <2>1. CASE UNCHANGED vars
    BY <2>1 DEF TypeOK, vars
  <2>2. ASSUME NEW op \in {"pause", "cancel", "resume", "delete"}, ReceiveRequest(op)
        PROVE  TypeOK'
    <3>1. budget' \in [EventKinds -> Nat]
      BY <2>2, SpendType DEF ReceiveRequest, TypeOK, EventKinds
    <3>2. request' \in Requests
      BY <2>2 DEF ReceiveRequest, TypeOK, Requests
    <3>. QED  BY <2>2, <3>1, <3>2 DEF TypeOK, ReceiveRequest
  <2>3. CASE HandleRequest
    <3>1. CASE PauseExport
      BY <3>1, ResetType DEF TypeOK, PauseExport, PauseOrCancel, CommitStatus, Statuses
    <3>2. CASE CancelExport
      BY <3>2, ResetType DEF TypeOK, CancelExport, PauseOrCancel, CommitStatus, Statuses
    <3>3. CASE ResumeExport
      <4>1. request' \in Requests
        BY <3>3, ResetType DEF TypeOK, ResumeExport, Requests
      <4>. QED  BY <3>3, <4>1 DEF TypeOK, ResumeExport, CommitStatus, Statuses
    <3>4. CASE Enqueue
      <4>1. budget' \in [EventKinds -> Nat]
        BY <3>4, SpendType DEF Enqueue, TypeOK, EventKinds
      <4>. QED  BY <3>4, <4>1, ResetType DEF TypeOK, Enqueue
    <3>5. CASE DeleteExport
      <4>1. request' \in Requests
        BY <3>5 DEF TypeOK, DeleteExport, Requests
      <4>. QED  BY <3>5, <4>1 DEF TypeOK, DeleteExport, Statuses
    <3>6. CASE RemoveTree
      <4>1. request' \in Requests
        BY <3>6 DEF TypeOK, RemoveTree, Requests
      <4>. QED  BY <3>6, <4>1, ResetType DEF TypeOK, RemoveTree
    <3>7. CASE PurgeRow
      BY <3>7, ResetType DEF TypeOK, PurgeRow, DeleteLedger, Statuses
    <3>. QED  BY <2>3, <3>1, <3>2, <3>3, <3>4, <3>5, <3>6, <3>7 DEF HandleRequest
  <2>4. CASE NewMessage
    <3>1. budget' \in [EventKinds -> Nat]
      BY <2>4, SpendType DEF NewMessage, TypeOK, EventKinds
    <3>. QED  BY <2>4, <3>1 DEF TypeOK, NewMessage
  <2>5. ASSUME NEW w \in Workers, WorkerLoss(w) \/ ChildLoss(w) PROVE TypeOK'
    <3>1. budget' \in [EventKinds -> Nat]
      BY <2>5, SpendType DEF WorkerLoss, ChildLoss, TypeOK, EventKinds
    <3>2. Die(w)
      BY <2>5 DEF WorkerLoss, ChildLoss
    <3>3. ready' \in Nat /\ held' \subseteq Workers
      BY <2>5 DEF TypeOK, WorkerLoss, ChildLoss
    <3>. QED  BY DieType, <3>1, <3>2, <3>3 DEF TypeOK, Die
  <2>6. ASSUME NEW w \in Workers, Redeliver(w) PROVE TypeOK'
    <3>1. budget' \in [EventKinds -> Nat]
      BY <2>6, SpendType DEF Redeliver, TypeOK, EventKinds
    <3>. QED  BY <2>6, <3>1 DEF TypeOK, Redeliver
  <2>7. ASSUME NEW w \in Workers, RunTask(w) PROVE TypeOK'
    <3>1. CASE TakeTask(w)
      BY <3>1, GotoType DEF TypeOK, TakeTask, Steps
    <3>2. CASE LoadExport(w)
      <4>1. job' \in [Workers -> Jobs]
        BY <3>2, LoadType
      <4>. QED  BY <3>2, <4>1, EndTaskType, GotoType DEF TypeOK, LoadExport, Steps
    <3>3. CASE MarkRunning(w)
      BY <3>3, EndTaskType, GotoType DEF TypeOK, MarkRunning, Steps, Statuses
    <3>4. CASE PrepareDir(w)
      BY <3>4, GotoType DEF TypeOK, PrepareDir, Steps
    <3>5. CASE PrepareFails(w) \/ AccessRevoked(w)
      BY <3>5, RaiseType DEF TypeOK, PrepareFails, AccessRevoked
    <3>6. CASE OpenWorkfile(w)
      BY <3>6, GotoType DEF TypeOK, OpenWorkfile, Steps
    <3>7. CASE FetchBatch(w)
      <4>1. pc' \in [Workers -> Steps]
        BY <3>7, GotoType DEF FetchBatch, Steps
      <4>. QED  BY <3>7, <4>1, FetchType DEF TypeOK, FetchBatch
    <3>8. CASE FetchEnd(w)
      <4>1. job' \in [Workers -> Jobs] /\ pc' \in [Workers -> Steps]
        BY <3>8, BufferType, GotoType DEF FetchEnd, Steps, TypeOK
      <4>. QED  BY <3>8, <4>1, CloseType DEF TypeOK, FetchEnd
    <3>9. CASE FloodWait(w)
      <4>1. CASE Raise(w)
        BY <3>9, <4>1, RaiseType DEF TypeOK, FloodWait
      <4>2. CASE job' = [job EXCEPT ![w].floods = @ + 1] /\ UNCHANGED <<pc, diskVars>>
        <5>1. job \in [Workers -> Jobs] /\ job[w] \in Jobs
          BY DEF TypeOK
        <5>2. job[w].floods + 1 \in Nat
          BY <5>1 DEF Jobs
        <5>3. [job[w] EXCEPT !.floods = @ + 1] \in Jobs
          BY <5>1, <5>2 DEF Jobs
        <5>4. job' \in [Workers -> Jobs]
          BY <4>2, <5>1, <5>3
        <5>. QED  BY <3>9, <4>2, <5>4 DEF TypeOK, FloodWait
      <4>. QED  BY <3>9, <4>1, <4>2 DEF FloodWait
    <3>10. CASE NetworkError(w)
      <4>1. CASE Raise(w)
        BY <3>10, <4>1, RaiseType DEF TypeOK, NetworkError
      <4>2. CASE job' = [job EXCEPT ![w].tries = @ + 1] /\ UNCHANGED <<pc, diskVars>>
        <5>1. job \in [Workers -> Jobs] /\ job[w] \in Jobs
          BY DEF TypeOK
        <5>2. job[w].tries + 1 \in Nat
          BY <5>1 DEF Jobs
        <5>3. [job[w] EXCEPT !.tries = @ + 1] \in Jobs
          BY <5>1, <5>2 DEF Jobs
        <5>4. job' \in [Workers -> Jobs]
          BY <4>2, <5>1, <5>3
        <5>. QED  BY <3>10, <4>2, <5>4 DEF TypeOK, NetworkError
      <4>. QED  BY <3>10, <4>1, <4>2 DEF NetworkError
    <3>11. CASE PersistBatch(w)
      <4>1. Ids(job[w].page) \subseteq MessageIds
        <5>1. job[w].page \in Seq(MessageIds)
          BY BufferType DEF TypeOK
        <5>. QED  BY <5>1 DEF Ids
      <4>2. job[w].cnt \in Nat /\ job[w].off \in Nat
        BY DEF TypeOK, Jobs
      <4>3. ledger' \subseteq MessageIds /\ pending' \subseteq ledger'
        BY <3>11, <4>1 DEF TypeOK, PersistBatch
      <4>4. pc' \in [Workers -> Steps]
        BY <3>11, GotoType DEF PersistBatch, Steps
      <4>. QED  BY <3>11, <4>2, <4>3, <4>4 DEF TypeOK, PersistBatch, WriteOffset
    <3>12. CASE PersistFails(w)
      <4>1. budget' \in [EventKinds -> Nat]
        BY <3>12, SpendType DEF PersistFails, TypeOK, EventKinds
      <4>. QED  BY <3>12, <4>1, RaiseType DEF TypeOK, PersistFails
    <3>13. CASE DownloadBatch(w)
      <4>1. budget' \in [EventKinds -> Nat]
        BY <3>13, SpendType DEF DownloadBatch, TypeOK, EventKinds
      <4>2. pending' \subseteq pending /\ disk' \subseteq disk \cup {"media"}
        BY <3>13 DEF DownloadBatch
      <4>. QED  BY <3>13, <4>1, <4>2, DownloadType DEF TypeOK, DownloadBatch
    <3>14. CASE BatchCheckpoint(w)
      BY <3>14, CheckpointType DEF TypeOK, BatchCheckpoint, Steps
    <3>15. CASE PollStatus(w)
      BY <3>15, CloseType, EndTaskType, GotoType DEF TypeOK, PollStatus, Steps
    <3>16. CASE LastCheckpoint(w)
      BY <3>16, CheckpointType DEF TypeOK, LastCheckpoint, Steps
    <3>17. CASE Assemble(w)
      <4>1. Reverse(workfile) \in Seq(MessageIds)
        BY LenProperties DEF TypeOK, Reverse
      <4>. QED  BY <3>17, <4>1, GotoType, ResetType DEF TypeOK, Assemble, Steps
    <3>18. CASE Complete(w)
      BY <3>18, RaiseType, EndTaskType DEF TypeOK, Complete, Statuses
    <3>19. CASE MarkFailed(w)
      BY <3>19, EndTaskType DEF TypeOK, MarkFailed, FailedStatus, Statuses
    <3>. QED  BY <2>7, <3>1, <3>2, <3>3, <3>4, <3>5, <3>6, <3>7, <3>8, <3>9, <3>10,
                 <3>11, <3>12, <3>13, <3>14, <3>15, <3>16, <3>17, <3>18, <3>19
         DEF RunTask
  <2>. QED  BY <2>1, <2>2, <2>3, <2>4, <2>5, <2>6, <2>7 DEF Next, Environment
<1>. QED  BY <1>1, <1>2, PTL DEF Spec

-----------------------------------------------------------------------------
(* Coverage: no checkpoint passes over a message. *)

\* A fetched page continues the coverage of the offset it was fetched from.
LEMMA PageCovers ==
    ASSUME TypeOK, OldMessages \subseteq chat, NEW o \in Nat, Covered(o),
           NEW p \in Pages(o), p # <<>>
    PROVE  \A m \in OldMessages : m >= p[Len(p)] => m \in ledger \cup Ids(p)
<1> SUFFICES ASSUME NEW m \in OldMessages, m >= p[Len(p)], m \notin ledger
             PROVE  m \in Ids(p)
  OBVIOUS
<1>1. m \in Nat /\ m \in chat
  BY ChatAssumption DEF MessageIds
<1>2. m \in Below(o)
  BY <1>1 DEF Below, Covered
<1>3. p[Len(p)] \in Nat
  <2>1. \A k \in MessageIds : k \in Nat
    BY ONLY ChatAssumption DEF MessageIds
  <2>2. p[Len(p)] \in Below(o) /\ chat \subseteq MessageIds
    BY PageType DEF TypeOK
  <2>. QED  BY <2>1, <2>2 DEF Below
<1>4. m \in Ids(p) \/ (Len(p) = BatchSize /\ m < p[BatchSize])
  BY <1>2 DEF Pages, IsPage
<1>. QED  BY <1>1, <1>3, <1>4

\* An empty page means that nothing is left below the offset.
LEMMA EmptyPageCovers ==
    ASSUME OldMessages \subseteq chat, NEW o \in Nat, Covered(o), <<>> \in Pages(o)
    PROVE  OldMessages \subseteq ledger
<1> SUFFICES ASSUME NEW m \in OldMessages, m \notin ledger PROVE FALSE
  OBVIOUS
<1>1. m \in Nat /\ m \in chat
  BY ChatAssumption DEF MessageIds
<1>2. m \in Below(o)
  BY <1>1 DEF Below, Covered
<1>3. m \in Ids(<<>>) \/ Len(<<>>) = BatchSize
  BY <1>2 DEF Pages, IsPage
<1>. QED  BY <1>3, BatchAssumption DEF Ids

\* Coverage survives when the ledger only grows.
LEMMA CoveredGrows ==
    ASSUME NEW o, Covered(o), ledger \subseteq ledger'
    PROVE  Covered(o)'
BY DEF Covered

\* A step of one task that leaves the ledger and the row's offset alone keeps
\* the invariant when it keeps that task covered.
LEMMA OneTaskStep ==
    ASSUME CoverageInv, NEW w \in Workers, TaskCovered(w)',
           pc \in [Workers -> Steps], job \in [Workers -> Jobs],
           pc' \in [Workers -> Steps], job' \in [Workers -> Jobs],
           \A v \in Workers \ {w} : pc'[v] = pc[v] /\ job'[v] = job[v],
           chat' = chat, ledger' = ledger, request' = request,
           status = "deleted" <=> status' = "deleted",
           CheckpointCovers', CompletedIsComplete'
    PROVE  CoverageInv'
<1>1. \A v \in Workers : TaskCovered(v) => TaskCovered(v)'
  <2> SUFFICES ASSUME NEW v \in Workers, TaskCovered(v) PROVE TaskCovered(v)'
    OBVIOUS
  <2>1. CASE v = w
    BY <2>1
  <2>2. CASE v # w
    BY <2>2 DEF TaskCovered, Covered
  <2>. QED  BY <2>1, <2>2
<1>. QED  BY <1>1 DEF CoverageInv

\* A step that touches no task and keeps chat, ledger and offset.
LEMMA NoTaskStep ==
    ASSUME CoverageInv, UNCHANGED <<ledger, rowOffset, taskVars>>, chat \subseteq chat',
           status # "deleted", status' # "deleted", status' # "completed" \/ status' = status
    PROVE  CoverageInv'
BY DEF CoverageInv, CheckpointCovers, CompletedIsComplete, TaskCovered, Covered, taskVars

\* The ways a task's control moves, with the other tasks left alone.
LEMMA GotoFrame ==
    ASSUME NEW w \in Workers, NEW step, pc \in [Workers -> Steps], Goto(w, step)
    PROVE  pc'[w] = step /\ \A v \in Workers \ {w} : pc'[v] = pc[v]
BY DEF Goto

LEMMA RaiseFrame ==
    ASSUME TypeOK, NEW w \in Workers, Raise(w)
    PROVE  /\ pc'[w] = "raise"
           /\ \A v \in Workers \ {w} : pc'[v] = pc[v] /\ job'[v] = job[v]
BY GotoFrame DEF TypeOK, Raise

LEMMA EndTaskFrame ==
    ASSUME TypeOK, NEW w \in Workers, EndTask(w)
    PROVE  /\ pc'[w] = "idle"
           /\ \A v \in Workers \ {w} : pc'[v] = pc[v] /\ job'[v] = job[v]
BY GotoFrame DEF TypeOK, EndTask

\* A task that ends or raises carries no copy any more.
LEMMA LeaveStep ==
    ASSUME TypeOK, TypeOK', CoverageInv, NEW w \in Workers, Raise(w) \/ EndTask(w),
           chat' = chat, ledger' = ledger, request' = request,
           status = "deleted" <=> status' = "deleted",
           CheckpointCovers', CompletedIsComplete'
    PROVE  CoverageInv'
<1>1. pc'[w] \in {"raise", "idle"}
  BY RaiseFrame, EndTaskFrame
<1>2. TaskCovered(w)'
  BY <1>1 DEF TaskCovered, CopySteps
<1>3. \A v \in Workers \ {w} : pc'[v] = pc[v] /\ job'[v] = job[v]
  BY RaiseFrame, EndTaskFrame
<1>. QED  BY <1>2, <1>3, OneTaskStep DEF TypeOK

\* _checkpoint writes back a copy that is covered.
LEMMA CheckpointStep ==
    ASSUME TypeOK, TypeOK', CoverageInv, NEW w \in Workers, NEW next,
           Checkpoint(w, next), chat' = chat, ledger' = ledger, request' = request,
           \/ pc[w] = "checkpoint" /\ next = "poll"
           \/ pc[w] = "lastCheckpoint" /\ next = "assemble"
    PROVE  CoverageInv'
<1>1. CASE status = "deleted"
  <2>1. Raise(w) /\ UNCHANGED <<status, rowOffset>>
    BY <1>1 DEF Checkpoint, rowVars
  <2>2. CheckpointCovers' /\ CompletedIsComplete'
    BY <2>1 DEF CoverageInv, CheckpointCovers, CompletedIsComplete, Covered
  <2>. QED  BY <2>1, <2>2, LeaveStep
<1>2. CASE status # "deleted"
  <2>1. TaskCovered(w) /\ CompletedIsComplete
    BY <1>2 DEF CoverageInv
  <2>2. status' = status /\ rowOffset' = job[w].off
    BY <1>2 DEF Checkpoint, WriteOffset
  <2>3. Covered(job[w].off)
    BY <2>1 DEF TaskCovered, CopySteps
  <2>4. CheckpointCovers' /\ CompletedIsComplete'
    BY <2>1, <2>2, <2>3 DEF CheckpointCovers, CompletedIsComplete, Covered
  <2>5. CASE EndTask(w)
    BY <2>2, <2>4, <2>5, LeaveStep
  <2>6. CASE Goto(w, next) /\ job' = job
    <3>1. pc'[w] = next /\ \A v \in Workers \ {w} : pc'[v] = pc[v]
      BY <2>6, GotoFrame DEF TypeOK
    <3>2. TaskCovered(w)'
      BY <2>1, <2>3, <2>6, <3>1 DEF TaskCovered, Covered
    <3>. QED  BY <2>2, <2>4, <2>6, <3>1, <3>2, OneTaskStep DEF TypeOK
  <2>. QED  BY <1>2, <2>5, <2>6 DEF Checkpoint
<1>. QED  BY <1>1, <1>2

-----------------------------------------------------------------------------
\* The invariant is kept by every step of a task.
LEMMA TaskCoverage ==
    ASSUME TypeOK, TypeOK', CoverageInv, NEW w \in Workers, RunTask(w)
    PROVE  CoverageInv'
<1> USE DEF rowVars, ledgerVars, queueVars, taskVars
<1>a. CheckpointCovers /\ CompletedIsComplete
  BY DEF CoverageInv
\* Steps that leave the row's offset, the ledger and the chat alone.
<1>b. ASSUME UNCHANGED <<ledger, rowOffset>>, status' # "completed" \/ status' = status
      PROVE  CheckpointCovers' /\ CompletedIsComplete'
  BY <1>a, <1>b DEF CheckpointCovers, CompletedIsComplete, Covered
<1>1. CASE TakeTask(w)
  <2>1. pc'[w] = "load" /\ \A v \in Workers \ {w} : pc'[v] = pc[v]
    BY <1>1, GotoFrame DEF TakeTask, TypeOK
  <2>2. TaskCovered(w)'
    BY <2>1 DEF TaskCovered, CopySteps
  <2>. QED  BY <1>1, <1>b, <2>1, <2>2, OneTaskStep DEF TypeOK, TakeTask
<1>2. CASE LoadExport(w)
  <2>1. CASE EndTask(w)
    BY <1>2, <1>b, <2>1, LeaveStep DEF LoadExport
  <2>2. CASE /\ Goto(w, "mark")
             /\ job' = [job EXCEPT ![w] = CopyOfRow]
    <3>1. pc'[w] = "mark" /\ \A v \in Workers \ {w} : pc'[v] = pc[v]
      BY <2>2, GotoFrame DEF TypeOK
    <3>2. CopyOfRow.off = rowOffset
      BY DEF CopyOfRow, NoJob
    <3>3. job'[w].off = rowOffset /\ \A v \in Workers \ {w} : job'[v] = job[v]
      BY <2>2, <3>2 DEF TypeOK
    <3>4. TaskCovered(w)'
      BY <1>2, <1>a, <3>1, <3>3
      DEF TaskCovered, CopySteps, LoadExport, CheckpointCovers, Covered
    <3>. QED  BY <1>2, <1>b, <3>1, <3>3, <3>4, OneTaskStep DEF TypeOK, LoadExport
  <2>. QED  BY <1>2, <2>1, <2>2 DEF LoadExport
<1>3. CASE MarkRunning(w)
  <2>1. CASE EndTask(w)
    BY <1>3, <1>b, <2>1, LeaveStep DEF MarkRunning
  <2>2. CASE status # "deleted" /\ Goto(w, "prepare") /\ job' = job
    <3>1. pc'[w] = "prepare" /\ \A v \in Workers \ {w} : pc'[v] = pc[v]
      BY <2>2, GotoFrame DEF TypeOK
    <3>2. TaskCovered(w)'
      BY <1>3, <2>2, <3>1 DEF CoverageInv, TaskCovered, CopySteps, MarkRunning, Covered
    <3>. QED  BY <1>3, <1>b, <2>2, <3>1, <3>2, OneTaskStep DEF TypeOK, MarkRunning
  <2>. QED  BY <1>3, <2>1, <2>2 DEF MarkRunning
<1>4. CASE PrepareDir(w)
  <2>1. pc'[w] = "open" /\ \A v \in Workers \ {w} : pc'[v] = pc[v]
    BY <1>4, GotoFrame DEF PrepareDir, TypeOK
  <2>2. TaskCovered(w)'
    BY <1>4, <2>1 DEF CoverageInv, TaskCovered, CopySteps, PrepareDir, Covered
  <2>. QED  BY <1>4, <1>b, <2>1, <2>2, OneTaskStep DEF TypeOK, PrepareDir
<1>5. CASE PrepareFails(w) \/ AccessRevoked(w)
  BY <1>5, <1>b, LeaveStep DEF PrepareFails, AccessRevoked
<1>d. CASE status = "deleted" /\ status' = status /\ ledger' = ledger /\ chat' = chat
           /\ rowOffset' = rowOffset /\ request' = request
  BY <1>d, <1>a, <1>b DEF CoverageInv
<1>6. CASE OpenWorkfile(w)
  <2>1. pc'[w] = "fetch" /\ \A v \in Workers \ {w} : pc'[v] = pc[v]
    BY <1>6, GotoFrame DEF OpenWorkfile, TypeOK
  <2>2. CASE status # "deleted"
    <3>1. TaskCovered(w)'
      BY <1>6, <2>1, <2>2 DEF CoverageInv, TaskCovered, CopySteps, OpenWorkfile, Covered
    <3>. QED  BY <1>6, <1>b, <2>1, <3>1, OneTaskStep DEF TypeOK, OpenWorkfile
  <2>. QED  BY <1>6, <1>d, <2>2 DEF OpenWorkfile
<1>7. CASE FetchBatch(w)
  <2>1. PICK p \in Pages(job[w].off) :
           /\ p # <<>>
           /\ job' = [job EXCEPT ![w].off = p[Len(p)],
                                 ![w].cnt = @ + Len(p),
                                 ![w].files = @ + Cardinality(Ids(p) \cap Media),
                                 ![w].page = p,
                                 ![w].buf = @ \o p,
                                 ![w].floods = 0, ![w].tries = 0]
    BY <1>7 DEF FetchBatch
  <2>2. pc[w] = "fetch" /\ pc'[w] = "persist" /\ \A v \in Workers \ {w} : pc'[v] = pc[v]
    BY <1>7, GotoFrame DEF FetchBatch, TypeOK
  <2>3. job[w] \in Jobs /\ job[w].off \in Nat
    BY DEF TypeOK, Jobs
  <2>4. /\ job'[w].off = p[Len(p)] /\ job'[w].page = p
        /\ \A v \in Workers \ {w} : job'[v] = job[v]
    <3>1. job \in [Workers -> Jobs] /\ w \in DOMAIN job
      BY DEF TypeOK
    <3>2. job'[w] = [job[w] EXCEPT !.off = p[Len(p)], !.cnt = @ + Len(p),
                        !.files = @ + Cardinality(Ids(p) \cap Media), !.page = p,
                        !.buf = @ \o p, !.floods = 0, !.tries = 0]
      BY <2>1, <3>1
    <3>3. \A v \in Workers \ {w} : job'[v] = job[v]
      BY <2>1, <3>1, Zenon
    <3>4. {"off", "page"} \subseteq DOMAIN job[w]
      BY <2>3 DEF Jobs
    <3>5. job'[w].off = p[Len(p)] /\ job'[w].page = p
      BY <3>2, <3>4
    <3>. QED  BY <3>3, <3>5
  <2>5. CASE status # "deleted"
    <3>1. OldMessages \subseteq chat /\ Covered(job[w].off)
      BY <2>2, <2>5 DEF CoverageInv, TaskCovered, CopySteps
    <3>2. \A m \in OldMessages : m >= p[Len(p)] => m \in ledger \cup Ids(p)
      BY <2>1, <2>3, <3>1, PageCovers
    <3>3. ledger' = ledger
      BY <1>7 DEF FetchBatch
    <3>4. TaskCovered(w)'
      BY <2>2, <2>4, <3>2, <3>3 DEF TaskCovered, CopySteps
    <3>. QED  BY <1>7, <1>b, <2>2, <2>4, <3>4, OneTaskStep DEF TypeOK, FetchBatch
  <2>. QED  BY <1>7, <1>d, <2>5 DEF FetchBatch
<1>8. CASE FetchEnd(w)
  <2>1. pc[w] = "fetch" /\ pc'[w] = "lastCheckpoint"
        /\ \A v \in Workers \ {w} : pc'[v] = pc[v]
    BY <1>8, GotoFrame DEF FetchEnd, TypeOK
  <2>2. job[w] \in Jobs /\ job[w].off \in Nat
    BY DEF TypeOK, Jobs
  <2>3. job'[w].off = job[w].off /\ \A v \in Workers \ {w} : job'[v] = job[v]
    BY <1>8, <2>2 DEF TypeOK, FetchEnd, Jobs
  <2>4. CASE status # "deleted"
    <3>1. OldMessages \subseteq chat /\ Covered(job[w].off)
      BY <2>1, <2>4 DEF CoverageInv, TaskCovered, CopySteps
    <3>2. OldMessages \subseteq ledger
      BY <1>8, <2>2, <3>1, EmptyPageCovers DEF FetchEnd, LastPage
    <3>3. TaskCovered(w)'
      BY <1>8, <2>1, <2>3, <3>1, <3>2 DEF TaskCovered, CopySteps, FetchEnd, Covered
    <3>. QED  BY <1>8, <1>b, <2>1, <2>3, <3>3, OneTaskStep DEF TypeOK, FetchEnd
  <2>. QED  BY <1>8, <1>d, <2>4 DEF FetchEnd
\* A retry changes two counters of the job that TaskCovered does not read.
<1>e. ASSUME pc' = pc, \A v \in Workers : job'[v].off = job[v].off /\ job'[v].page = job[v].page,
             UNCHANGED <<chat, ledger, rowOffset, status, request>>
      PROVE  CoverageInv'
  BY <1>e DEF CoverageInv, CheckpointCovers, CompletedIsComplete, TaskCovered, Covered
<1>9. CASE FloodWait(w)
  <2>1. CASE Raise(w)
    BY <1>9, <1>b, <2>1, LeaveStep DEF FloodWait
  <2>2. CASE job' = [job EXCEPT ![w].floods = @ + 1] /\ pc' = pc
    <3>1. \A v \in Workers : job'[v].off = job[v].off /\ job'[v].page = job[v].page
      BY <2>2 DEF TypeOK, Jobs
    <3>. QED  BY <1>9, <1>e, <2>2, <3>1 DEF FloodWait
  <2>. QED  BY <1>9, <2>1, <2>2 DEF FloodWait
<1>10. CASE NetworkError(w)
  <2>1. CASE Raise(w)
    BY <1>10, <1>b, <2>1, LeaveStep DEF NetworkError
  <2>2. CASE job' = [job EXCEPT ![w].tries = @ + 1] /\ pc' = pc
    <3>1. \A v \in Workers : job'[v].off = job[v].off /\ job'[v].page = job[v].page
      BY <2>2 DEF TypeOK, Jobs
    <3>. QED  BY <1>10, <1>e, <2>2, <3>1 DEF NetworkError
  <2>. QED  BY <1>10, <2>1, <2>2 DEF NetworkError
<1>11. CASE PersistBatch(w)
  <2>1. pc[w] = "persist" /\ pc'[w] = "download"
        /\ \A v \in Workers \ {w} : pc'[v] = pc[v]
    BY <1>11, GotoFrame DEF PersistBatch, TypeOK
  <2>2. /\ status # "deleted" /\ UNCHANGED <<status, chat, job, request>>
        /\ ledger' = ledger \cup Ids(job[w].page) /\ rowOffset' = job[w].off
    BY <1>11 DEF PersistBatch, WriteOffset
  <2>3. OldMessages \subseteq chat /\ \A v \in Workers : TaskCovered(v)
    BY <2>2 DEF CoverageInv
  <2>4. Covered(job[w].off)'
    BY <2>1, <2>2, <2>3 DEF TaskCovered, Covered
  <2>5. CheckpointCovers' /\ CompletedIsComplete'
    BY <1>a, <2>2, <2>4 DEF CheckpointCovers, CompletedIsComplete, Covered
  <2>6. ASSUME NEW v \in Workers PROVE TaskCovered(v)'
    <3>1. CASE v = w
      BY <2>1, <2>2, <2>4, <3>1 DEF TaskCovered, Covered
    <3>2. CASE v # w
      BY <2>1, <2>2, <2>3, <3>2 DEF TaskCovered, Covered
    <3>. QED  BY <3>1, <3>2
  <2>. QED  BY <2>2, <2>3, <2>5, <2>6 DEF CoverageInv
<1>12. CASE PersistFails(w)
  BY <1>12, <1>b, LeaveStep DEF PersistFails
<1>13. CASE DownloadBatch(w)
  <2>1. pc[w] = "download" /\ pc'[w] \in {"fetch", "checkpoint"}
        /\ \A v \in Workers \ {w} : pc'[v] = pc[v]
    <3>1. PICK step \in {"fetch", "checkpoint"} : Goto(w, step)
      BY <1>13 DEF DownloadBatch
    <3>. QED  BY <1>13, <3>1, GotoFrame DEF DownloadBatch, TypeOK
  <2>2. job'[w].off = job[w].off /\ \A v \in Workers \ {w} : job'[v] = job[v]
    <3>1. PICK n : job' = [job EXCEPT ![w].page = <<>>, ![w].since = n]
      BY <1>13 DEF DownloadBatch
    <3>2. job \in [Workers -> Jobs] /\ w \in DOMAIN job /\ job[w] \in Jobs
      BY DEF TypeOK
    <3>3. \A v \in Workers \ {w} : job'[v] = job[v]
      BY <3>1, <3>2
    <3>4. job'[w] = [job[w] EXCEPT !.page = <<>>, !.since = n]
      BY <3>1, <3>2
    <3>. QED  BY <3>2, <3>3, <3>4 DEF Jobs
  <2>3. CASE status # "deleted"
    <3>1. TaskCovered(w)'
      BY <1>13, <2>1, <2>2, <2>3 DEF CoverageInv, TaskCovered, CopySteps, DownloadBatch, Covered
    <3>. QED  BY <1>13, <1>b, <2>1, <2>2, <3>1, OneTaskStep DEF TypeOK, DownloadBatch
  <2>. QED  BY <1>13, <1>d, <2>3 DEF DownloadBatch
<1>14. CASE BatchCheckpoint(w)
  BY <1>14, CheckpointStep DEF BatchCheckpoint
<1>15. CASE PollStatus(w)
  <2>1. CASE EndTask(w)
    BY <1>15, <1>b, <2>1, LeaveStep DEF PollStatus
  <2>2. CASE Goto(w, "fetch") /\ job' = job
    <3>1. pc[w] = "poll" /\ pc'[w] = "fetch" /\ \A v \in Workers \ {w} : pc'[v] = pc[v]
      BY <1>15, <2>2, GotoFrame DEF PollStatus, TypeOK
    <3>2. CASE status # "deleted"
      <4>1. TaskCovered(w)'
        BY <1>15, <2>2, <3>1, <3>2 DEF CoverageInv, TaskCovered, CopySteps, PollStatus, Covered
      <4>. QED  BY <1>15, <1>b, <2>2, <3>1, <4>1, OneTaskStep DEF TypeOK, PollStatus
    <3>. QED  BY <1>15, <1>d, <3>2 DEF PollStatus
  <2>. QED  BY <1>15, <2>1, <2>2 DEF PollStatus
<1>16. CASE LastCheckpoint(w)
  BY <1>16, CheckpointStep DEF LastCheckpoint
<1>17. CASE Assemble(w)
  <2>1. PICK step \in {"complete", "raise"} : Goto(w, step)
    BY <1>17 DEF Assemble
  <2>2. pc[w] = "assemble" /\ pc'[w] = step /\ \A v \in Workers \ {w} : pc'[v] = pc[v]
    BY <1>17, <2>1, GotoFrame DEF Assemble, TypeOK
  <2>3. CASE status # "deleted"
    <3>1. TaskCovered(w)'
      BY <1>17, <2>1, <2>2, <2>3 DEF CoverageInv, TaskCovered, CopySteps, Assemble
    <3>. QED  BY <1>17, <1>b, <2>2, <3>1, OneTaskStep DEF TypeOK, Assemble
  <2>. QED  BY <1>17, <1>d, <2>3 DEF Assemble
<1>18. CASE Complete(w)
  <2>1. CASE status = "deleted"
    BY <1>18, <1>d, <2>1 DEF Complete
  <2>2. CASE status # "deleted"
    <3>1. EndTask(w) /\ status' = "completed" /\ UNCHANGED <<ledger, rowOffset, chat, request>>
      BY <1>18, <2>2 DEF Complete
    <3>2. OldMessages \subseteq ledger
      BY <1>18, <2>2 DEF CoverageInv, TaskCovered, Complete
    <3>3. CheckpointCovers' /\ CompletedIsComplete'
      BY <1>a, <3>1, <3>2 DEF CheckpointCovers, CompletedIsComplete, Covered
    <3>. QED  BY <2>2, <3>1, <3>3, LeaveStep
  <2>. QED  BY <2>1, <2>2
<1>19. CASE MarkFailed(w)
  BY <1>19, <1>b, LeaveStep DEF MarkFailed, FailedStatus
<1>. QED  BY <1>1, <1>2, <1>3, <1>4, <1>5, <1>6, <1>7, <1>8, <1>9, <1>10, <1>11, <1>12,
             <1>13, <1>14, <1>15, <1>16, <1>17, <1>18, <1>19
     DEF RunTask

\* The invariant is kept by every request and every event of the environment.
LEMMA OtherCoverage ==
    ASSUME TypeOK, TypeOK', CoverageInv,
           \/ \E op \in {"pause", "cancel", "resume", "delete"} : ReceiveRequest(op)
           \/ HandleRequest \/ Environment
    PROVE  CoverageInv'
<1> USE DEF rowVars, ledgerVars, queueVars, taskVars
<1>1. ASSUME NEW op \in {"pause", "cancel", "resume", "delete"}, ReceiveRequest(op)
      PROVE  CoverageInv'
  BY <1>1, NoTaskStep DEF ReceiveRequest
<1>2. CASE HandleRequest
  <2>a. CASE PurgeRow
    BY <2>a DEF PurgeRow, DeleteLedger, CoverageInv, CheckpointCovers, CompletedIsComplete, Covered,
                NoRequest
  <2>b. CASE ~PurgeRow
    <3>1. request.op # "none"
      BY <1>2, <2>b DEF HandleRequest, PauseExport, CancelExport, PauseOrCancel,
                        ResumeExport, Enqueue, DeleteExport, RemoveTree
    <3>2. status # "deleted"
      BY <3>1 DEF CoverageInv
    <3>3. /\ UNCHANGED <<chat, ledger, rowOffset, taskVars>>
          /\ status' \in {status, "paused", "cancelled", "queued"}
      BY <1>2, <2>b DEF HandleRequest, PauseExport, CancelExport, PauseOrCancel,
                  CommitStatus, ResumeExport, Enqueue, DeleteExport, RemoveTree
    <3>. QED  BY <3>2, <3>3, NoTaskStep
  <2>. QED  BY <2>a, <2>b
<1>3. CASE NewMessage
  BY <1>3 DEF NewMessage, CoverageInv, CheckpointCovers, CompletedIsComplete,
              TaskCovered, Covered
<1>4. ASSUME NEW w \in Workers, WorkerLoss(w) \/ ChildLoss(w)
      PROVE  CoverageInv'
  <2>1. Die(w)
    BY <1>4 DEF WorkerLoss, ChildLoss
  <2>2. /\ pc'[w] = "idle"
        /\ \A v \in Workers \ {w} : pc'[v] = pc[v] /\ job'[v] = job[v]
    BY <2>1 DEF Die, TypeOK
  <2>3. TaskCovered(w)'
    BY <2>2 DEF TaskCovered, CopySteps
  <2>4. CheckpointCovers' /\ CompletedIsComplete'
    BY <2>1 DEF Die, CoverageInv, CheckpointCovers, CompletedIsComplete, Covered
  <2>. QED  BY <2>1, <2>2, <2>3, <2>4, OneTaskStep DEF TypeOK, Die
<1>5. ASSUME NEW w \in Workers, Redeliver(w) PROVE CoverageInv'
  BY <1>5 DEF Redeliver, CoverageInv, CheckpointCovers, CompletedIsComplete,
              TaskCovered, Covered
<1>. QED  BY <1>1, <1>2, <1>3, <1>4, <1>5 DEF Environment

\* However many tasks of an export overlap, are lost and are redelivered, every
\* checkpoint, the committed one and every task's copy of it, is covered.
THEOREM CoverageInvariant == Spec => []CoverageInv
<1>1. Init => CoverageInv
  BY DEF Init, CoverageInv, CheckpointCovers, CompletedIsComplete, Covered,
         TaskCovered, CopySteps
<1>2. TypeOK /\ TypeOK' /\ CoverageInv /\ [Next]_vars => CoverageInv'
  <2> SUFFICES ASSUME TypeOK, TypeOK', CoverageInv, [Next]_vars PROVE CoverageInv'
    OBVIOUS
  <2>1. CASE UNCHANGED vars
    BY <2>1 DEF vars, rowVars, ledgerVars, diskVars, queueVars, taskVars, CoverageInv,
                CheckpointCovers, CompletedIsComplete, TaskCovered, Covered
  <2>2. ASSUME NEW w \in Workers, RunTask(w) PROVE CoverageInv'
    BY <2>2, TaskCoverage
  <2>3. CASE Next /\ ~\E w \in Workers : RunTask(w)
    BY <2>3, OtherCoverage DEF Next
  <2>. QED  BY <2>1, <2>2, <2>3
<1>. QED  BY <1>1, <1>2, TypeCorrect, PTL DEF Spec

\* The committed checkpoint never passes over a message, and "completed" means
\* that every message that existed at creation is in the ledger.
THEOREM Coverage == Spec => [](CheckpointCovers /\ CompletedIsComplete)
<1>1. CoverageInv => CheckpointCovers /\ CompletedIsComplete
  BY DEF CoverageInv
<1>. QED  BY <1>1, CoverageInvariant, PTL

\* In particular no status "completed" is a lie, whichever of overlapping tasks
\* wrote it (_finalize).
THEOREM CompletedIsWhole == Spec => []CompletedIsComplete
BY Coverage, PTL

-----------------------------------------------------------------------------
(* The kinds of step of a task. *)

\* The steps at which a task holds a copy of the row and no page to commit.
Loaded == CopySteps \cup {"assemble", "complete"}

\* The row's counters stay, or _checkpoint writes the task's copy of them.
RowKept == UNCHANGED <<rowCount, rowOffset, rowFiles>>
RowWritten(w) ==
    /\ pc[w] \in {"checkpoint", "lastCheckpoint"} /\ status # "deleted"
    /\ rowCount' = job[w].cnt /\ rowOffset' = job[w].off /\ rowFiles' = job[w].files

\* A step that waits, ends or raises; one that reads the row; one that goes on
\* with the same copy, to the end of the chat only when there is no page left.
Leaves(w) == /\ pc'[w] \in {"idle", "load", "raise"}
             /\ ledger' = ledger /\ (RowKept \/ RowWritten(w))
Loads(w) == /\ pc[w] = "load" /\ pc'[w] = "mark" /\ job'[w] = CopyOfRow
            /\ status \notin {"completed", "deleted"} /\ status' = status
            /\ ledger' = ledger /\ RowKept
AtEnd == {"lastCheckpoint", "assemble", "complete"}
Moves(w) == /\ pc[w] \in Loaded /\ pc'[w] \in Loaded
            /\ job'[w].off = job[w].off /\ job'[w].cnt = job[w].cnt
            /\ job'[w].files = job[w].files
            /\ pc'[w] \in AtEnd => \/ pc[w] \in AtEnd
                                   \/ pc[w] = "fetch" /\ LastPage(w)
            /\ status' \in {status, "running"}
            /\ ledger' = ledger /\ (RowKept \/ RowWritten(w))

\* What every step of a task leaves alone.
TaskFrame(w) ==
    /\ \A v \in Workers \ {w} : pc'[v] = pc[v] /\ job'[v] = job[v]
    /\ UNCHANGED <<chat, request>>
    /\ status' = "deleted" <=> status = "deleted"
    /\ status' = "completed" => status = "completed" \/ (pc[w] = "complete" /\ pc'[w] = "idle")

\* A task that keeps its job moves on with the same copy.
LEMMA SameJob ==
    ASSUME TypeOK, NEW w \in Workers, NEW step \in Loaded, Goto(w, step), job' = job
    PROVE  /\ pc'[w] = step
           /\ \A v \in Workers \ {w} : pc'[v] = pc[v] /\ job'[v] = job[v]
           /\ job'[w].off = job[w].off /\ job'[w].cnt = job[w].cnt
           /\ job'[w].files = job[w].files
BY GotoFrame DEF TypeOK

\* Ending and raising.
LEMMA LeavesFrame ==
    ASSUME TypeOK, NEW w \in Workers, Raise(w) \/ EndTask(w)
    PROVE  /\ pc'[w] \in {"idle", "raise"}
           /\ \A v \in Workers \ {w} : pc'[v] = pc[v] /\ job'[v] = job[v]
BY RaiseFrame, EndTaskFrame

\* _checkpoint writes the copy, or finds no row; then the task goes on or ends.
LEMMA CheckpointKinds ==
    ASSUME TypeOK, NEW w \in Workers, NEW next, Checkpoint(w, next),
           UNCHANGED <<chat, ledgerVars, request>>,
           \/ pc[w] = "checkpoint" /\ next = "poll"
           \/ pc[w] = "lastCheckpoint" /\ next = "assemble"
    PROVE  TaskFrame(w) /\ (Leaves(w) \/ Moves(w))
<1>. USE DEF rowVars, ledgerVars, TaskFrame
<1>1. CASE status = "deleted"
  <2>1. Raise(w) /\ UNCHANGED rowVars
    BY <1>1 DEF Checkpoint
  <2>. QED  BY <2>1, LeavesFrame DEF Leaves, RowKept
<1>2. CASE status # "deleted"
  <2>1. RowWritten(w) /\ status' = status
    BY <1>2 DEF Checkpoint, RowWritten, WriteOffset, WriteFiles
  <2>2. CASE EndTask(w)
    BY <2>1, <2>2, LeavesFrame DEF Leaves
  <2>3. CASE Goto(w, next) /\ job' = job
    <3>1. next \in Loaded /\ pc[w] \in Loaded /\ (next \in AtEnd => pc[w] \in AtEnd)
      BY DEF Loaded, CopySteps, AtEnd
    <3>2. /\ pc'[w] = next
          /\ \A v \in Workers \ {w} : pc'[v] = pc[v] /\ job'[v] = job[v]
          /\ job'[w].off = job[w].off /\ job'[w].cnt = job[w].cnt
          /\ job'[w].files = job[w].files
      BY <2>3, <3>1, SameJob
    <3>3. Moves(w)
      BY <2>1, <3>1, <3>2 DEF Moves
    <3>4. next # "idle"
      BY <3>1 DEF Loaded, CopySteps
    <3>. QED  BY <2>1, <3>2, <3>3
  <2>. QED  BY <1>2, <2>2, <2>3 DEF Checkpoint
<1>. QED  BY <1>1, <1>2

\* A page fetched: what the task knows of it.
LEMMA FetchEffect ==
    ASSUME TypeOK, NEW w \in Workers, FetchBatch(w)
    PROVE  \E p \in Pages(job[w].off) :
              /\ p # <<>>
              /\ job'[w].off = p[Len(p)] /\ job'[w].cnt = job[w].cnt + Len(p)
              /\ job'[w].files = job[w].files + Cardinality(Ids(p) \cap Media)
              /\ job'[w].page = p /\ job'[w].buf = job[w].buf \o p
              /\ \A v \in Workers \ {w} : job'[v] = job[v]
<1>1. PICK p \in Pages(job[w].off) :
         /\ p # <<>>
         /\ job' = [job EXCEPT ![w].off = p[Len(p)],
                               ![w].cnt = @ + Len(p),
                               ![w].files = @ + Cardinality(Ids(p) \cap Media),
                               ![w].page = p,
                               ![w].buf = @ \o p,
                               ![w].floods = 0, ![w].tries = 0]
  BY DEF FetchBatch
<1>2. job \in [Workers -> Jobs] /\ w \in DOMAIN job /\ job[w] \in Jobs
  BY DEF TypeOK
<1>3. job'[w] = [job[w] EXCEPT !.off = p[Len(p)], !.cnt = @ + Len(p),
                    !.files = @ + Cardinality(Ids(p) \cap Media), !.page = p,
                    !.buf = @ \o p, !.floods = 0, !.tries = 0]
  BY <1>1, <1>2
<1>4. \A v \in Workers \ {w} : job'[v] = job[v]
  BY <1>1, <1>2, Zenon
<1>5. {"off", "cnt", "files", "page", "buf"} \subseteq DOMAIN job[w]
  BY <1>2 DEF Jobs
<1>6. /\ job'[w].off = p[Len(p)] /\ job'[w].cnt = job[w].cnt + Len(p)
      /\ job'[w].files = job[w].files + Cardinality(Ids(p) \cap Media)
      /\ job'[w].page = p /\ job'[w].buf = job[w].buf \o p
  BY <1>3, <1>5
<1>. QED  BY <1>1, <1>4, <1>6

\* Every step of a task is of one of these kinds, a page fetched or committed.
LEMMA TaskKinds ==
    ASSUME TypeOK, NEW w \in Workers, RunTask(w)
    PROVE  /\ TaskFrame(w)
           /\ \/ Leaves(w) \/ Loads(w) \/ Moves(w)
              \/ FetchBatch(w) \/ PersistBatch(w)
<1>. USE DEF rowVars, ledgerVars, queueVars, RowKept
<1>0. job \in [Workers -> Jobs] /\ pc \in [Workers -> Steps] /\ job[w] \in Jobs
  BY DEF TypeOK
<1>a. {"mark", "prepare", "open", "fetch", "download", "checkpoint", "poll",
       "lastCheckpoint", "assemble", "complete"} = Loaded
  BY DEF Loaded, CopySteps
<1>b. "idle" \notin Loaded /\ "load" \notin Loaded
  BY DEF Loaded, CopySteps
<1>1. CASE TakeTask(w)
  <2>1. pc'[w] = "load" /\ \A v \in Workers \ {w} : pc'[v] = pc[v]
    BY <1>0, <1>1, GotoFrame DEF TakeTask
  <2>. QED  BY <1>1, <2>1 DEF TakeTask, TaskFrame, Leaves
<1>2. CASE LoadExport(w) \/ MarkRunning(w)
  <2>1. CASE EndTask(w)
    BY <1>2, <2>1, LeavesFrame DEF LoadExport, MarkRunning, TaskFrame, Leaves
  <2>2. CASE LoadExport(w) /\ ~EndTask(w)
    <3>1. /\ status \notin {"cancelled", "completed", "deleted"}
          /\ Goto(w, "mark") /\ job' = [job EXCEPT ![w] = CopyOfRow]
      BY <2>2 DEF LoadExport
    <3>2. pc'[w] = "mark" /\ \A v \in Workers \ {w} : pc'[v] = pc[v]
      BY <1>0, <3>1, GotoFrame
    <3>3. job'[w] = CopyOfRow /\ \A v \in Workers \ {w} : job'[v] = job[v]
      BY <1>0, <3>1
    <3>. QED  BY <2>2, <3>1, <3>2, <3>3 DEF LoadExport, TaskFrame, Loads
  <2>3. CASE MarkRunning(w) /\ ~EndTask(w)
    <3>1. /\ pc[w] = "mark" /\ status # "deleted" /\ Goto(w, "prepare") /\ job' = job
          /\ status' \in {status, "running"}
      BY <2>3 DEF MarkRunning
    <3>2. /\ pc'[w] = "prepare"
          /\ \A v \in Workers \ {w} : pc'[v] = pc[v] /\ job'[v] = job[v]
          /\ job'[w].off = job[w].off /\ job'[w].cnt = job[w].cnt
          /\ job'[w].files = job[w].files
      BY <1>a, <3>1, SameJob
    <3>3. Moves(w)
      BY <1>a, <2>3, <3>1, <3>2 DEF MarkRunning, Moves, AtEnd
    <3>. QED  BY <2>3, <3>1, <3>2, <3>3 DEF MarkRunning, TaskFrame
  <2>. QED  BY <1>2, <2>1, <2>2, <2>3
<1>3. CASE PrepareDir(w) \/ OpenWorkfile(w)
  <2>1. PICK step \in {"open", "fetch"} : Goto(w, step)
    BY <1>3 DEF PrepareDir, OpenWorkfile
  <2>2. pc[w] \in {"prepare", "open"} /\ job' = job
    BY <1>3 DEF PrepareDir, OpenWorkfile
  <2>3. /\ pc'[w] = step
        /\ \A v \in Workers \ {w} : pc'[v] = pc[v] /\ job'[v] = job[v]
        /\ job'[w].off = job[w].off /\ job'[w].cnt = job[w].cnt
        /\ job'[w].files = job[w].files
    BY <1>a, <2>1, <2>2, SameJob
  <2>4. Moves(w)
    BY <1>3, <1>a, <2>1, <2>2, <2>3 DEF PrepareDir, OpenWorkfile, Moves, AtEnd
  <2>. QED  BY <1>3, <2>2, <2>3, <2>4 DEF PrepareDir, OpenWorkfile, TaskFrame
<1>4. CASE PrepareFails(w) \/ AccessRevoked(w) \/ PersistFails(w)
  BY <1>4, LeavesFrame DEF PrepareFails, AccessRevoked, PersistFails, TaskFrame, Leaves
<1>5. CASE FetchBatch(w)
  <2>1. pc'[w] = "persist" /\ \A v \in Workers \ {w} : pc'[v] = pc[v]
    BY <1>0, <1>5, GotoFrame DEF FetchBatch
  <2>2. \A v \in Workers \ {w} : job'[v] = job[v]
    BY <1>5, FetchEffect
  <2>. QED  BY <1>5, <2>1, <2>2 DEF FetchBatch, TaskFrame
<1>6. CASE FetchEnd(w)
  <2>1. /\ pc[w] = "fetch" /\ pc'[w] = "lastCheckpoint"
        /\ \A v \in Workers \ {w} : pc'[v] = pc[v]
    BY <1>0, <1>6, GotoFrame DEF FetchEnd
  <2>2. /\ job'[w].off = job[w].off /\ job'[w].cnt = job[w].cnt
        /\ job'[w].files = job[w].files
        /\ \A v \in Workers \ {w} : job'[v] = job[v]
    BY <1>0, <1>6 DEF FetchEnd, Jobs
  <2>3. Moves(w)
    BY <1>6, <1>a, <2>1, <2>2 DEF FetchEnd, Moves
  <2>. QED  BY <1>6, <2>1, <2>2, <2>3 DEF FetchEnd, TaskFrame
<1>7. CASE FloodWait(w) \/ NetworkError(w)
  <2>1. CASE Raise(w)
    BY <1>7, <2>1, LeavesFrame DEF FloodWait, NetworkError, TaskFrame, Leaves
  <2>2. CASE pc' = pc /\ (job' = [job EXCEPT ![w].floods = @ + 1]
                          \/ job' = [job EXCEPT ![w].tries = @ + 1])
    <3>1. /\ job'[w].off = job[w].off /\ job'[w].cnt = job[w].cnt
          /\ job'[w].files = job[w].files
          /\ \A v \in Workers \ {w} : job'[v] = job[v]
      BY <1>0, <2>2 DEF Jobs
    <3>2. pc[w] = "fetch" /\ pc'[w] = "fetch"
      BY <1>7, <2>2 DEF FloodWait, NetworkError
    <3>3. Moves(w)
      BY <1>7, <1>a, <3>1, <3>2 DEF FloodWait, NetworkError, Moves, AtEnd
    <3>. QED  BY <1>7, <2>2, <3>1, <3>2, <3>3 DEF FloodWait, NetworkError, TaskFrame
  <2>. QED  BY <1>7, <2>1, <2>2 DEF FloodWait, NetworkError
<1>8. CASE PersistBatch(w)
  <2>1. pc'[w] = "download" /\ \A v \in Workers \ {w} : pc'[v] = pc[v]
    BY <1>0, <1>8, GotoFrame DEF PersistBatch
  <2>. QED  BY <1>8, <2>1 DEF PersistBatch, TaskFrame
<1>9. CASE DownloadBatch(w)
  <2>1. PICK n \in {0, SinceCheckpoint(w)}, step \in {"fetch", "checkpoint"} :
           job' = [job EXCEPT ![w].page = <<>>, ![w].since = n] /\ Goto(w, step)
    BY <1>9 DEF DownloadBatch
  <2>2. pc'[w] = step /\ \A v \in Workers \ {w} : pc'[v] = pc[v]
    BY <1>0, <2>1, GotoFrame
  <2>3. job'[w] = [job[w] EXCEPT !.page = <<>>, !.since = n]
        /\ \A v \in Workers \ {w} : job'[v] = job[v]
    BY <1>0, <2>1
  <2>4. /\ job'[w].off = job[w].off /\ job'[w].cnt = job[w].cnt
        /\ job'[w].files = job[w].files
    BY <1>0, <2>3 DEF Jobs
  <2>5. Moves(w)
    BY <1>9, <1>a, <2>2, <2>4 DEF DownloadBatch, Moves, AtEnd
  <2>. QED  BY <1>9, <2>2, <2>3, <2>5 DEF DownloadBatch, TaskFrame
<1>10. CASE BatchCheckpoint(w) \/ LastCheckpoint(w)
  BY <1>10, CheckpointKinds DEF BatchCheckpoint, LastCheckpoint
<1>11. CASE PollStatus(w)
  <2>1. CASE EndTask(w)
    BY <1>11, <2>1, LeavesFrame DEF PollStatus, TaskFrame, Leaves
  <2>2. CASE Goto(w, "fetch") /\ job' = job
    <3>1. /\ pc'[w] = "fetch"
          /\ \A v \in Workers \ {w} : pc'[v] = pc[v] /\ job'[v] = job[v]
          /\ job'[w].off = job[w].off /\ job'[w].cnt = job[w].cnt
          /\ job'[w].files = job[w].files
      BY <1>a, <2>2, SameJob
    <3>2. Moves(w)
      BY <1>11, <1>a, <3>1 DEF PollStatus, Moves, AtEnd
    <3>. QED  BY <1>11, <3>1, <3>2 DEF PollStatus, TaskFrame
  <2>. QED  BY <1>11, <2>1, <2>2 DEF PollStatus
<1>12. CASE Assemble(w)
  <2>1. PICK step \in {"complete", "raise"} : Goto(w, step)
    BY <1>12 DEF Assemble
  <2>2. pc[w] = "assemble" /\ pc'[w] = step /\ \A v \in Workers \ {w} : pc'[v] = pc[v]
    BY <1>0, <1>12, <2>1, GotoFrame DEF Assemble
  <2>3. Moves(w) \/ Leaves(w)
    BY <1>12, <1>a, <2>1, <2>2 DEF Assemble, Moves, AtEnd, Leaves
  <2>. QED  BY <1>12, <2>2, <2>3 DEF Assemble, TaskFrame
<1>13. CASE Complete(w)
  <2>1. CASE Raise(w) /\ status' = status
    BY <1>13, <2>1, LeavesFrame DEF Complete, TaskFrame, Leaves
  <2>2. CASE EndTask(w) /\ status # "deleted" /\ status' = "completed"
    BY <1>13, <2>2, EndTaskFrame DEF Complete, TaskFrame, Leaves
  <2>. QED  BY <1>13, <2>1, <2>2 DEF Complete
<1>14. CASE MarkFailed(w)
  BY <1>14, EndTaskFrame DEF MarkFailed, FailedStatus, TaskFrame, Leaves
<1>. QED  BY <1>1, <1>2, <1>3, <1>4, <1>5, <1>6, <1>7, <1>8, <1>9, <1>10, <1>11, <1>12,
             <1>13, <1>14
     DEF RunTask

-----------------------------------------------------------------------------
(* The kinds of every other step. *)

\* Nobody sends requests about a row that is gone.
NoOrphan == status = "deleted" => request.op = "none"

\* A request or an event that touches no task, and no more of the row than its
\* status; Telegram adds messages above all others.
Aside == /\ UNCHANGED <<ledgerVars, rowCount, rowOffset, rowFiles, taskVars>>
         /\ \/ chat' = chat
            \/ /\ status' = status
               /\ \E m \in MessageIds : (\A n \in chat : n < m) /\ chat' = chat \cup {m}
         /\ \/ status' = status /\ (status = "deleted" => request' = request)
            \/ status # "deleted" /\ status' \in {"paused", "cancelled", "queued"}
         /\ request.op = "purge" => request' = request
         /\ UNCHANGED diskVars \/ RemoveTree

\* A task that is lost leaves only lines in its workfile behind.
Lost(w) == Die(w) /\ (WorkerLoss(w) \/ ChildLoss(w))

LEMMA OtherKinds ==
    ASSUME NoOrphan,
           \/ \E op \in {"pause", "cancel", "resume", "delete"} : ReceiveRequest(op)
           \/ HandleRequest \/ Environment
    PROVE  Aside \/ PurgeRow \/ \E w \in Workers : Lost(w)
<1>. USE DEF rowVars, ledgerVars, taskVars
<1>1. CASE \E op \in {"pause", "cancel", "resume", "delete"} : ReceiveRequest(op)
  BY <1>1 DEF ReceiveRequest, Aside
<1>2. CASE HandleRequest
  <2>1. CASE PurgeRow
    BY <2>1
  <2>2. CASE ~PurgeRow
    <3>1. request.op # "none"
      BY <1>2, <2>2 DEF HandleRequest, PauseExport, CancelExport, PauseOrCancel,
                        ResumeExport, Enqueue, DeleteExport, RemoveTree
    <3>2. status # "deleted"
      BY <3>1 DEF NoOrphan
    <3>3. CASE PauseExport \/ CancelExport
      BY <3>2, <3>3 DEF PauseExport, CancelExport, PauseOrCancel, CommitStatus, Aside
    <3>4. CASE ResumeExport
      BY <3>2, <3>4 DEF ResumeExport, CommitStatus, Aside
    <3>5. CASE Enqueue \/ RemoveTree
      BY <3>2, <3>5 DEF Enqueue, RemoveTree, Aside
    <3>6. CASE DeleteExport
      BY <3>2, <3>6 DEF DeleteExport, Aside
    <3>. QED  BY <1>2, <2>2, <3>3, <3>4, <3>5, <3>6 DEF HandleRequest
  <2>. QED  BY <2>1, <2>2
<1>3. CASE Environment
  <2>1. CASE NewMessage
    BY <2>1 DEF NewMessage, Aside
  <2>2. CASE \E w \in Workers : WorkerLoss(w) \/ ChildLoss(w)
    BY <2>2 DEF Lost, WorkerLoss, ChildLoss
  <2>3. CASE \E w \in Workers : Redeliver(w)
    BY <2>3 DEF Redeliver, Aside
  <2>. QED  BY <1>3, <2>1, <2>2, <2>3 DEF Environment
<1>. QED  BY <1>1, <1>2, <1>3

LEMMA LostFrame ==
    ASSUME TypeOK, NEW w \in Workers, Lost(w)
    PROVE  /\ pc'[w] = "idle"
           /\ \A v \in Workers \ {w} : pc'[v] = pc[v] /\ job'[v] = job[v]
           /\ UNCHANGED <<chat, rowVars, ledgerVars, disk, archive, request>>
BY DEF Lost, Die, TypeOK

-----------------------------------------------------------------------------
(* files_total. *)

\* The media files among a set of messages.
Listed(S) == Cardinality(S \cap Media)

\* Why files_total is never too high: no copy of it is, with the page in hand
\* counted in advance.
FilesCounted(w) ==
    /\ pc[w] \in Loaded => job[w].files <= Listed(ledger)
    /\ pc[w] = "persist" => job[w].files <= Listed(ledger) + Listed(Ids(job[w].page))
FilesInv ==
    /\ FilesNotOvercounted /\ NoOrphan
    /\ status # "deleted" => \A w \in Workers : FilesCounted(w)

\* Sets of message ids are finite.
LEMMA IdsFinite ==
    ASSUME NEW S \in SUBSET MessageIds
    PROVE  IsFiniteSet(S) /\ Cardinality(S) \in Nat
<1>1. IsFiniteSet(MessageIds)
  BY ChatAssumption, FS_Interval DEF MessageIds
<1>. QED  BY <1>1, FS_Subset, FS_CardinalityType

\* The size of a union of two sets without a common message.
LEMMA DisjointCount ==
    ASSUME NEW S \in SUBSET MessageIds, NEW T \in SUBSET MessageIds, S \cap T = {}
    PROVE  Cardinality(S \cup T) = Cardinality(S) + Cardinality(T)
<1>1. IsFiniteSet(S) /\ IsFiniteSet(T) /\ Cardinality(S) \in Nat /\ Cardinality(T) \in Nat
  BY IdsFinite
<1>2. Cardinality(S \cup T) = Cardinality(S) + Cardinality(T) - Cardinality({})
  BY <1>1, FS_Union
<1>. QED  BY <1>1, <1>2, FS_EmptySet

\* A larger ledger lists at least as many files.
LEMMA ListedGrows ==
    ASSUME NEW S \in SUBSET MessageIds, NEW T \in SUBSET MessageIds
    PROVE  /\ Listed(S) \in Nat
           /\ S \subseteq T => Listed(S) <= Listed(T)
           /\ S \cap T = {} => Listed(S \cup T) = Listed(S) + Listed(T)
<1>1. Listed(S) \in Nat
  BY MediaCount DEF Listed
<1>2. ASSUME S \subseteq T PROVE Listed(S) <= Listed(T)
  <2>1. IsFiniteSet(T \cap Media)
    BY IdsFinite, T \cap Media \subseteq MessageIds
  <2>2. S \cap Media \subseteq T \cap Media
    BY <1>2
  <2>. QED  BY <2>1, <2>2, FS_Subset DEF Listed
<1>3. ASSUME S \cap T = {} PROVE Listed(S \cup T) = Listed(S) + Listed(T)
  <2>1. (S \cup T) \cap Media = (S \cap Media) \cup (T \cap Media)
    OBVIOUS
  <2>2. (S \cap Media) \cap (T \cap Media) = {}
    BY <1>3
  <2>3. S \cap Media \in SUBSET MessageIds /\ T \cap Media \in SUBSET MessageIds
    OBVIOUS
  <2>. QED  BY <2>1, <2>2, <2>3, DisjointCount DEF Listed
<1>. QED  BY <1>1, <1>2, <1>3

\* A task of its own accord.
LEMMA TaskFiles ==
    ASSUME TypeOK, TypeOK', FilesInv, NEW w \in Workers, RunTask(w)
    PROVE  FilesInv'
<1>1. /\ TaskFrame(w)
      /\ \/ Leaves(w) \/ Loads(w) \/ Moves(w) \/ FetchBatch(w) \/ PersistBatch(w)
  BY TaskKinds
<1>2. NoOrphan'
  BY <1>1 DEF FilesInv, NoOrphan, TaskFrame
<1>3. CASE status = "deleted" /\ ~PersistBatch(w)
  <2>1. status' = "deleted"
    BY <1>1, <1>3 DEF TaskFrame
  <2>2. UNCHANGED <<ledger, rowFiles>>
    BY <1>1, <1>3 DEF Leaves, Loads, Moves, RowKept, RowWritten, FetchBatch, rowVars, ledgerVars
  <2>. QED  BY <1>2, <2>1, <2>2 DEF FilesInv, FilesNotOvercounted
<1>4. ASSUME status # "deleted", ledger' = ledger, RowKept \/ RowWritten(w), FilesCounted(w)'
      PROVE  FilesInv'
  <2>1. \A v \in Workers : FilesCounted(v)
    BY <1>4 DEF FilesInv
  <2>2. FilesNotOvercounted'
    <3>1. CASE RowKept
      BY <1>4, <3>1 DEF FilesInv, FilesNotOvercounted, RowKept
    <3>2. CASE RowWritten(w)
      <4>1. pc[w] \in Loaded
        BY <3>2 DEF RowWritten, Loaded, CopySteps
      <4>2. rowFiles' <= Listed(ledger)
        BY <2>1, <3>2, <4>1 DEF RowWritten, FilesCounted
      <4>. QED  BY <1>4, <4>2 DEF FilesNotOvercounted, Listed
    <3>. QED  BY <1>4, <3>1, <3>2
  <2>3. ASSUME NEW v \in Workers PROVE FilesCounted(v)'
    <3>1. CASE v # w
      BY <1>1, <1>4, <2>1, <3>1 DEF TaskFrame, FilesCounted, Listed
    <3>. QED  BY <1>4, <3>1
  <2>. QED  BY <1>2, <2>2, <2>3 DEF FilesInv
<1>5. CASE status # "deleted" /\ Leaves(w)
  <2>1. FilesCounted(w)'
    BY <1>5 DEF Leaves, FilesCounted, Loaded, CopySteps
  <2>. QED  BY <1>4, <1>5, <2>1 DEF Leaves
<1>6. CASE status # "deleted" /\ Loads(w)
  <2>1. pc'[w] = "mark" /\ job'[w].files = rowFiles /\ ledger' = ledger
    BY <1>6 DEF Loads, CopyOfRow, NoJob
  <2>2. FilesCounted(w)'
    BY <2>1 DEF FilesInv, FilesNotOvercounted, FilesCounted, Listed
  <2>. QED  BY <1>4, <1>6, <2>2 DEF Loads
<1>7. CASE status # "deleted" /\ Moves(w)
  <2>1. /\ pc[w] \in Loaded /\ pc'[w] \in Loaded /\ job'[w].files = job[w].files
        /\ ledger' = ledger /\ FilesCounted(w)
    BY <1>7 DEF Moves, FilesInv
  <2>2. "persist" \notin Loaded
    BY DEF Loaded, CopySteps
  <2>3. FilesCounted(w)'
    BY <2>1, <2>2 DEF FilesCounted, Listed
  <2>. QED  BY <1>4, <1>7, <2>3 DEF Moves
<1>8. CASE status # "deleted" /\ FetchBatch(w)
  <2>1. PICK p \in Pages(job[w].off) :
           /\ job'[w].files = job[w].files + Cardinality(Ids(p) \cap Media)
           /\ job'[w].page = p
    BY <1>8, FetchEffect
  <2>2. /\ pc[w] = "fetch" /\ pc'[w] = "persist" /\ ledger' = ledger
        /\ RowKept /\ FilesCounted(w)
    BY <1>8, GotoFrame DEF FetchBatch, ledgerVars, rowVars, RowKept, FilesInv, TypeOK
  <2>3. job[w].files \in Nat /\ Listed(ledger) \in Nat /\ Cardinality(Ids(p) \cap Media) \in Nat
    <3>1. job[w].files \in Nat /\ job[w].off \in Nat /\ ledger \in SUBSET MessageIds
      BY DEF TypeOK, Jobs
    <3>2. Ids(p) \in SUBSET MessageIds
      BY <3>1, PageType DEF TypeOK, Below
    <3>. QED  BY <3>1, <3>2, MediaCount DEF Listed
  <2>4. job[w].files <= Listed(ledger)
    BY <2>2 DEF FilesCounted, Loaded, CopySteps
  <2>5. job'[w].files <= Listed(ledger) + Listed(Ids(p))
    BY <2>1, <2>3, <2>4 DEF Listed
  <2>6. "persist" \notin Loaded
    BY DEF Loaded, CopySteps
  <2>7. FilesCounted(w)'
    BY <2>1, <2>2, <2>5, <2>6 DEF FilesCounted, Listed
  <2>. QED  BY <1>4, <1>8, <2>2, <2>7
<1>9. CASE PersistBatch(w)
  <2>1. /\ status # "deleted" /\ status' = status /\ job' = job /\ rowFiles' = rowFiles
        /\ Ids(job[w].page) \cap ledger = {} /\ pc[w] = "persist" /\ pc'[w] = "download"
        /\ ledger' = ledger \cup Ids(job[w].page)
    BY <1>9, GotoFrame DEF PersistBatch, TypeOK
  <2>2. ledger \in SUBSET MessageIds /\ Ids(job[w].page) \in SUBSET MessageIds
    <3>1. job[w].page \in Seq(MessageIds)
      BY DEF TypeOK, Jobs
    <3>. QED  BY <3>1 DEF TypeOK, Ids
  <2>3. /\ Listed(ledger)' = Listed(ledger) + Listed(Ids(job[w].page))
        /\ Listed(ledger) \in Nat /\ Listed(ledger)' \in Nat
        /\ Listed(ledger) <= Listed(ledger)'
    <3>1. Listed(ledger)' = Listed(ledger \cup Ids(job[w].page))
      BY <2>1 DEF Listed
    <3>2. ledger \cup Ids(job[w].page) \in SUBSET MessageIds
      BY <2>2
    <3>. QED  BY <2>1, <2>2, <3>1, <3>2, ListedGrows
  <2>4. rowFiles \in Nat /\ rowFiles <= Listed(ledger)
    BY <2>1 DEF FilesInv, FilesNotOvercounted, Listed, TypeOK
  <2>5. FilesNotOvercounted'
    <3>1. rowFiles' <= Listed(ledger)'
      BY <2>1, <2>3, <2>4
    <3>. QED  BY <3>1 DEF FilesNotOvercounted, Listed
  <2>6. ASSUME NEW v \in Workers PROVE FilesCounted(v)'
    <3>1. FilesCounted(v) /\ job[v].files \in Nat /\ Listed(Ids(job[v].page)) \in Nat
      <4>1. job[v].files \in Nat /\ job[v].page \in Seq(MessageIds)
        BY DEF TypeOK, Jobs
      <4>2. Ids(job[v].page) \in SUBSET MessageIds
        BY <4>1 DEF Ids
      <4>. QED  BY <2>1, <4>1, <4>2, ListedGrows DEF FilesInv
    <3>2. CASE v = w
      BY <2>1, <2>3, <3>1, <3>2 DEF FilesCounted
    <3>3. CASE v # w
      <4>1. pc'[v] = pc[v]
        BY <1>1, <3>3 DEF TaskFrame
      <4>2. Listed(Ids(job[v].page))' = Listed(Ids(job[v].page)) /\ job'[v].files = job[v].files
        BY <2>1 DEF Listed
      <4>3. pc'[v] \in Loaded => job'[v].files <= Listed(ledger)'
        BY <2>3, <3>1, <4>1, <4>2 DEF FilesCounted
      <4>4. pc'[v] = "persist" => job'[v].files <= Listed(ledger)' + Listed(Ids(job[v].page))'
        BY <2>3, <3>1, <4>1, <4>2 DEF FilesCounted
      <4>. QED  BY <4>3, <4>4 DEF FilesCounted
    <3>. QED  BY <3>2, <3>3
  <2>. QED  BY <1>2, <2>1, <2>5, <2>6 DEF FilesInv
<1>. QED  BY <1>1, <1>3, <1>5, <1>6, <1>7, <1>8, <1>9

\* A request or an event.
LEMMA OtherFiles ==
    ASSUME TypeOK, TypeOK', FilesInv,
           \/ \E op \in {"pause", "cancel", "resume", "delete"} : ReceiveRequest(op)
           \/ HandleRequest \/ Environment
    PROVE  FilesInv'
<1>1. Aside \/ PurgeRow \/ \E w \in Workers : Lost(w)
  BY OtherKinds DEF FilesInv
<1>2. CASE Aside
  <2>1. /\ UNCHANGED <<ledger, rowFiles, pc, job>> /\ NoOrphan'
        /\ status' # "deleted" => status # "deleted"
    BY <1>2 DEF Aside, ledgerVars, taskVars, FilesInv, NoOrphan
  <2>. QED  BY <2>1 DEF FilesInv, FilesNotOvercounted, FilesCounted, Listed
<1>3. CASE PurgeRow
  <2>1. status' = "deleted" /\ rowFiles' = 0 /\ ledger' = {} /\ request'.op = "none"
    BY <1>3 DEF PurgeRow, DeleteLedger, NoRequest
  <2>2. 0 <= Cardinality({} \cap Media)
    BY FS_EmptySet
  <2>. QED  BY <2>1, <2>2 DEF FilesInv, FilesNotOvercounted, NoOrphan
<1>4. ASSUME NEW w \in Workers, Lost(w) PROVE FilesInv'
  <2>1. /\ pc'[w] = "idle" /\ \A v \in Workers \ {w} : pc'[v] = pc[v] /\ job'[v] = job[v]
        /\ UNCHANGED <<status, rowFiles, ledger, request>>
    BY <1>4, LostFrame DEF rowVars, ledgerVars
  <2>2. FilesCounted(w)'
    BY <2>1 DEF FilesCounted, Loaded, CopySteps
  <2>3. \A v \in Workers \ {w} : FilesCounted(v) => FilesCounted(v)'
    BY <2>1 DEF FilesCounted, Listed
  <2>. QED  BY <2>1, <2>2, <2>3 DEF FilesInv, FilesNotOvercounted, NoOrphan
<1>. QED  BY <1>1, <1>2, <1>3, <1>4

\* Whatever overlaps, rolls back or is lost, files_total counts no media file
\* whose row is not in the ledger.
THEOREM FilesHonest == Spec => []FilesNotOvercounted
<1>1. Init => FilesInv
  <2>1. 0 <= Cardinality({} \cap Media)
    BY FS_EmptySet
  <2>. QED  BY <2>1 DEF Init, FilesInv, FilesNotOvercounted, NoOrphan, FilesCounted,
                         Loaded, CopySteps
<1>2. TypeOK /\ TypeOK' /\ FilesInv /\ [Next]_vars => FilesInv'
  <2> SUFFICES ASSUME TypeOK, TypeOK', FilesInv, [Next]_vars PROVE FilesInv'
    OBVIOUS
  <2>1. CASE UNCHANGED vars
    BY <2>1 DEF vars, rowVars, ledgerVars, taskVars, FilesInv, FilesNotOvercounted,
                NoOrphan, FilesCounted, Listed
  <2>2. ASSUME NEW w \in Workers, RunTask(w) PROVE FilesInv'
    BY <2>2, TaskFiles
  <2>3. CASE Next /\ ~\E w \in Workers : RunTask(w)
    BY <2>3, OtherFiles DEF Next
  <2>. QED  BY <2>1, <2>2, <2>3
<1>3. FilesInv => FilesNotOvercounted
  BY DEF FilesInv
<1>. QED  BY <1>1, <1>2, <1>3, TypeCorrect, PTL DEF Spec

-----------------------------------------------------------------------------
(* Media files. *)

\* Only an event of the environment spends any of the budget.
LEMMA BudgetSpent ==
    ASSUME [Next]_vars
    PROVE  budget' = budget \/ \E kind \in EventKinds : Spend(kind)
<1>. USE DEF taskVars, rowVars
<1>1. ASSUME NEW w \in Workers, RunTask(w)
      PROVE  budget' = budget \/ Spend("dbError") \/ Spend("mediaError")
  <2>1. CASE TakeTask(w) \/ LoadExport(w) \/ MarkRunning(w) \/ PrepareDir(w) \/ PrepareFails(w)
             \/ OpenWorkfile(w) \/ FetchBatch(w) \/ FetchEnd(w)
    BY <2>1 DEF TakeTask, LoadExport, MarkRunning, PrepareDir, PrepareFails, OpenWorkfile,
                FetchBatch, FetchEnd
  <2>2. CASE FloodWait(w) \/ NetworkError(w) \/ AccessRevoked(w) \/ PersistBatch(w)
             \/ PersistFails(w) \/ DownloadBatch(w)
    BY <2>2 DEF FloodWait, NetworkError, AccessRevoked, PersistBatch, PersistFails,
                DownloadBatch
  <2>3. CASE BatchCheckpoint(w) \/ PollStatus(w) \/ LastCheckpoint(w) \/ Assemble(w)
             \/ Complete(w) \/ MarkFailed(w)
    BY <2>3 DEF BatchCheckpoint, PollStatus, LastCheckpoint, Assemble, Complete, MarkFailed
  <2>. QED  BY <1>1, <2>1, <2>2, <2>3 DEF RunTask
<1>2. ASSUME NEW op \in {"pause", "cancel", "resume", "delete"}, ReceiveRequest(op)
      PROVE  Spend("request")
  BY <1>2 DEF ReceiveRequest
<1>3. CASE HandleRequest
  <2>1. budget' = budget \/ Spend("brokerDown")
    BY <1>3 DEF HandleRequest, PauseExport, CancelExport, PauseOrCancel, ResumeExport,
                Enqueue, DeleteExport, RemoveTree, PurgeRow
  <2>. QED  BY <2>1 DEF EventKinds
<1>4. CASE Environment
  BY <1>4 DEF Environment, NewMessage, WorkerLoss, ChildLoss, Redeliver, EventKinds
<1>. QED  BY <1>1, <1>2, <1>3, <1>4 DEF Next, vars, EventKinds

\* A fetched page is no longer than a batch.
LEMMA PageLength ==
    ASSUME NEW o, NEW p \in Pages(o)
    PROVE  Len(p) \in Nat /\ Len(p) <= BatchSize
<1>1. PICK n \in 0..BatchSize : p \in [1..n -> Below(o)]
  BY DEF Pages
<1>. QED  BY <1>1, BatchAssumption

\* Only these two steps of a task touch the media rows.
LEMMA PendingKinds ==
    ASSUME NEW w \in Workers, RunTask(w)
    PROVE  \/ PersistBatch(w) \/ DownloadBatch(w)
           \/ pending' = pending /\ pc[w] # "download"
<1>. USE DEF ledgerVars
<1>1. CASE TakeTask(w) \/ LoadExport(w) \/ MarkRunning(w) \/ PrepareDir(w) \/ PrepareFails(w)
           \/ OpenWorkfile(w) \/ FetchBatch(w) \/ FetchEnd(w)
  BY <1>1 DEF TakeTask, LoadExport, MarkRunning, PrepareDir, PrepareFails, OpenWorkfile,
              FetchBatch, FetchEnd
<1>2. CASE FloodWait(w) \/ NetworkError(w) \/ AccessRevoked(w) \/ PersistFails(w)
  BY <1>2 DEF FloodWait, NetworkError, AccessRevoked, PersistFails
<1>3. CASE BatchCheckpoint(w) \/ PollStatus(w) \/ LastCheckpoint(w) \/ Assemble(w)
           \/ Complete(w) \/ MarkFailed(w)
  BY <1>3 DEF BatchCheckpoint, PollStatus, LastCheckpoint, Assemble, Complete, MarkFailed
<1>. QED  BY <1>1, <1>2, <1>3 DEF RunTask

\* A task comes to commit or to download a page only with one it has fetched.
LEMMA PageKinds ==
    ASSUME TypeOK, NEW w \in Workers, RunTask(w), pc'[w] \in {"persist", "download"}
    PROVE  FetchBatch(w) \/ PersistBatch(w)
<1>0. pc \in [Workers -> Steps]
  BY DEF TypeOK
<1>a. ~Raise(w) /\ ~EndTask(w)
  BY RaiseFrame, EndTaskFrame
<1>b. \A step : Goto(w, step) => step \in {"persist", "download"}
  BY <1>0 DEF Goto
<1>1. CASE TakeTask(w) \/ LoadExport(w) \/ MarkRunning(w) \/ PrepareDir(w) \/ PrepareFails(w)
           \/ OpenWorkfile(w) \/ FetchEnd(w)
  BY <1>a, <1>b, <1>1 DEF TakeTask, LoadExport, MarkRunning, PrepareDir, PrepareFails,
                          OpenWorkfile, FetchEnd
<1>2. CASE FloodWait(w) \/ NetworkError(w) \/ AccessRevoked(w) \/ PersistFails(w)
           \/ DownloadBatch(w)
  BY <1>a, <1>b, <1>2 DEF FloodWait, NetworkError, AccessRevoked, PersistFails, DownloadBatch
<1>3. CASE BatchCheckpoint(w) \/ PollStatus(w) \/ LastCheckpoint(w) \/ Assemble(w)
           \/ Complete(w) \/ MarkFailed(w)
  BY <1>a, <1>b, <1>3 DEF BatchCheckpoint, PollStatus, LastCheckpoint, Checkpoint, Assemble,
                          Complete, MarkFailed
<1>. QED  BY <1>1, <1>2, <1>3 DEF RunTask

\* A page has no more messages than it is long.
LEMMA PageSize ==
    ASSUME NEW p \in Seq(MessageIds)
    PROVE  /\ Ids(p) \subseteq MessageIds
           /\ IsFiniteSet(Ids(p)) /\ Cardinality(Ids(p)) \in Nat
           /\ Cardinality(Ids(p)) <= Len(p)
<1>1. Len(p) \in Nat /\ DOMAIN p = 1..Len(p)
  BY LenProperties
<1>2. IsFiniteSet(1..Len(p)) /\ Cardinality(1..Len(p)) = Len(p)
  BY <1>1, FS_Interval
<1>3. p \in Surjection(1..Len(p), Ids(p))
  BY <1>1 DEF Surjection, Ids
<1>4. IsFiniteSet(Ids(p)) /\ Cardinality(Ids(p)) <= Len(p)
  BY <1>2, <1>3, FS_Surjection
<1>. QED  BY <1>4, FS_CardinalityType DEF Ids

\* Why no row is left behind unseen: events are only ever spent, only media
\* rows wait, and no page in hand is longer than a batch.
BudgetFalls == \A kind \in EventKinds : budget[kind] <= Budget[kind]
PagesFit == \A w \in Workers :
               pc[w] \in {"persist", "download"} => Len(job[w].page) <= BatchSize
MediaInv == BudgetFalls /\ PagesFit /\ pending \subseteq Media /\ MediaSettled

\* The media rows no task has in hand.
Behind == pending \ InHand

LEMMA HandMeans ==
    /\ \A m : m \in InHand <=>
                \E w \in Workers : pc[w] = "download" /\ m \in Ids(job[w].page)
    /\ \A m : m \in InHand' <=>
                \E w \in Workers : pc'[w] = "download" /\ m \in Ids(job'[w].page)
BY Zenon DEF InHand, Ids

\* Spending an event, and what it says of the disturbances.
LEMMA Disturbed ==
    ASSUME TypeOK, BudgetFalls, NEW kind \in EventKinds, Spend(kind)
    PROVE  /\ BudgetFalls'
           /\ Disturbances \in Nat /\ Disturbances' \in Nat /\ Disturbances <= Disturbances'
           /\ kind \in {"workerLoss", "childLoss", "mediaError"} =>
                 Disturbances' = Disturbances + 1
<1>1. /\ budget \in [EventKinds -> Nat] /\ Budget \in [EventKinds -> Nat]
      /\ budget[kind] > 0 /\ budget' = [budget EXCEPT ![kind] = @ - 1]
  BY BudgetAssumption DEF TypeOK, Spend
<1>2. BudgetFalls'
  BY <1>1 DEF BudgetFalls
<1>3. \A k \in EventKinds : Spent(k) \in Nat /\ Spent(k)' = Spent(k) + (IF k = kind THEN 1 ELSE 0)
  BY <1>1 DEF BudgetFalls, Spent
<1>4. {"workerLoss", "childLoss", "mediaError"} \subseteq EventKinds
  BY DEF EventKinds
<1>. QED  BY <1>2, <1>3, <1>4 DEF Disturbances

\* What a step of a task can leave behind: nothing, unless the failures of its
\* own downloads are swallowed.
LEMMA TaskBehind ==
    ASSUME TypeOK, MediaInv, IncludeMedia, NEW w \in Workers, RunTask(w)
    PROVE  \/ Behind' \subseteq Behind
           \/ /\ pc[w] = "download" /\ Behind' \subseteq Behind \cup Ids(job[w].page)
              /\ Spend("mediaError")
<1>1. \A v \in Workers \ {w} : pc'[v] = pc[v] /\ job'[v] = job[v]
  BY TaskKinds DEF TaskFrame
<1>2. \A v \in Workers \ {w} :
         pc[v] = "download" => pc'[v] = "download" /\ Ids(job'[v].page) = Ids(job[v].page)
  BY <1>1
<1>3. CASE pending' = pending /\ pc[w] # "download"
  <2>1. InHand \subseteq InHand'
    BY <1>2, <1>3, HandMeans
  <2>. QED  BY <1>3, <2>1 DEF Behind
<1>4. CASE PersistBatch(w)
  <2>1. /\ pending' = pending \cup (Ids(job[w].page) \cap Media) /\ job' = job
        /\ pc[w] = "persist" /\ pc'[w] = "download"
    BY <1>4, GotoFrame DEF PersistBatch, TypeOK
  <2>2. InHand \cup Ids(job[w].page) \subseteq InHand'
    BY <1>2, <2>1, HandMeans
  <2>. QED  BY <2>1, <2>2 DEF Behind
<1>5. CASE DownloadBatch(w)
  <2>1. PICK unsettled \in SUBSET (Ids(job[w].page) \cap Media) :
           /\ pending' = pending \ ((Ids(job[w].page) \cap Media) \ unsettled)
           /\ unsettled = {} \/ Spend("mediaError")
    BY <1>5 DEF DownloadBatch, Downloads
  <2>2. pc[w] = "download" /\ pending \subseteq Media
    BY <1>5 DEF DownloadBatch, MediaInv
  <2>3. InHand \subseteq InHand' \cup Ids(job[w].page)
    BY <1>2, HandMeans
  <2>. QED  BY <2>1, <2>2, <2>3 DEF Behind
<1>. QED  BY <1>3, <1>4, <1>5, PendingKinds

\* The same of any step: a task that dies leaves its page behind.
LEMMA StepBehind ==
    ASSUME TypeOK, MediaInv, NoOrphan, IncludeMedia, Next
    PROVE  \/ Behind' \subseteq Behind
           \/ \E w \in Workers :
                 /\ pc[w] = "download" /\ Behind' \subseteq Behind \cup Ids(job[w].page)
                 /\ \E kind \in {"workerLoss", "childLoss", "mediaError"} : Spend(kind)
<1>1. CASE \E w \in Workers : RunTask(w)
  BY <1>1, TaskBehind
<1>2. CASE ~\E w \in Workers : RunTask(w)
  <2>1. Aside \/ PurgeRow \/ \E w \in Workers : Lost(w)
    BY <1>2, OtherKinds DEF Next
  <2>2. CASE Aside
    <3>1. UNCHANGED <<pending, pc, job>>
      BY <2>2 DEF Aside, ledgerVars, taskVars
    <3>. QED  BY <3>1 DEF Behind, InHand
  <2>3. CASE PurgeRow
    BY <2>3 DEF PurgeRow, DeleteLedger, Behind
  <2>4. ASSUME NEW w \in Workers, Lost(w)
        PROVE  \/ Behind' \subseteq Behind
               \/ /\ pc[w] = "download" /\ Behind' \subseteq Behind \cup Ids(job[w].page)
                  /\ \E kind \in {"workerLoss", "childLoss"} : Spend(kind)
    <3>1. /\ \A v \in Workers \ {w} : pc'[v] = pc[v] /\ job'[v] = job[v]
          /\ pc'[w] = "idle" /\ pending' = pending
      BY <2>4, LostFrame DEF ledgerVars
    <3>2. \A v \in Workers \ {w} :
             pc[v] = "download" => pc'[v] = "download" /\ Ids(job'[v].page) = Ids(job[v].page)
      BY <3>1
    <3>3. CASE pc[w] = "download"
      <4>1. InHand \subseteq InHand' \cup Ids(job[w].page)
        BY <3>2, HandMeans
      <4>2. Spend("workerLoss") \/ Spend("childLoss")
        BY <2>4 DEF Lost, WorkerLoss, ChildLoss
      <4>. QED  BY <3>1, <3>3, <4>1, <4>2 DEF Behind
    <3>4. CASE pc[w] # "download"
      <4>1. InHand \subseteq InHand'
        BY <3>2, <3>4, HandMeans
      <4>. QED  BY <3>1, <4>1 DEF Behind
    <3>. QED  BY <3>3, <3>4
  <2>. QED  BY <2>1, <2>2, <2>3, <2>4
<1>. QED  BY <1>1, <1>2

LEMMA PagesStep ==
    ASSUME TypeOK, PagesFit, NoOrphan, [Next]_vars
    PROVE  PagesFit'
<1>1. CASE UNCHANGED <<pc, job>>
  BY <1>1 DEF PagesFit
<1>2. ASSUME NEW w \in Workers, RunTask(w) PROVE PagesFit'
  <2>1. \A v \in Workers \ {w} : pc'[v] = pc[v] /\ job'[v] = job[v]
    BY <1>2, TaskKinds DEF TaskFrame
  <2>2. ASSUME pc'[w] \in {"persist", "download"} PROVE Len(job'[w].page) <= BatchSize
    <3>1. CASE FetchBatch(w)
      BY <3>1, FetchEffect, PageLength
    <3>2. CASE PersistBatch(w)
      BY <3>2 DEF PersistBatch, PagesFit
    <3>. QED  BY <1>2, <2>2, <3>1, <3>2, PageKinds
  <2>. QED  BY <2>1, <2>2 DEF PagesFit
<1>3. CASE Next /\ ~\E w \in Workers : RunTask(w)
  <2>1. Aside \/ PurgeRow \/ \E w \in Workers : Lost(w)
    BY <1>3, OtherKinds DEF Next
  <2>2. CASE Aside \/ PurgeRow
    BY <1>1, <2>2 DEF Aside, PurgeRow, taskVars
  <2>3. ASSUME NEW w \in Workers, Lost(w) PROVE PagesFit'
    BY <2>3, LostFrame DEF PagesFit
  <2>. QED  BY <2>1, <2>2, <2>3
<1>. QED  BY <1>1, <1>2, <1>3 DEF vars, taskVars

LEMMA MediaStep ==
    ASSUME TypeOK, TypeOK', MediaInv, NoOrphan, [Next]_vars
    PROVE  MediaInv'
<1>1. BudgetFalls' /\ PagesFit'
  <2>1. budget' = budget => BudgetFalls'
    BY DEF MediaInv, BudgetFalls
  <2>. QED  BY <2>1, BudgetSpent, Disturbed, PagesStep DEF MediaInv
<1>2. pending' \subseteq Media
  <2>1. ASSUME NEW w \in Workers, RunTask(w) PROVE pending' \subseteq Media
    BY <2>1, PendingKinds DEF MediaInv, PersistBatch, DownloadBatch
  <2>2. CASE Next /\ ~\E w \in Workers : RunTask(w)
    <3>1. Aside \/ PurgeRow \/ \E w \in Workers : Lost(w)
      BY <2>2, OtherKinds DEF Next
    <3>. QED  BY <3>1, LostFrame DEF Aside, PurgeRow, DeleteLedger, ledgerVars, MediaInv
  <2>. QED  BY <2>1, <2>2 DEF MediaInv, vars, ledgerVars
<1>3. MediaSettled'
  <2>1. SUFFICES ASSUME IncludeMedia
                 PROVE  Cardinality(Behind') <= BatchSize * Disturbances'
    BY DEF MediaSettled, Behind
  <2>2. /\ IsFiniteSet(Behind) /\ Cardinality(Behind) \in Nat
        /\ IsFiniteSet(Behind') /\ Cardinality(Behind') \in Nat
    <3>1. Behind \in SUBSET MessageIds /\ Behind' \in SUBSET MessageIds
      BY DEF TypeOK, Behind
    <3>2. \A S \in SUBSET MessageIds : IsFiniteSet(S) /\ Cardinality(S) \in Nat
      BY IdsFinite
    <3>. QED  BY <3>1, <3>2
  <2>3. Cardinality(Behind) <= BatchSize * Disturbances
    BY <2>1 DEF MediaInv, MediaSettled, Behind
  <2>4. PICK c \in Nat, d \in Nat, e \in Nat, b \in Nat :
           c = Cardinality(Behind) /\ d = Disturbances /\ e = Disturbances' /\ b = BatchSize
           /\ d <= e
    <3>1. CASE budget' = budget
      <4>1. Disturbances' = Disturbances /\ Disturbances \in Nat
        <5>1. {"workerLoss", "childLoss", "mediaError"} \subseteq EventKinds
          BY DEF EventKinds
        <5>2. \A k \in EventKinds : Spent(k) \in Nat /\ Spent(k)' = Spent(k)
          BY <3>1, BudgetAssumption DEF Spent, MediaInv, BudgetFalls, TypeOK
        <5>. QED  BY <5>1, <5>2 DEF Disturbances
      <4>. QED  BY <2>2, <4>1, BatchAssumption
    <3>2. ASSUME NEW kind \in EventKinds, Spend(kind)
          PROVE  Disturbances \in Nat /\ Disturbances' \in Nat /\ Disturbances <= Disturbances'
      BY <3>2, Disturbed DEF MediaInv
    <3>. QED  BY <2>2, <3>1, <3>2, BudgetSpent, BatchAssumption
  <2>5. CASE Behind' \subseteq Behind
    <3>1. Cardinality(Behind') <= c
      BY <2>2, <2>4, <2>5, FS_Subset
    <3>2. c <= b * d /\ b * d <= b * e
      <4>1. \A i, j, k \in Nat : i <= j => k * i <= k * j
        OBVIOUS
      <4>. QED  BY <2>3, <2>4, <4>1
    <3>. QED  BY <2>2, <2>4, <3>1, <3>2
  <2>6. ASSUME NEW w \in Workers, pc[w] = "download", Behind' \subseteq Behind \cup Ids(job[w].page),
               NEW kind \in {"workerLoss", "childLoss", "mediaError"}, Spend(kind)
        PROVE  Cardinality(Behind') <= BatchSize * Disturbances'
    <3>1. Disturbances' = Disturbances + 1
      BY <2>6, Disturbed DEF MediaInv, EventKinds
    <3>2. job[w].page \in Seq(MessageIds) /\ Len(job[w].page) <= BatchSize
      BY <2>6 DEF TypeOK, Jobs, MediaInv, PagesFit
    <3>3. PICK p \in Seq(MessageIds) : p = job[w].page
      BY <3>2
    <3>4. /\ IsFiniteSet(Ids(p)) /\ Cardinality(Ids(p)) \in Nat
          /\ Cardinality(Ids(p)) <= Len(p) /\ Len(p) \in Nat
      BY PageSize, LenProperties
    <3>5. /\ IsFiniteSet(Behind \cup Ids(p))
          /\ Cardinality(Behind \cup Ids(p)) <= Cardinality(Behind) + Cardinality(Ids(p))
      <4>1. /\ IsFiniteSet(Behind \cup Ids(p))
            /\ Cardinality(Behind \cup Ids(p)) =
                  Cardinality(Behind) + Cardinality(Ids(p)) - Cardinality(Behind \cap Ids(p))
        BY <2>2, <3>4, FS_Union
      <4>2. Behind \cap Ids(p) \in SUBSET Behind
        OBVIOUS
      <4>3. Cardinality(Behind \cap Ids(p)) \in Nat
        BY <2>2, <4>2, FS_Subset, FS_CardinalityType
      <4>. QED  BY <2>2, <3>4, <4>1, <4>3
    <3>6. Cardinality(Behind') <= Cardinality(Behind \cup Ids(p))
      BY <2>6, <3>3, <3>5, FS_Subset
    <3>7. PICK n \in Nat : n = Cardinality(Ids(p)) /\ n <= b
      <4>1. Cardinality(Ids(p)) <= BatchSize
        BY <2>4, <3>2, <3>3, <3>4
      <4>. QED  BY <2>4, <3>4, <4>1
    <3>8. PICK a \in Nat, u \in Nat : a = Cardinality(Behind') /\ u = Cardinality(Behind \cup Ids(p))
      BY <2>2, <3>5, FS_CardinalityType
    <3>9. a <= u /\ u <= c + n /\ n <= b /\ c <= b * d /\ e = d + 1
      BY <2>3, <2>4, <3>1, <3>5, <3>6, <3>7, <3>8
    <3>10. b * (d + 1) = b * d + b
      BY <2>4
    <3>11. a <= b * e
      <4>1. b * d \in Nat
        BY <2>4
      <4>. QED  BY <2>4, <3>7, <3>8, <3>9, <3>10, <4>1
    <3>. QED  BY <2>4, <3>8, <3>11
  <2>7. CASE UNCHANGED vars
    <3>1. Behind' = Behind
      BY <2>7 DEF vars, ledgerVars, taskVars, Behind, InHand
    <3>. QED  BY <2>5, <3>1
  <2>. QED  BY <2>1, <2>5, <2>6, <2>7, StepBehind
<1>. QED  BY <1>1, <1>2, <1>3 DEF MediaInv

\* In every state, whatever overlaps, fails, is paused or resumed: no more
\* media stay behind unsettled than one page for each death of a task and each
\* swallowed failure of a batch.
THEOREM MediaIsSettled == Spec => []MediaSettled
<1>1. Init => MediaInv
  <2>1. ASSUME Init PROVE Disturbances = 0
    BY <2>1, BudgetAssumption DEF Init, Disturbances, Spent, EventKinds
  <2>2. ASSUME Init PROVE pending \ InHand = {}
    BY <2>2 DEF Init
  <2>3. BatchSize * 0 = 0
    BY BatchAssumption
  <2>4. ASSUME Init PROVE BudgetFalls /\ PagesFit
    BY <2>4, BudgetAssumption DEF Init, BudgetFalls, PagesFit
  <2>5. ASSUME Init PROVE MediaSettled
    <3>1. Cardinality(pending \ InHand) = 0
      BY <2>2, <2>5, FS_EmptySet
    <3>2. BatchSize * Disturbances = 0
      BY <2>1, <2>3, <2>5
    <3>. QED  BY <3>1, <3>2 DEF MediaSettled
  <2>. QED  BY <2>4, <2>5 DEF MediaInv, Init
<1>2. TypeOK /\ TypeOK' /\ CoverageInv /\ MediaInv /\ [Next]_vars => MediaInv'
  BY MediaStep DEF CoverageInv, NoOrphan
<1>3. MediaInv => MediaSettled
  BY DEF MediaInv
<1>. QED  BY <1>1, <1>2, <1>3, TypeCorrect, CoverageInvariant, PTL DEF Spec
=============================================================================
