-------------------------- MODULE ExportStopProofs --------------------------
(***************************************************************************)
(* How much an export still copies after it was paused or cancelled, for   *)
(* every chat, page size and checkpoint interval, and through every loss,  *)
(* as long as its tasks run one after another.                             *)
(***************************************************************************)
EXTENDS ExportStop, ExportSerialProofs

-----------------------------------------------------------------------------
(* The invariant. *)

\* What a task has copied since the request is part of what it has counted
\* since its last checkpoint; a task that began or looked since the request
\* stood has copied nothing.
StopTask(w) ==
    /\ job[w].since = 0 \/ job[w].since < CheckpointEvery
    /\ pc[w] = "mark" /\ job[w].seen = "running" => late = 0
    /\ pc[w] \in {"prepare", "open", "poll"} => late = 0
    /\ pc[w] \in {"fetch", "persist"} => late <= job[w].since
    /\ pc[w] \in {"persist", "download"} => Len(job[w].page) <= BatchSize
    /\ pc[w] = "download" => late <= job[w].since + Len(job[w].page)

StopInv ==
    /\ late \in Nat /\ StopBounded
    /\ ~StopRequested => late = 0
    /\ \A w \in Workers : StopTask(w)

-----------------------------------------------------------------------------
\* The history variable watches an export and changes nothing about it.
LEMMA StopIsExport == StopSpec => Spec
<1>1. StopInit => Init
  BY DEF StopInit
<1>2. [StopNext]_stopVars => [Next]_vars
  BY DEF StopNext, stopVars
<1>. QED  BY <1>1, <1>2, PTL DEF StopSpec, Spec

\* A step that commits no message.
LEMMA NothingLate ==
    ASSUME StopInv, StopNext, ledger' \subseteq ledger
    PROVE  /\ late' \in {0, late} /\ late' \in Nat
           /\ ~(StopRequested /\ StopRequested') => late' = 0
           /\ late = 0 => late' = 0
<1>1. ledger' \ ledger = {}
  OBVIOUS
<1>2. late \in Nat /\ Cardinality(ledger' \ ledger) = 0
  BY <1>1, FS_EmptySet DEF StopInv
<1>. QED  BY <1>2 DEF StopNext

\* The job of a task that ends, raises or goes on.
LEMMA JobFrame ==
    ASSUME TypeOK, NEW w \in Workers
    PROVE  /\ job[w] \in Jobs /\ job[w].since \in Nat /\ Len(job[w].page) \in Nat
           /\ Raise(w) => pc'[w] = "raise" /\ job'[w].since = job[w].since
           /\ EndTask(w) => pc'[w] = "idle" /\ job'[w].since = 0
<1>1. job \in [Workers -> Jobs] /\ job[w] \in Jobs
  BY DEF TypeOK
<1>2. job[w].since \in Nat /\ job[w].page \in Seq(MessageIds)
  BY <1>1 DEF Jobs
<1>3. ASSUME Raise(w) PROVE pc'[w] = "raise" /\ job'[w].since = job[w].since
  <2>1. job'[w] = [job[w] EXCEPT !.buf = <<>>]
    BY <1>1, <1>3 DEF Raise
  <2>. QED  BY <1>1, <1>3, <2>1, RaiseFrame DEF Jobs
<1>4. ASSUME EndTask(w) PROVE pc'[w] = "idle" /\ job'[w].since = 0
  <2>1. job'[w] = NoJob
    BY <1>1, <1>4 DEF EndTask
  <2>. QED  BY <1>4, <2>1, EndTaskFrame DEF NoJob
<1>. QED  BY <1>1, <1>2, <1>3, <1>4, LenProperties

\* A committed page adds no more messages than it is long.
LEMMA CommittedLength ==
    ASSUME TypeOK, NEW w \in Workers, PersistBatch(w)
    PROVE  /\ Cardinality(ledger' \ ledger) \in Nat
           /\ Cardinality(ledger' \ ledger) <= Len(job[w].page)
<1>1. PICK p \in Seq(MessageIds) : p = job[w].page
  BY DEF TypeOK, Jobs
<1>2. Len(p) \in Nat /\ DOMAIN p = 1..Len(p)
  BY LenProperties
<1>3. IsFiniteSet(1..Len(p)) /\ Cardinality(1..Len(p)) = Len(p)
  BY <1>2, FS_Interval
<1>4. p \in Surjection(1..Len(p), Ids(p))
  BY <1>2 DEF Surjection, Ids
<1>5. IsFiniteSet(Ids(p)) /\ Cardinality(Ids(p)) <= Len(p)
  BY <1>3, <1>4, FS_Surjection
<1>6. ledger' \ ledger = Ids(p)
  BY <1>1 DEF PersistBatch
<1>. QED  BY <1>1, <1>2, <1>5, <1>6, FS_CardinalityType

-----------------------------------------------------------------------------
(* The invariant is inductive. *)

\* A step of a task that commits nothing.
LEMMA TaskStop ==
    ASSUME TypeOK, CheckpointEvery >= 1, StopInv, StopNext, NEW w \in Workers, RunTask(w),
           ~PersistBatch(w), ledger' \subseteq ledger
    PROVE  StopTask(w)'
<1>0. /\ late \in Nat /\ late' \in {0, late} /\ late' \in Nat
      /\ ~(StopRequested /\ StopRequested') => late' = 0
      /\ late = 0 => late' = 0
      /\ ~StopRequested => late = 0
  BY NothingLate DEF StopInv
<1>1. /\ job[w] \in Jobs /\ job[w].since \in Nat /\ Len(job[w].page) \in Nat
      /\ job \in [Workers -> Jobs] /\ pc \in [Workers -> Steps]
  BY JobFrame DEF TypeOK
<1>2. /\ job[w].since = 0 \/ job[w].since < CheckpointEvery
      /\ pc[w] = "mark" /\ job[w].seen = "running" => late = 0
      /\ pc[w] \in {"prepare", "open", "poll"} => late = 0
      /\ pc[w] \in {"fetch", "persist"} => late <= job[w].since
      /\ pc[w] = "download" => late <= job[w].since + Len(job[w].page)
  BY DEF StopInv, StopTask
<1>a. CASE Raise(w) \/ EndTask(w)
  <2>1. pc'[w] \in {"idle", "raise"} /\ (job'[w].since = 0 \/ job'[w].since = job[w].since)
    BY <1>a, JobFrame
  <2>. QED  BY <1>2, <2>1 DEF StopTask
\* A step that keeps the job and goes on after nothing was copied.
<1>b. ASSUME job' = job, late' = 0, pc'[w] \notin {"persist", "download"}
      PROVE  StopTask(w)'
  BY <1>1, <1>2, <1>b DEF StopTask
<1>c. ASSUME job' = job, pc'[w] \in {"load", "lastCheckpoint", "assemble", "complete"}
      PROVE  StopTask(w)'
  BY <1>2, <1>c DEF StopTask
<1>3. CASE TakeTask(w)
  <2>1. job' = job /\ pc'[w] = "load"
    BY <1>1, <1>3, GotoFrame DEF TakeTask
  <2>. QED  BY <1>c, <2>1
<1>4. CASE LoadExport(w) /\ ~EndTask(w)
  <2>1. /\ Goto(w, "mark") /\ job' = [job EXCEPT ![w] = CopyOfRow] /\ status' = status
    BY <1>4 DEF LoadExport, rowVars
  <2>2. pc'[w] = "mark" /\ job'[w] = CopyOfRow
    BY <1>1, <2>1, GotoFrame
  <2>3. job'[w].since = 0 /\ job'[w].seen = status
    BY <2>2 DEF CopyOfRow, NoJob
  <2>4. status = "running" => late' = 0
    BY <1>0 DEF StopRequested
  <2>. QED  BY <2>2, <2>3, <2>4 DEF StopTask
<1>5. CASE MarkRunning(w) /\ ~EndTask(w)
  <2>1. /\ pc[w] = "mark" /\ Goto(w, "prepare") /\ job' = job
        /\ job[w].seen = "running" \/ status' = "running"
    BY <1>5 DEF MarkRunning
  <2>2. late' = 0
    BY <1>0, <1>2, <2>1 DEF StopRequested
  <2>3. pc'[w] = "prepare"
    BY <1>1, <2>1, GotoFrame
  <2>. QED  BY <1>b, <2>1, <2>2, <2>3
<1>6. CASE PrepareDir(w) \/ OpenWorkfile(w)
  <2>1. pc[w] \in {"prepare", "open"} /\ job' = job /\ (Goto(w, "open") \/ Goto(w, "fetch"))
    BY <1>6 DEF PrepareDir, OpenWorkfile
  <2>2. late' = 0 /\ pc'[w] \in {"open", "fetch"}
    BY <1>0, <1>1, <1>2, <2>1, GotoFrame
  <2>. QED  BY <1>b, <2>1, <2>2
<1>7. CASE FetchBatch(w)
  <2>1. PICK p \in Pages(job[w].off) :
           job' = [job EXCEPT ![w].off = p[Len(p)],
                              ![w].cnt = @ + Len(p),
                              ![w].files = @ + Cardinality(Ids(p) \cap Media),
                              ![w].page = p,
                              ![w].buf = @ \o p,
                              ![w].floods = 0, ![w].tries = 0]
    BY <1>7 DEF FetchBatch
  <2>2. pc[w] = "fetch" /\ pc'[w] = "persist"
    BY <1>1, <1>7, GotoFrame DEF FetchBatch
  <2>3. job'[w] = [job[w] EXCEPT !.off = p[Len(p)], !.cnt = @ + Len(p),
                      !.files = @ + Cardinality(Ids(p) \cap Media), !.page = p,
                      !.buf = @ \o p, !.floods = 0, !.tries = 0]
    BY <1>1, <2>1
  <2>4. job'[w].since = job[w].since /\ job'[w].page = p
    BY <1>1, <2>3 DEF Jobs
  <2>5. Len(p) <= BatchSize
    BY PageLength
  <2>6. late' <= job'[w].since
    BY <1>0, <1>1, <1>2, <2>2, <2>4
  <2>. QED  BY <1>2, <2>2, <2>4, <2>5, <2>6 DEF StopTask
<1>8. CASE FetchEnd(w)
  <2>1. pc'[w] = "lastCheckpoint" /\ job'[w] = [job[w] EXCEPT !.buf = <<>>]
    BY <1>1, <1>8, GotoFrame DEF FetchEnd
  <2>2. job'[w].since = job[w].since
    BY <1>1, <2>1 DEF Jobs
  <2>. QED  BY <1>2, <2>1, <2>2 DEF StopTask
<1>9. CASE (FloodWait(w) \/ NetworkError(w)) /\ ~Raise(w)
  <2>1. /\ pc[w] = "fetch" /\ pc' = pc
        /\ \/ job' = [job EXCEPT ![w].floods = @ + 1]
           \/ job' = [job EXCEPT ![w].tries = @ + 1]
    BY <1>9 DEF FloodWait, NetworkError
  <2>2. job'[w].since = job[w].since
    BY <1>1, <2>1 DEF Jobs
  <2>3. late' <= job'[w].since
    BY <1>0, <1>1, <1>2, <2>1, <2>2
  <2>. QED  BY <1>2, <2>1, <2>2, <2>3 DEF StopTask
<1>10. CASE DownloadBatch(w)
  <2>1. PICK n \in {0, SinceCheckpoint(w)}, step \in {"fetch", "checkpoint"} :
           /\ job' = [job EXCEPT ![w].page = <<>>, ![w].since = n] /\ Goto(w, step)
           /\ \/ step = "checkpoint" /\ n = 0
              \/ step = "fetch" /\ n = SinceCheckpoint(w) /\ n < CheckpointEvery
    BY <1>10 DEF DownloadBatch
  <2>2. pc[w] = "download" /\ pc'[w] = step
    BY <1>1, <1>10, <2>1, GotoFrame DEF DownloadBatch
  <2>3. job'[w] = [job[w] EXCEPT !.page = <<>>, !.since = n]
    BY <1>1, <2>1
  <2>4. job'[w].since = n
    BY <1>1, <2>3 DEF Jobs
  <2>5. CASE step = "checkpoint"
    BY <2>1, <2>2, <2>4, <2>5 DEF StopTask
  <2>6. CASE step = "fetch"
    <3>1. n = job[w].since + Len(job[w].page) /\ n < CheckpointEvery
      BY <2>1, <2>6 DEF SinceCheckpoint
    <3>2. late' <= n
      BY <1>0, <1>1, <1>2, <2>2, <3>1
    <3>. QED  BY <2>2, <2>4, <2>6, <3>1, <3>2 DEF StopTask
  <2>. QED  BY <2>5, <2>6
<1>11. CASE (BatchCheckpoint(w) \/ PollStatus(w)) /\ ~EndTask(w) /\ ~Raise(w)
  <2>1. /\ ~StopRequested /\ job' = job /\ (Goto(w, "poll") \/ Goto(w, "fetch"))
    BY <1>11 DEF BatchCheckpoint, PollStatus, Checkpoint
  <2>2. late' = 0 /\ pc'[w] \in {"poll", "fetch"}
    BY <1>0, <1>1, <2>1, GotoFrame
  <2>. QED  BY <1>b, <2>1, <2>2
<1>12. CASE LastCheckpoint(w) /\ ~EndTask(w) /\ ~Raise(w)
  <2>1. job' = job /\ Goto(w, "assemble")
    BY <1>12 DEF LastCheckpoint, Checkpoint
  <2>2. pc'[w] = "assemble"
    BY <1>1, <2>1, GotoFrame
  <2>. QED  BY <1>c, <2>1, <2>2
<1>13. CASE Assemble(w)
  <2>1. PICK step \in {"complete", "raise"} : Goto(w, step) /\ job' = job
    BY <1>13 DEF Assemble
  <2>2. pc'[w] = step
    BY <1>1, <2>1, GotoFrame
  <2>. QED  BY <1>2, <2>1, <2>2 DEF StopTask
<1>14. CASE \/ PrepareFails(w) \/ AccessRevoked(w) \/ PersistFails(w) \/ MarkFailed(w)
            \/ Complete(w)
  BY <1>a, <1>14 DEF PrepareFails, AccessRevoked, PersistFails, MarkFailed, Complete
<1>. QED  BY <1>a, <1>3, <1>4, <1>5, <1>6, <1>7, <1>8, <1>9, <1>10, <1>11, <1>12, <1>13, <1>14
     DEF RunTask

\* Every step keeps the invariant.
LEMMA StopStep ==
    ASSUME TypeOK, TypeOK', OneTask, OneTask', NoOrphan, CheckpointEvery >= 1, StopInv,
           [StopNext]_stopVars
    PROVE  StopInv'
<1>1. CASE UNCHANGED stopVars
  BY <1>1 DEF stopVars, vars, rowVars, taskVars, StopInv, StopBounded, StopRequested, StopTask
<1>2. ASSUME StopNext, ledger' \subseteq ledger, \A w \in Workers : StopTask(w)'
      PROVE  StopInv'
  <2>1. /\ late' \in {0, late} /\ late' \in Nat /\ (~StopRequested' => late' = 0)
    BY <1>2, NothingLate
  <2>2. late \in Nat /\ late < CheckpointEvery + BatchSize
    BY DEF StopInv, StopBounded
  <2>3. late' < CheckpointEvery + BatchSize
    BY <2>1, <2>2, BatchAssumption, LimitAssumption
  <2>. QED  BY <1>2, <2>1, <2>3 DEF StopInv, StopBounded
\* A worker that is idle, or whose task stands still.
<1>3. ASSUME NEW v \in Workers, pc'[v] = "idle", job'[v].since = 0
      PROVE  StopTask(v)'
  BY <1>3 DEF StopTask
<1>4. ASSUME StopNext, ledger' \subseteq ledger, NEW v \in Workers, pc'[v] = pc[v], job'[v] = job[v]
      PROVE  StopTask(v)'
  <2>1. late \in Nat /\ late' \in {0, late} /\ (late = 0 => late' = 0)
    BY <1>4, NothingLate DEF StopInv
  <2>2. job[v].since \in Nat /\ Len(job[v].page) \in Nat /\ StopTask(v)
    BY JobFrame DEF StopInv
  <2>3. \A n \in Nat : late <= n => late' <= n
    BY <2>1
  <2>. QED  BY <1>4, <2>1, <2>2, <2>3 DEF StopTask
<1>5. ASSUME StopNext, NEW w \in Workers, RunTask(w) PROVE StopInv'
  <2>1. \A v \in Workers \ {w} : pc'[v] = pc[v] /\ job'[v] = job[v]
    BY <1>5, TaskKinds DEF TaskFrame
  <2>2. CASE ~PersistBatch(w)
    <3>1. ledger' \subseteq ledger
      BY <1>5, <2>2, TaskKinds DEF Leaves, Loads, Moves, FetchBatch, ledgerVars
    <3>2. StopTask(w)'
      BY <1>5, <2>2, <3>1, TaskStop
    <3>. QED  BY <1>2, <1>4, <1>5, <2>1, <3>1, <3>2
  <2>3. CASE PersistBatch(w)
    <3>1. /\ pc[w] = "persist" /\ pc'[w] = "download" /\ job' = job
      BY <2>3, GotoFrame DEF PersistBatch, TypeOK
    <3>2. PICK c \in Nat : c = Cardinality(ledger' \ ledger) /\ c <= Len(job[w].page)
      BY <2>3, CommittedLength
    <3>3. /\ late \in Nat /\ job[w].since \in Nat /\ Len(job[w].page) \in Nat
          /\ late <= job[w].since /\ Len(job[w].page) <= BatchSize
          /\ job[w].since = 0 \/ job[w].since < CheckpointEvery
      BY <3>1, JobFrame DEF StopInv, StopTask
    <3>4. /\ late' = late + c \/ late' = 0
          /\ ~StopRequested' => late' = 0
      BY <1>5, <3>2 DEF StopNext
    <3>5. /\ late' \in Nat /\ late' < CheckpointEvery + BatchSize
          /\ late' <= job[w].since + Len(job[w].page)
      <4>1. BatchSize \in Nat \ {0} /\ CheckpointEvery \in Nat /\ CheckpointEvery >= 1
        BY BatchAssumption, LimitAssumption
      <4>2. PICK s \in Nat, l \in Nat, a \in Nat :
               s = job[w].since /\ l = Len(job[w].page) /\ a = late
        BY ONLY <3>3
      <4>3. /\ a <= s /\ c <= l /\ l <= BatchSize /\ (s = 0 \/ s < CheckpointEvery)
            /\ late' = a + c \/ late' = 0
        BY ONLY <3>2, <3>3, <3>4, <4>2
      <4>4. s \in Nat /\ l \in Nat /\ a \in Nat /\ c \in Nat
        OBVIOUS
      <4>5. late' \in Nat /\ late' < CheckpointEvery + BatchSize /\ late' <= s + l
        BY ONLY <4>1, <4>3, <4>4
      <4>. QED  BY ONLY <4>2, <4>5
    <3>6. StopTask(w)'
      BY <3>1, <3>3, <3>5 DEF StopTask
    <3>7. ASSUME NEW v \in Workers \ {w} PROVE StopTask(v)'
      <4>1. pc'[v] = "idle" /\ job'[v] = job[v]
        BY <1>5, <3>1, OthersIdle
      <4>2. job[v].since = 0 \/ job[v].since < CheckpointEvery
        BY DEF StopInv, StopTask
      <4>. QED  BY <4>1, <4>2 DEF StopTask
    <3>. QED  BY <3>4, <3>5, <3>6, <3>7 DEF StopInv, StopBounded
  <2>. QED  BY <2>2, <2>3
<1>6. ASSUME StopNext, ~\E w \in Workers : RunTask(w) PROVE StopInv'
  <2>1. Aside \/ PurgeRow \/ \E w \in Workers : Lost(w)
    BY <1>6, OtherKinds DEF StopNext, Next
  <2>2. CASE Aside \/ PurgeRow
    <3>1. UNCHANGED <<pc, job>> /\ ledger' \subseteq ledger
      BY <2>2 DEF Aside, PurgeRow, DeleteLedger, ledgerVars, taskVars
    <3>. QED  BY <1>2, <1>4, <1>6, <3>1
  <2>3. ASSUME NEW w \in Workers, Lost(w) PROVE StopInv'
    <3>1. /\ \A v \in Workers \ {w} : pc'[v] = pc[v] /\ job'[v] = job[v]
          /\ pc'[w] = "idle" /\ ledger' \subseteq ledger
      BY <2>3, LostFrame DEF ledgerVars
    <3>2. job'[w].since = 0
      BY <2>3 DEF Lost, Die, TypeOK, NoJob
    <3>. QED  BY <1>2, <1>3, <1>4, <1>6, <3>1, <3>2
  <2>. QED  BY <2>1, <2>2, <2>3
<1>. QED  BY <1>1, <1>5, <1>6

\* After a pause or a cancel an export commits fewer than checkpoint_every and
\* one page of messages more, through losses, redeliveries and new requests.
\* checkpoint_every is at least one (tests/test_config.py:8).
THEOREM StopIsBounded == CheckpointEvery >= 1 /\ StopSpec /\ []OneTask => []StopBounded
<1>1. CheckpointEvery >= 1 /\ StopInit => StopInv
  BY BatchAssumption, LimitAssumption
  DEF StopInit, Init, StopInv, StopBounded, StopTask, NoJob
<1>2. CheckpointEvery >= 1 /\ TypeOK /\ TypeOK' /\ OneTask /\ OneTask' /\ SerialInv /\ StopInv
         /\ [StopNext]_stopVars => StopInv'
  BY StopStep DEF SerialInv
<1>3. StopInv => StopBounded
  BY DEF StopInv
<1>4. CheckpointEvery >= 1 => (CheckpointEvery >= 1)'
  OBVIOUS
<1>. QED  BY <1>1, <1>2, <1>3, <1>4, StopIsExport, TypeCorrect, SerialInvariant, PTL
     DEF StopSpec
=============================================================================
