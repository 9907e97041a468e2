---------------------------- MODULE ExportEngine ----------------------------
(***************************************************************************)
(* One chat export: its row in chat_exports, the message and media ledger, *)
(* the files of its directory, the Celery tasks that run it and the API    *)
(* requests that steer it (backend/app/services/export_engine.py,          *)
(* backend/app/api/exports.py, backend/app/workers/).                      *)
(*                                                                         *)
(* A worker copies the row when its task starts and works on the copy; the *)
(* row, the ledger and the workfile are written at different moments.  A   *)
(* database transaction is one action, and so is the code between two      *)
(* awaits.  Wording, speed, ETA and message contents are left out.         *)
(* An operator marked "(mistake)" is no part of the specification: it is a *)
(* bug that the operator it is named after could have and a run must see.  *)
(***************************************************************************)
EXTENDS Naturals, FiniteSets, Sequences, SequencesExt

CONSTANTS
    Workers,          \* Celery worker processes
    MaxId,            \* bound: message ids are 1..MaxId
    OldMessages,      \* ids in the chat when the export is created
    Media,            \* ids of the messages that carry one media file
    IncludeMedia,     \* options["include_media"]
    BatchSize,        \* BATCH_SIZE: messages per page
    CheckpointEvery,  \* settings.checkpoint_every
    MaxFloodWaits,    \* MAX_CONSECUTIVE_FLOOD_WAITS
    MaxAttempts,      \* MAX_FETCH_ATTEMPTS
    Budget            \* bound: how often each environment event may happen

MessageIds == 1..MaxId
EventKinds == {"request", "workerLoss", "childLoss", "redelivery",
               "dbError", "mediaError", "brokerDown", "newMessage"}

ASSUME ChatAssumption == MaxId \in Nat /\ OldMessages \subseteq MessageIds
ASSUME BatchAssumption == BatchSize \in Nat \ {0}
ASSUME LimitAssumption == /\ CheckpointEvery \in Nat
                          /\ MaxFloodWaits \in Nat
                          /\ MaxAttempts \in Nat \ {0}
ASSUME OptionAssumption == IncludeMedia \in BOOLEAN
ASSUME BudgetAssumption == Budget \in [EventKinds -> Nat]

VARIABLES
    chat,       \* the ids Telegram returns for the chat
    status, rowCount, rowOffset, rowFiles, rowDir,   \* the chat_exports row
    ledger,     \* ids in the messages table
    pending,    \* ids whose media_files row is still "pending"
    disk,       \* which artifacts exist in the export directory
    workfile,   \* lines of messages.jsonl
    archive,    \* messages of messages.json, oldest first
    linked,     \* workers whose open workfile is the one in the directory
    ready,      \* task messages waiting in the broker
    held,       \* workers whose message the broker will redeliver on loss
    request,    \* the API request in progress
    pc, job,    \* per worker: the next step of run(), and its local variables
    budget      \* environment events left

rowVars    == <<status, rowCount, rowOffset, rowFiles, rowDir>>
ledgerVars == <<ledger, pending>>
diskVars   == <<disk, workfile, archive, linked>>
taskVars   == <<pc, job>>
queueVars  == <<ready, held>>
vars == <<chat, rowVars, ledgerVars, diskVars, queueVars, request, taskVars, budget>>

Statuses == {"queued", "running", "paused", "cancelled", "failed", "completed",
             "deleted"}                    \* "deleted": the row is gone
Steps == {"idle", "load", "mark", "prepare", "open", "fetch", "persist",
          "download", "checkpoint", "poll", "lastCheckpoint", "assemble",
          "complete", "raise"}
Requests == [op : {"none", "pause", "cancel", "resume", "enqueue", "delete",
                   "rmtree", "purge"},
             seen : Statuses, dir : BOOLEAN]
\* seen..files: the row as the task read it, then its own copy; since: messages
\* since the last checkpoint; page: the batch in hand; buf: lines not yet in the
\* file; floods, tries: retries of the fetch in progress.
Jobs == [seen : Statuses, off : Nat, cnt : Nat, files : Nat, since : Nat,
         page : Seq(MessageIds), buf : Seq(MessageIds), floods : Nat, tries : Nat]
NoJob == [seen |-> "queued", off |-> 0, cnt |-> 0, files |-> 0, since |-> 0, page |-> <<>>,
          buf |-> <<>>, floods |-> 0, tries |-> 0]
NoRequest == [op |-> "none", seen |-> "queued", dir |-> FALSE]

Ids(s) == {s[i] : i \in DOMAIN s}
Spend(kind) == budget[kind] > 0 /\ budget' = [budget EXCEPT ![kind] = @ - 1]

TypeOK ==
    /\ chat \subseteq MessageIds
    /\ status \in Statuses
    /\ rowCount \in Nat /\ rowOffset \in Nat /\ rowFiles \in Nat
    /\ rowDir \in BOOLEAN
    /\ ledger \subseteq MessageIds
    /\ pending \subseteq ledger
    /\ disk \subseteq {"workfile", "media", "archive"}
    /\ workfile \in Seq(MessageIds) /\ archive \in Seq(MessageIds)
    /\ linked \subseteq Workers
    /\ ready \in Nat /\ held \subseteq Workers
    /\ request \in Requests
    /\ pc \in [Workers -> Steps]
    /\ job \in [Workers -> Jobs]
    /\ budget \in [EventKinds -> Nat]

\* create_export has committed the row and is about to enqueue the task.
Init ==
    /\ chat = OldMessages
    /\ status = "queued" /\ rowCount = 0 /\ rowOffset = 0 /\ rowFiles = 0
    /\ rowDir = FALSE
    /\ ledger = {} /\ pending = {}
    /\ disk = {} /\ workfile = <<>> /\ archive = <<>> /\ linked = {}
    /\ ready = 0 /\ held = {}
    /\ request = [NoRequest EXCEPT !.op = "enqueue"]
    /\ pc = [w \in Workers |-> "idle"] /\ job = [w \in Workers |-> NoJob]
    /\ budget = Budget

-----------------------------------------------------------------------------
(* Steps of a task that several handlers share. *)

Goto(w, step) == pc' = [pc EXCEPT ![w] = step]

\* JsonLineWriter.close: the buffered lines reach the file the worker opened,
\* which is no longer in the directory when a delete removed it meanwhile.
Appended_Overwrites(w) == job[w].buf                                 \* (mistake)
Appended(w) == workfile \o job[w].buf
CloseWorkfile(w) ==
    /\ workfile' = IF w \in linked THEN Appended(w) ELSE workfile
    /\ linked' = linked \ {w}
    /\ UNCHANGED <<disk, archive>>

\* An exception leaves _run_with_client; run() will mark the row failed.
Raise(w) ==
    /\ Goto(w, "raise")
    /\ CloseWorkfile(w)
    /\ job' = [job EXCEPT ![w].buf = <<>>]

\* run() returns or raises: the broker message is acknowledged.
EndTask(w) ==
    /\ Goto(w, "idle")
    /\ job' = [job EXCEPT ![w] = NoJob]
    /\ held' = held \ {w}
    /\ UNCHANGED ready

StopRequested == status \in {"paused", "cancelled"}

-----------------------------------------------------------------------------
(* run(): take the task, read the row, mark it running. *)

TakeTask(w) ==
    /\ pc[w] = "idle" /\ ready > 0
    /\ ready' = ready - 1 /\ held' = held \cup {w}
    /\ Goto(w, "load")
    /\ UNCHANGED <<chat, rowVars, ledgerVars, diskVars, request, job, budget>>

\* The SELECT of run(): the copy the task works on from here.
CopyOfRow_WrongColumn == [NoJob EXCEPT !.seen = status, !.off = rowCount,
                              !.cnt = rowCount, !.files = rowFiles]  \* (mistake)
CopyOfRow_FromTop == [NoJob EXCEPT !.seen = status, !.cnt = rowCount,
                                   !.files = rowFiles]               \* (mistake)
CopyOfRow == [NoJob EXCEPT !.seen = status, !.off = rowOffset,
                           !.cnt = rowCount, !.files = rowFiles]
LoadExport(w) ==
    /\ pc[w] = "load"
    /\ \/ /\ status \in {"cancelled", "completed", "deleted"}
          /\ EndTask(w)
       \/ /\ status \notin {"cancelled", "completed", "deleted"}
          /\ Goto(w, "mark")
          /\ job' = [job EXCEPT ![w] = CopyOfRow]
          /\ UNCHANGED queueVars
    /\ UNCHANGED <<chat, rowVars, ledgerVars, diskVars, request, budget>>

\* The UPDATE of run().  SQLAlchemy leaves out a column whose value is the one
\* read; on a deleted row the UPDATE raises, outside run()'s try.
MarkRunning(w) ==
    /\ pc[w] = "mark"
    /\ \/ /\ status = "deleted"
          /\ EndTask(w)
          /\ UNCHANGED rowVars
       \/ /\ status # "deleted"
          /\ status' = IF job[w].seen = "running" THEN status ELSE "running"
          /\ Goto(w, "prepare")
          /\ UNCHANGED <<rowCount, rowOffset, rowFiles, rowDir, job, queueVars>>
    /\ UNCHANGED <<chat, ledgerVars, diskVars, request, budget>>

\* Client, entity and total obtained, export_dir written to the row.
PrepareDir(w) ==
    /\ pc[w] = "prepare"
    /\ status # "deleted"
    /\ rowDir' = TRUE
    /\ Goto(w, "open")
    /\ UNCHANGED <<chat, status, rowCount, rowOffset, rowFiles, ledgerVars,
                   diskVars, queueVars, request, job, budget>>

\* No client, an unresolvable chat, or no row left to write export_dir to.
PrepareFails(w) ==
    /\ pc[w] = "prepare"
    /\ Raise(w)
    /\ UNCHANGED <<chat, rowVars, ledgerVars, queueVars, request, budget>>

\* JsonLineWriter.open appends to whatever messages.jsonl holds.
OpenWorkfile(w) ==
    /\ pc[w] = "open"
    /\ disk' = disk \cup {"workfile"}
    /\ linked' = linked \cup {w}
    /\ Goto(w, "fetch")
    /\ UNCHANGED <<chat, rowVars, ledgerVars, workfile, archive, queueVars,
                   request, job, budget>>

-----------------------------------------------------------------------------
(* The loop of _run_with_client. *)

\* get_messages(limit=BATCH_SIZE, offset_id): newest first, ids below offset_id.
Below_OffByOne(o) == {m \in chat : o = 0 \/ m + 1 < o}    \* (mistake)
Below(o) == {m \in chat : o = 0 \/ m < o}
IsPage(p, o) ==
    /\ \A i, j \in DOMAIN p : i < j => p[i] > p[j]
    /\ \A m \in Below(o) :
          m \in Ids(p) \/ (Len(p) = BatchSize /\ m < p[BatchSize])
Pages(o) == {p \in UNION {[1..n -> Below(o)] : n \in 0..BatchSize} : IsPage(p, o)}

\* A page: counted, its lines written to the workfile's buffer.
FetchBatch(w) ==
    /\ pc[w] = "fetch"
    /\ \E p \in Pages(job[w].off) :
          /\ p # <<>>
          /\ job' = [job EXCEPT ![w].off = p[Len(p)],
                                ![w].cnt = @ + Len(p),
                                ![w].files = @ + Cardinality(Ids(p) \cap Media),
                                ![w].page = p,
                                ![w].buf = @ \o p,
                                ![w].floods = 0, ![w].tries = 0]
    /\ Goto(w, "persist")
    /\ UNCHANGED <<chat, rowVars, ledgerVars, diskVars, queueVars, request, budget>>

\* An empty page ends the loop; the workfile is closed.
LastPage_Short(w) == \E p \in Pages(job[w].off) : Len(p) < BatchSize  \* (mistake)
LastPage(w) == <<>> \in Pages(job[w].off)
FetchEnd(w) ==
    /\ pc[w] = "fetch"
    /\ LastPage(w)
    /\ CloseWorkfile(w)
    /\ job' = [job EXCEPT ![w].buf = <<>>]
    /\ Goto(w, "lastCheckpoint")
    /\ UNCHANGED <<chat, rowVars, ledgerVars, queueVars, request, budget>>

FloodWait(w) ==
    /\ pc[w] = "fetch"
    /\ \/ /\ job[w].floods < MaxFloodWaits
          /\ job' = [job EXCEPT ![w].floods = @ + 1]
          /\ UNCHANGED <<pc, diskVars>>
       \/ /\ job[w].floods >= MaxFloodWaits
          /\ Raise(w)
    /\ UNCHANGED <<chat, rowVars, ledgerVars, queueVars, request, budget>>

NetworkError(w) ==
    /\ pc[w] = "fetch"
    /\ \/ /\ job[w].tries + 1 < MaxAttempts
          /\ job' = [job EXCEPT ![w].tries = @ + 1]
          /\ UNCHANGED <<pc, diskVars>>
       \/ /\ job[w].tries + 1 >= MaxAttempts
          /\ Raise(w)
    /\ UNCHANGED <<chat, rowVars, ledgerVars, queueVars, request, budget>>

\* ChatForbidden, ChannelPrivate, or any error _fetch_batch does not name.
AccessRevoked(w) ==
    /\ pc[w] = "fetch"
    /\ Raise(w)
    /\ UNCHANGED <<chat, rowVars, ledgerVars, queueVars, request, budget>>

\* The row's offset and count, as _persist_batch and _checkpoint write them.
WriteOffset_NextId(w) ==                                             \* (mistake)
    rowCount' = job[w].cnt /\ rowOffset' = job[w].off - 1
WriteOffset(w) == rowCount' = job[w].cnt /\ rowOffset' = job[w].off

\* One transaction: the messages, their media rows and the row's checkpoint.
PersistBatch(w) ==
    /\ pc[w] = "persist"
    /\ status # "deleted"                          \* foreign key
    /\ Ids(job[w].page) \cap ledger = {}           \* unique (export, message)
    /\ ledger' = ledger \cup Ids(job[w].page)
    /\ pending' = pending \cup (Ids(job[w].page) \cap Media)
    /\ WriteOffset(w)
    /\ Goto(w, "download")
    /\ UNCHANGED <<chat, status, rowFiles, rowDir, diskVars, queueVars, request,
                   job, budget>>

\* IntegrityError or a lost connection: the whole transaction rolls back.
PersistFails(w) ==
    /\ pc[w] = "persist"
    /\ \/ /\ status = "deleted" \/ Ids(job[w].page) \cap ledger # {}
          /\ UNCHANGED budget
       \/ Spend("dbError")
    /\ Raise(w)
    /\ UNCHANGED <<chat, rowVars, ledgerVars, queueVars, request>>

\* download_batch settles every media row of the page ("downloaded" or
\* "failed") but those whose coroutine dies of its own mkdir or _set_status:
\* gather(return_exceptions=True) swallows that, and the rows stay pending.
\* Then the counter that decides on a checkpoint.
Downloads_ButLast(w) == (Ids(job[w].page) \cap Media) \ {job[w].off}  \* (mistake)
Downloads(w) == IF IncludeMedia THEN Ids(job[w].page) \cap Media ELSE {}
SinceCheckpoint_LastOnly(w) == Len(job[w].page)                      \* (mistake)
SinceCheckpoint(w) == job[w].since + Len(job[w].page)
DownloadBatch(w) ==
    /\ pc[w] = "download"
    /\ \E unsettled \in SUBSET Downloads(w) :
          /\ pending' = pending \ (Downloads(w) \ unsettled)
          /\ \/ unsettled = {} /\ UNCHANGED budget
             \/ unsettled # {} /\ Spend("mediaError")
          /\ \/ Downloads(w) = unsettled /\ UNCHANGED disk
             \/ Downloads(w) # {} /\ disk' = disk \cup {"media"}
    /\ \/ /\ SinceCheckpoint(w) < CheckpointEvery
          /\ job' = [job EXCEPT ![w].page = <<>>, ![w].since = SinceCheckpoint(w)]
          /\ Goto(w, "fetch")
       \/ /\ SinceCheckpoint(w) >= CheckpointEvery
          /\ job' = [job EXCEPT ![w].page = <<>>, ![w].since = 0]
          /\ Goto(w, "checkpoint")
    /\ UNCHANGED <<chat, rowVars, ledger, workfile, archive, linked, queueVars,
                   request>>

\* _checkpoint: write the copy back, and obey the status read with it.
WriteFiles_Adds(w) == rowFiles' = rowFiles + job[w].files             \* (mistake)
WriteFiles(w) == rowFiles' = job[w].files
Checkpoint(w, next) ==
    \/ /\ status = "deleted"
       /\ Raise(w)
       /\ UNCHANGED <<rowVars, queueVars>>
    \/ /\ status # "deleted"
       /\ WriteOffset(w) /\ WriteFiles(w)
       /\ UNCHANGED <<status, rowDir>>
       /\ \/ StopRequested /\ CloseWorkfile(w) /\ EndTask(w)
          \/ ~StopRequested /\ Goto(w, next) /\ UNCHANGED <<diskVars, queueVars, job>>

BatchCheckpoint(w) ==
    /\ pc[w] = "checkpoint"
    /\ Checkpoint(w, "poll")
    /\ UNCHANGED <<chat, ledgerVars, request, budget>>

\* _should_stop: a second read of the status; a missing row does not stop it.
PollStatus(w) ==
    /\ pc[w] = "poll"
    /\ \/ StopRequested /\ CloseWorkfile(w) /\ EndTask(w)
       \/ ~StopRequested /\ Goto(w, "fetch") /\ UNCHANGED <<diskVars, queueVars, job>>
    /\ UNCHANGED <<chat, rowVars, ledgerVars, request, budget>>

LastCheckpoint(w) ==
    /\ pc[w] = "lastCheckpoint"
    /\ Checkpoint(w, "assemble")
    /\ UNCHANGED <<chat, ledgerVars, request, budget>>

-----------------------------------------------------------------------------
(* _finalize and _mark_failed. *)

\* assemble_json_archive: messages.json is opened before messages.jsonl is read.
Assemble(w) ==
    /\ pc[w] = "assemble"
    /\ disk' = disk \cup {"archive"}
    /\ \/ /\ "workfile" \in disk
          /\ archive' = Reverse(workfile)
          /\ Goto(w, "complete")
       \/ /\ "workfile" \notin disk
          /\ archive' = <<>>
          /\ Goto(w, "raise")
    /\ UNCHANGED <<chat, rowVars, ledgerVars, workfile, linked, queueVars,
                   request, job, budget>>

Complete(w) ==
    /\ pc[w] = "complete"
    /\ \/ /\ status = "deleted"
          /\ Raise(w)
          /\ UNCHANGED <<rowVars, queueVars>>
       \/ /\ status # "deleted"
          /\ status' = "completed"
          /\ EndTask(w)
          /\ UNCHANGED <<rowCount, rowOffset, rowFiles, rowDir, diskVars>>
    /\ UNCHANGED <<chat, ledgerVars, request, budget>>

FailedStatus_LogsOnly == status                                      \* (mistake)
FailedStatus == IF status = "deleted" THEN status ELSE "failed"
MarkFailed(w) ==
    /\ pc[w] = "raise"
    /\ status' = FailedStatus
    /\ EndTask(w)
    /\ UNCHANGED <<chat, rowCount, rowOffset, rowFiles, rowDir, ledgerVars,
                   diskVars, request, budget>>

-----------------------------------------------------------------------------
(* The API: a request reads the row, then commits what it decided on. *)

ReceiveRequest(op) ==
    /\ request.op = "none" /\ status # "deleted"
    /\ request' = [op |-> op, seen |-> status, dir |-> rowDir]
    /\ Spend("request")
    /\ UNCHANGED <<chat, rowVars, ledgerVars, diskVars, queueVars, taskVars>>

\* SQLAlchemy emits an UPDATE only when the value differs from the one it read.
CommitStatus(new) == status' = IF request.seen = new THEN status ELSE new

PauseOrCancel(op, new) ==
    /\ request.op = op
    /\ \/ /\ request.seen \in {"completed", "cancelled"}       \* 409
          /\ UNCHANGED status
       \/ /\ request.seen \notin {"completed", "cancelled"}
          /\ CommitStatus(new)
    /\ request' = NoRequest
    /\ UNCHANGED <<chat, rowCount, rowOffset, rowFiles, rowDir, ledgerVars,
                   diskVars, queueVars, taskVars, budget>>

PauseExport == PauseOrCancel("pause", "paused")
CancelExport == PauseOrCancel("cancel", "cancelled")

ResumeExport ==
    /\ request.op = "resume"
    /\ \/ /\ request.seen = "running"                          \* 409
          /\ request' = NoRequest
          /\ UNCHANGED status
       \/ /\ request.seen # "running"
          /\ CommitStatus("queued")
          /\ request' = [request EXCEPT !.op = "enqueue"]
    /\ UNCHANGED <<chat, rowCount, rowOffset, rowFiles, rowDir, ledgerVars,
                   diskVars, queueVars, taskVars, budget>>

\* task_runner.enqueue, after the commit: the broker may refuse the message.
Enqueue ==
    /\ request.op = "enqueue"
    /\ \/ ready' = ready + 1 /\ UNCHANGED budget
       \/ UNCHANGED ready /\ Spend("brokerDown")
    /\ request' = NoRequest
    /\ UNCHANGED <<chat, rowVars, ledgerVars, diskVars, held, taskVars>>

\* delete_export: commit "cancelled", remove the directory, delete the row.
DeleteExport ==
    /\ request.op = "delete"
    /\ status' = IF request.seen = "running" THEN "cancelled" ELSE status
    /\ request' = [request EXCEPT !.op = IF request.dir THEN "rmtree" ELSE "purge"]
    /\ UNCHANGED <<chat, rowCount, rowOffset, rowFiles, rowDir, ledgerVars,
                   diskVars, queueVars, taskVars, budget>>

RemoveTree ==
    /\ request.op = "rmtree"
    /\ disk' = {} /\ workfile' = <<>> /\ archive' = <<>> /\ linked' = {}
    /\ request' = [request EXCEPT !.op = "purge"]
    /\ UNCHANGED <<chat, rowVars, ledgerVars, queueVars, taskVars, budget>>

DeleteLedger_NoCascade == ledger' = {} /\ UNCHANGED pending          \* (mistake)
DeleteLedger == ledger' = {} /\ pending' = {}
PurgeRow ==
    /\ request.op = "purge"
    /\ status' = "deleted" /\ rowCount' = 0 /\ rowOffset' = 0 /\ rowFiles' = 0
    /\ rowDir' = FALSE
    /\ DeleteLedger
    /\ request' = NoRequest
    /\ UNCHANGED <<chat, diskVars, queueVars, taskVars, budget>>

HandleRequest ==
    \/ PauseExport \/ CancelExport \/ ResumeExport \/ Enqueue
    \/ DeleteExport \/ RemoveTree \/ PurgeRow

-----------------------------------------------------------------------------
(* The environment. *)

\* Telegram gives a new message an id above every earlier one.
NewMessage ==
    /\ Spend("newMessage")
    /\ \E m \in MessageIds : /\ \A n \in chat : n < m
                             /\ chat' = chat \cup {m}
    /\ UNCHANGED <<rowVars, ledgerVars, diskVars, queueVars, request, taskVars>>

\* A process dies: its variables are gone, and of the buffered lines some
\* prefix has reached the file.
Die(w) ==
    /\ pc[w] # "idle"
    /\ \E n \in 0..Len(job[w].buf) :
          workfile' = IF w \in linked THEN workfile \o SubSeq(job[w].buf, 1, n)
                                      ELSE workfile
    /\ linked' = linked \ {w}
    /\ pc' = [pc EXCEPT ![w] = "idle"]
    /\ job' = [job EXCEPT ![w] = NoJob]
    /\ UNCHANGED <<chat, rowVars, ledgerVars, disk, archive, request>>

\* The whole worker is lost: task_acks_late, so the broker redelivers.
WorkerLoss(w) ==
    /\ Spend("workerLoss") /\ Die(w)
    /\ ready' = IF w \in held THEN ready + 1 ELSE ready
    /\ held' = held \ {w}

\* Only the child process is lost (out of memory): Celery acknowledges the
\* message, task_reject_on_worker_lost being off.
ChildLoss(w) ==
    /\ Spend("childLoss") /\ Die(w)
    /\ held' = held \ {w}
    /\ UNCHANGED ready

\* The task outlives the broker's visibility timeout: delivered again while
\* the first run goes on.
Redeliver(w) ==
    /\ w \in held /\ Spend("redelivery")
    /\ ready' = ready + 1 /\ held' = held \ {w}
    /\ UNCHANGED <<chat, rowVars, ledgerVars, diskVars, request, taskVars>>

-----------------------------------------------------------------------------
RunTask(w) ==
    \/ TakeTask(w) \/ LoadExport(w) \/ MarkRunning(w)
    \/ PrepareDir(w) \/ PrepareFails(w) \/ OpenWorkfile(w)
    \/ FetchBatch(w) \/ FetchEnd(w)
    \/ FloodWait(w) \/ NetworkError(w) \/ AccessRevoked(w)
    \/ PersistBatch(w) \/ PersistFails(w) \/ DownloadBatch(w)
    \/ BatchCheckpoint(w) \/ PollStatus(w) \/ LastCheckpoint(w)
    \/ Assemble(w) \/ Complete(w) \/ MarkFailed(w)

Environment ==
    \/ NewMessage
    \/ \E w \in Workers : WorkerLoss(w) \/ ChildLoss(w) \/ Redeliver(w)

Next ==
    \/ \E op \in {"pause", "cancel", "resume", "delete"} : ReceiveRequest(op)
    \/ HandleRequest
    \/ Environment
    \/ \E w \in Workers : RunTask(w)

Spec == Init /\ [][Next]_vars

\* A living worker and a received request go on; nothing obliges a user to act,
\* Telegram to answer without errors, or a process to die.
FairSpec == /\ Spec
            /\ \A w \in Workers : WF_vars(RunTask(w))
            /\ WF_vars(HandleRequest)

-----------------------------------------------------------------------------
(* What holds whatever the interleaving of tasks, requests and losses. *)

\* Every message that existed when the export was created and has an id at or
\* above offset o is in the messages table.
Covered(o) == o = 0 \/ \A m \in OldMessages : m >= o => m \in ledger

\* The committed checkpoint never passes over a message: whichever task wrote
\* it last, resuming below it loses nothing (_persist_batch, _checkpoint).
CheckpointCovers == Covered(rowOffset)

\* A row that says "completed" stands for the whole history (_finalize).
CompletedIsComplete == status = "completed" => OldMessages \subseteq ledger

\* Why the two hold, inductively: every copy a task carries, however stale, is
\* covered by the ledger too; with the page in hand while its transaction is
\* still to come, and down to the end of the chat once the last page was empty.
CopySteps == {"mark", "prepare", "open", "fetch", "download", "checkpoint",
              "poll", "lastCheckpoint"}
TaskCovered(w) ==
    /\ pc[w] \in CopySteps => Covered(job[w].off)
    /\ pc[w] = "persist" =>
          \A m \in OldMessages : m >= job[w].off => m \in ledger \cup Ids(job[w].page)
    /\ pc[w] \in {"lastCheckpoint", "assemble", "complete"} => OldMessages \subseteq ledger
CoverageInv ==
    /\ OldMessages \subseteq chat
    /\ CheckpointCovers /\ CompletedIsComplete
    /\ IF status = "deleted" THEN request.op = "none"
                             ELSE \A w \in Workers : TaskCovered(w)

\* files_total never counts a media file whose row is not in the ledger:
\* a page is counted before its transaction, which may roll back.
FilesNotOvercounted == rowFiles <= Cardinality(ledger \cap Media)

\* A media row is pending while the task that committed it has the page in
\* hand.  After that it can stay so for good, even in a completed export, but
\* only by the death of a task or a swallowed failure of download_batch, and
\* each of these leaves at most the media of one page behind: no stop, error,
\* resume or second task does.
InHand == UNION {Ids(job[w].page) : w \in {v \in Workers : pc[v] = "download"}}
Spent(kind) == Budget[kind] - budget[kind]
Disturbances == Spent("workerLoss") + Spent("childLoss") + Spent("mediaError")
MediaSettled ==
    IncludeMedia => Cardinality(pending \ InHand) <= BatchSize * Disturbances

-----------------------------------------------------------------------------
(* What holds as long as one task of the export runs at a time. *)

\* The checkpoint describes the ledger exactly: messages_processed is its
\* size, checkpoint_offset_id its smallest id.
CheckpointExact ==
    /\ rowCount = Cardinality(ledger)
    /\ IF ledger = {} THEN rowOffset = 0
                      ELSE rowOffset \in ledger /\ \A m \in ledger : rowOffset <= m

\* No task fetches a page that is committed already, so the unique constraint
\* never fires and an export can always go on from its checkpoint.
NeverReprocessed ==
    \A w \in Workers : pc[w] = "persist" => Ids(job[w].page) \cap ledger = {}

\* The ledger has no hole: messages that arrive during the export are either
\* above everything exported or exported with their neighbours.
NoGap == \A m \in chat : \A n \in ledger : rowOffset <= m /\ m <= n => m \in ledger

\* An export implements ChatCopy: the checkpoint is its cursor, the ledger its
\* copy; whatever else the row says, only "completed" means done.
CopyState == CASE status = "completed" -> "done"
               [] status = "deleted" -> "gone"
               [] OTHER -> "open"
Copy == INSTANCE ChatCopy WITH copied <- ledger, cursor <- rowOffset, state <- CopyState
ImplementsChatCopy == Copy!Spec

\* messages.json of a completed export is the ledger, each message once,
\* oldest first, as the SQLite and HTML archives built from the ledger are
\* (while a delete is removing it, it is nobody's export any more).
ArchiveMatchesLedger ==
    status = "completed" /\ request.op # "purge" =>
        /\ Ids(archive) = ledger
        /\ \A i, j \in DOMAIN archive : i < j => archive[i] < archive[j]

-----------------------------------------------------------------------------
(* What the user asked for. *)

\* A paused or cancelled export is left only by another request.
StopSticks ==
    [][StopRequested => status' \in {"paused", "cancelled", "queued", "deleted"}]_vars

\* An export that waits or runs comes to rest: completed, failed, or stopped
\* by its user, however often Telegram throttles or refuses.
EventuallySettles ==
    status \in {"queued", "running"} ~> status \notin {"queued", "running"}
=============================================================================
