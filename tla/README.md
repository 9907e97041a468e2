# Telegram Archive & Migration Suite: a TLA+ verification

This directory specifies the parts of the suite whose correctness depends on the
order of things: exports that are paused, lost, redelivered and resumed; logins
and pooled clients shared by concurrent requests; a migration that runs for days
over one cursor file; recoveries that clear a chat before they fill it again; and
the smaller programs around them. TLC checks the specifications on small
instances, and TLAPS proves the safety properties of every component for every
instance (section 4). Paths below are relative to the repository (`src/`).

    tlc -workers 2 -config export_serial.cfg MCExportEngine.tla
    tlc -workers 2 -config tools.cfg MCTools.tla
    tlapm ExportEngineProofs.tla        # and ExportSerialProofs, ExportStopProofs
    tlapm SessionManagerProofs.tla      # and MigrationEngineProofs
    tlapm BackendProofs.tla             # and ToolProofs, RecoveryProofs

## 1. The system

Two programs live in the repository. The **suite** (`backend/`, `frontend/`) is a
FastAPI application with Celery workers, PostgreSQL and Redis that archives
Telegram chats and converts them to WhatsApp packages. The **recovery tools**
(`telegram_recovery_v2/`) are command-line programs that import a chat's history
into another chat.

### 1.1 Components, their state and what makes them correct

| Component | State | Operations | Correct when |
|---|---|---|---|
| Export engine (`services/export_engine.py`) | local copy of the row, offset, counters; through it the row, the ledger and the directory | `run`: load, mark running, page loop (fetch, persist, download, checkpoint, poll), finalise, fail | the checkpoint never passes over a message; a completed export is the whole chat; nothing is processed twice; a stop is obeyed |
| Export API (`api/exports.py`) | the `chat_exports` row | pause, cancel, resume, delete; progress, files, download | a request that was answered takes effect |
| Tasks (`task_runner.py`, `workers/`) | broker queue | enqueue, deliver, redeliver | an enqueued export is run; a second delivery does no harm |
| Writers (`export_writers.py`) | `messages.jsonl` and its buffer, `messages.json`, SQLite, HTML | append, assemble | the archive is the ledger, each message once |
| Media downloader (`media_downloader.py`) | `media_files` rows, files, a counter shared by the batch's coroutines | download a page, retry | every media file ends downloaded or failed, with the hash of its own bytes |
| Session manager (`session_manager.py`) | held logins, client pool, account locks, one per process | start login, code, 2FA, check, acquire/release, drop, shutdown | one holder per account lock, the pool within its limit, every lock returned |
| Accounts API, chat search (`accounts.py`, `accounts_exports.py`) | the `telegram_sessions` row | create, code, 2FA, check, delete, search, create export | a finished login is not lost |
| Rate limiter (`rate_limit.py`) | one Redis counter per window | check | at most `limit` requests per window, nobody refused below it |
| Audit (`core/audit.py`), auth, crypto | log rows; none | | |
| Migrations API, converter, import assistant, test builder | job and package rows; package directories | create migration, create test package, validate | a package is a run of the chat in order, as long as its row says; a job ends |
| Web interface, nginx, scripts | none that matters | | |
| Full migration engine (`recovery_v2/full_migration_engine.py`) | state file, id cache, target chat | discover, resume, import a batch, verify, advance | no message skipped, none repeated without a cause, oldest first |
| Recovery engine, importer, source reader, archive (`recovery/`) | run directory, target chat | export, package, clear, import, map, verify | what the target showed it shows again, once |
| Sampling pipeline (`recovery/pipeline.py`) | catalog, sample, archive and `.part` files of a run id | discover, sample, fetch, package, verify, clear, import | the catalog is the chat; the target is cleared only for a verified package; nothing is imported twice |
| Mapper, verifier, reactions (`recovery/`) | mapping, report | match, classify, replay | the mapping is injective and finds exact twins; the report claims no more than is so |
| Account tool (`recovery_v2/login_accounts.py`) | accounts database, session files, Telegram's sessions | add, sign in again, test, remove | no live session is lost sight of |
| Probes (`recovery_v2/`) | none | interactive | |

### 1.2 How they interact

* The API and the engine share the `chat_exports` row and nothing else: the API
  commits a status, the engine polls for it. Each reads the row, works on its own
  copy, and later commits the columns that changed on that copy.
* `create_export` and `resume_export` put a message in the broker after their
  commit. A worker takes it and acknowledges it at the end (`task_acks_late`).
* The engine writes a page in three places at three moments: the workfile's
  buffer, one database transaction (messages, media rows, checkpoint), the media
  directory.
* Requests and Celery tasks use one account's Telegram client through a
  `SessionManager`; each process, and each Celery task, has one of its own.
* A migration is a single process. Its runs talk to each other through two files.
* `create_migration` and `create_test_package` read an export's directory while a
  worker may still be writing it.
* A recovery is a single process too, with the chat of A and B as the state it
  shares with Telegram: each side's view is cleared separately, an import goes on
  arriving after the process that started it has ended, and the server may take
  it back. The two commands of the sampling pipeline share the run's directory.

### 1.3 What is hard

Stale copies of a row across awaits; two tasks of one export; a process lost
between a file, a transaction and a checkpoint; locks held over calls that raise;
eviction of what is in use; a cursor saved after an effect that cannot be undone;
files torn by a crash; a package read while it grows; commands repeated over what
an earlier one left; greedy matching. `PROJECT.json` lists the hazards with their lines and
either the properties that cover them or why none does.

## 2. Modules

| Module | Models | Extends |
|---|---|---|
| `ExportEngine` | one export: API requests, broker, workers, the engine's loop, row, ledger, files | |
| `ChatCopy` | what an export promises, abstractly | |
| `ExportStop` | `ExportEngine` with a history variable: messages copied after a stop request | `ExportEngine` |
| `ExportEngineProofs` | what holds however many tasks of an export overlap | `ExportEngine`, TLAPS |
| `ExportSerialProofs` | what holds while one task runs at a time, and the refinement of `ChatCopy` | `ExportEngineProofs` |
| `ExportStopProofs` | the bound on what a stopped export still copies | `ExportStop`, `ExportSerialProofs` |
| `SessionManager` | one process's logins, pool and locks, with the requests that use them | |
| `SessionManagerProofs` | its theorems | `SessionManager`, TLAPS |
| `MigrationEngine` | successive runs of the full migration over one state file | |
| `MigrationEngineProofs` | its theorems | `MigrationEngine`, TLAPS |
| `Limiter` | the requests of one rate-limit key against Redis | |
| `MediaQueue` | one batch of the media downloader | |
| `MigrationPackage` | package requests over a growing export | |
| `BackendProofs` | the theorems of these three | `Limiter`, `MediaQueue`, `MigrationPackage`, TLAPS |
| `AccountTool` | the interactive account tool | |
| `ImportService` | Telegram's chat and history imports (external) | |
| `RecoveryRun` | repeated full tests of the recovery engine | `ImportService` |
| `SamplePipeline` | the sampled recovery of one run id | `ImportService` |
| `RecoveryProofs` | the theorems of these two, over the import service under both | `RecoveryRun`, `SamplePipeline`, TLAPS |
| `MessageMapper` | the matching and the fidelity report | |
| `ToolProofs` | the theorems of the account tool and of the mapper | `AccountTool`, `MessageMapper`, TLAPS |
| `MC...` | constants, bounds and symmetry for TLC; `MCTools` also selects the component a behaviour is about | |

An operator marked `(mistake)` is no part of a specification. It is the bug the
operator next to it could have (a dropped guard, an off-by-one, a forgotten
reset); substituting it must break the property that `PROJECT.json` lists with
it, which shows that the property depends on that line of the code.

### 2.1 ExportEngine

| Variable | Code |
|---|---|
| `status`, `rowCount`, `rowOffset`, `rowFiles`, `rowDir` | columns `status`, `messages_processed`, `checkpoint_offset_id`, `files_total`, `export_dir` of the row |
| `ledger`, `pending` | rows of `messages`; rows of `media_files` with status "pending" |
| `workfile`, `job[w].buf`, `linked` | `messages.jsonl`; the lines in the writer's file buffer; whether that open file is still the one in the directory |
| `archive`, `disk` | `messages.json`; which artifacts exist |
| `ready`, `held` | broker messages waiting; taken and not acknowledged |
| `pc`, `job` | where `run()` is, and its locals (`offset_id`, `processed`, `files_total` on its copy of the row, `fetched_since_checkpoint`, the batch, the retry counters) |
| `request` | the API request in progress, with the row as it read it |

An action is the code between two suspensions, and a transaction is one action:
`TakeTask`, `LoadExport` (the SELECT of `run`), `MarkRunning` (its UPDATE),
`PrepareDir`/`PrepareFails`, `OpenWorkfile`, `FetchBatch`/`FetchEnd`/`FloodWait`/
`NetworkError`/`AccessRevoked` (the outcomes of `_fetch_batch`), `PersistBatch`/
`PersistFails`, `DownloadBatch`, `BatchCheckpoint`, `PollStatus`,
`LastCheckpoint`, `Assemble`, `Complete`, `MarkFailed`. SQLAlchemy writes only
the columns that differ from what was read; `MarkRunning` and `CommitStatus` say
so, because the difference decides whether a stop request survives.

The environment: a new message in the chat; loss of a whole worker (redelivered)
or of its child process only (acknowledged, as Celery does unless
`task_reject_on_worker_lost` is set); redelivery after the visibility timeout; a
database error; an unreachable broker; failures in a media batch (`mediaError`),
which `gather(return_exceptions=True)` swallows, so that `DownloadBatch` leaves any
rows of the page pending and the export goes on. A lost process leaves some prefix
of its buffered lines in the workfile.

Abstractions. A message is its id, with at most one media file. A page's
downloads are one action. `files_downloaded`, speed, ETA and totals are left out.
The SQLite and HTML archives are built from the ledger in one read and are
functions of it. One API request is in progress at a time, so two requests that
race each other are not covered; a request and a task that race are. Deletions
of messages on Telegram's side are not modelled. One export: two exports that
share a directory are not.

`ChatCopy` says what all this is for: a cursor walks down the chat, each message
it passes is copied once, and "done" is allowed only when nothing is below it, or
when the chat was empty and the cursor has not moved.

### 2.2 SessionManager

| Variable | Code |
|---|---|
| `row` | a `telegram_sessions` row: its status, and whether `session_encrypted` is set |
| `flows`, `busy` | `_flows`; the owner of each `HeldLogin.busy` |
| `locks`, `owner` | `_account_locks`; the owner of each account lock |
| `pool`, `recent` | `_pool`; its accounts ordered by `last_used` |
| `evicted` | clients whose `_disconnect_later` task has not run |
| `conn` | whether each client is connected |
| `call` | the requests: where they are, the row as read, the row as they will commit it, the lock and the client they have |

A request is a coroutine of the process's event loop. `self._lock` is held over
no suspension and is part of the actions that take it. Some neighbouring awaits
are one action: the disconnect and the Redis delete of `_abort_flow` and `drop`,
and `_remember_flow`, whose Redis key no code reads back. Clients, held logins
and locks are named after the request that made them. Requests arrive in the
order of their numbers, which loses nothing, as they are alike. `Restart` clears
everything but the rows, and may happen at any moment.

### 2.3 MigrationEngine

`cache` is `migration_ids.txt`, `saved` the `processed_count` of the state file,
`target` the target chat as a sequence; `ids`, `start`, `processed`, `batch` are
the locals of `run`. Each run has a mode: full, `--limit`, `--test-mode`, `--ids`
or `--dry-run`. Faults: a crash at any point, with the file being written cut
short (a JSON file then counts as absent, an id cache as a shorter one); an error
of any call; a media echo that is not a `MessageMedia`; `startHistoryImport`
answering false; its answer lost after it took effect; a cache that could not be
written; a message deleted from the source.

Left out: messages at or after the cutoff date (dropped at discovery and again at
fetch), messages without text or media (they yield no line), file names, media
bytes, and reaction replay, which is best effort after the cursor is saved. The
torn cache is cut between ids; one cut inside an id is a file with one wrong last
id, which `Fetch` would not find. Runs do not overlap.

### 2.4 The programs around the core

The components below share no state with each other, so `MCTools` checks them in
one run: the variable `turn` picks the component at the start, and the others
stand still. The exception is `ImportService`, which `RecoveryRun` and
`SamplePipeline` both extend: each is checked in composition with it.

**`Limiter`.** `counters` is Redis (count and expiry per bucket), `checks` the
requests. `SendCheck` chooses the bucket from the clock, `RedisAnswers` or
`RedisFails` end the transaction, up to `CallSeconds` later; `Second` is the clock.
The limiter fails open: a request whose transaction failed proceeds, counted or not.

**`MediaQueue`.** `task[a]` is the coroutine of an attachment, `files` the media
directory, `tally` the `files_downloaded` of the row object the coroutines share,
`stored` its column. `Fetch`/`Fetched`/`FetchFails` are an attempt,
`ReadRow`/`UpdateCounter`/`CommitRow` the statements of `_set_status`; `RowsDeleted`
is `delete_export` of another process. That Telethon writes beside a file that
exists is external. A file name is `<kind>_<size or 0>.<ext>`, as `_media_entry`
makes it.

**`MigrationPackage`.** `export` is the directory a worker writes (`ExportGrows`:
half a line, the line, the assembled archive, media in any order). A build reads
it without suspending and is one step of its request; the commits around it are
steps of their own, and each may raise, or the process may restart (`mishaps`).
A line is its message, its sender's name and whether media belongs to it.

**`AccountTool`.** One menu choice is worked off at a time (`menu`). Each call to
Telegram and each write is a step, the session file's write two (`OpenFile`,
`FillFile`), so that `ToolDies` may fall between any of them. `strays` and
`interrupted` are history variables that remember which faults struck where.

**`ImportService`.** External: A's and B's views of their chat, and the imports
with how far each has arrived. A row is the sequence of what made it, so a copy
of a copy can be told from its original. `Ascending` and `ElementsAt` give the lists
of the recovery modules (a page, what a package keeps of an archive) without
recursion, so that they can be proved about.

**`RecoveryRun`.** `run` is the process with its run directory, `runs` counts
invocations. One action per phase of `full_test`, whose order is `run.step`; a
page of `stream_all` is one action with its downloads and appends; `run.rest` are the
rows older than the last one read, from which the next page comes. The snapshots of
B's view go page by page too (`_read_history`: on after a full page, up to
`HistoryLimit` messages). Each run meets a server with a page limit of its own
(`run.cap`, one of `PageCaps`). `run.saw` is what B sees when the run begins, whether
a snapshot reads it or not. `run.here` says whether the peer the import goes into is
the chat that was cleared: the one is resolved by A, the other by B, and `InitImport`
chooses; an import into another chat brings nothing into this one. `RunDies` may
follow any step, and the next `Begin` starts from nothing, over the chat as it is.
Answers that nobody reads (`VerifyExport`, `SourceStillHas`, `CheckImport`) change
nothing and are steps all the same, since the chat moves on meanwhile.

**`SamplePipeline`.** `catalog`, `sample`, `archive` and `parts` are the run's
directory, `command` the process. A record is its id; a line cut short is `Torn`.
`CommandDies` leaves any prefix of the buffered lines, and possibly a part of the
next; a manifest that was cut short counts as none, as a JSON file that does not
parse. `SourceChanges` posts and deletes in the source chat.

**`MessageMapper`.** `source` and `target` are the two lists of records (the second a
set, as it is read newest first), `mapping` the mapper's result, `read` how many
source records it has been through: a step is a turn of its loop. A
behaviour chooses the source messages, what the import made of each, and the order
of the archive. Times are minutes; texts, files and senders are numbers. A target
record has no hash, as `_target_record` (`engine.py:334-340`) downloads nothing. What
else an import keeps the repository does not know: `Losses` lists what it may lose,
the sender's name and the server's id of the file among them, and `Fates` says which
losses occur together. `Match` tries hash, file id, forward date with the sender
(`FwdMatches`), text and position, in this order.

## 3. Runs

`pass` runs finish without error; each `violation` run ends in a counterexample
to something the repository says of itself.

| Run | Instance | Checks |
|---|---|---|
| `export_serial` | 1 worker; ids 1, 3, 4, then 5; pages of 2; 2 requests; one each of worker loss, child loss, database error, broker failure, swallowed media failure, new message | `TypeOK`, `CheckpointExact`, `NeverReprocessed`, `NoGap`, `ImplementsChatCopy`, `MediaSettled` |
| `export_overlap` | 2 workers (symmetric); 2 messages, pages of 1; 2 requests, 1 redelivery | `CheckpointCovers`, `CompletedIsComplete`, `CoverageInv`, `FilesNotOvercounted` |
| `export_quiet` | 1 worker; 5 messages and a sixth; pages of 2, checkpoint every 3; 3 requests; no loss | `ArchiveMatchesLedger`, `StopBounded` |
| `export_live` | 1 worker under fairness; 2 requests, a worker loss, a database error, flood waits and network errors | `EventuallySettles` |
| `session_pool` | 3 requests of any kind, 2 accounts (symmetric), a pool of 1, restarts at any moment | `TypeOK`, `PoolBounded`, `Exclusive`, `LocksMove`, `SessionKept` |
| `migration_resume` | 5 messages, pages and batches of 2; 3 runs of any mode, 2 faults of any kind | `TypeOK`, `NoSkip`, `CopiesBounded`, `OldestFirst`, `DoneIsComplete` |
| `tools` | one of the components of 2.4 per behaviour, see 3.3 | `ToolsTypeOK`, `WindowRespected`, `OwnFile`, `BatchSettles`, `PackageFaithful`, `JobsSettle`, `NoSessionLost`, `ShownHasSession`, `RestoredOnce`, `NothingLost`, `DeltaHonest`, `CatalogExact`, `ClearedOnlyVerified`, `ImportedOnce`, `AlbumsWhole`, `MappingInjective`, `TwinsFound` |
| `export_archive_crash` | 1 worker loss | `ArchiveMatchesLedger` violated |
| `export_reprocess` | pause and resume, 2 workers | `NeverReprocessed` violated |
| `export_stop_request` | 1 request | `StopSticks` violated |
| `session_leak` | 2 requests, 1 account, under fairness | `EventuallyServed` violated |
| `migration_gate` | full runs, one bad media echo | `NoDuplicate` violated |

### 3.1 What they show

**With one task of an export at a time** (`export_serial`) the checkpoint describes
the ledger exactly, no page is fetched twice, the ledger has no hole, and the
export implements `ChatCopy`: whatever is lost, refused or stopped, the next task
goes on where the last transaction ended. Media rows behind a task may stay pending
for two reasons only, the death of a process between a page's transaction and its
downloads, and a swallowed failure of the batch: one page at most for each
(`MediaSettled`). No stop, error, resume or completion adds to them.

**With overlapping tasks** (`export_overlap`) that precision is gone
(`export_reprocess`), but what matters stays: the checkpoint never passes over a
message, and "completed" means the whole history. It holds because a page's
messages and the offset below them are in one transaction, so any copy of the row
a task may hold, however old, was covered when it was read, and the ledger only
grows while the row exists. `CoverageInv` spells this out and is inductive (4.1).

**Without losses** (`export_quiet`) the archive equals the ledger through any
sequence of pauses, failures and resumes, and a stop is obeyed before
`checkpoint_every + BATCH_SIZE` more messages are committed. With a loss the
archive may lack a page (`export_archive_crash`).

**The session manager** keeps its pool within the limit on both paths that fill
it, gives an account's lock to one request at a time until the account is
deleted, and never strands a lock except in `create_export`, which keeps it when
the chat does not resolve (`session_leak`). `Exclusive` is about the requests that
take that lock, chat search and `create_export`: `check_account` uses and replaces
the pooled client without it (`session_manager.py:202`, `256`), which the model does
too. `SessionKept`: stale copies of a row
overwrite each other's status but never a saved session, because every commit
writes only the attributes its request assigned.

**The migration** never passes over a message (`NoSkip`), as long as no run has a
window of its own and the id cache could be written: an `--ids` run does overwrite
the cursor with its own size. It repeats a message at most once per crash, lost
answer, failed gate or shortened slice, and twice per window (`CopiesBounded`);
without such a cause no message is imported twice, and the order is oldest first.
The gate as written does repeat (`migration_gate`): the echoes are examined after
the import has started.

**The programs around the core** (`tools`):

* The rate limiter's window holds although its transactions reach Redis late,
  because the key outlives the window by the second a call may take.
* A media batch settles every row whose own transaction succeeded, as failed only
  after all attempts. A file is recorded with its own hash if its name is its own
  and the first attempt succeeds; photos all have one name (3.2).
* A package is a gapless run of the chat, oldest first, under stable names, even
  when the export is still being written: the reversal of the workfile depends on
  the export going from new to old. A job ends unless the process or the database
  failed it.
* The account tool leaves no live session behind and shows no account without its
  own session, but for failures of the very call that would have ended it.
* A full test restores what B saw, once, if the server's pages are as long as asked
  or the chat fits one, the import goes into the chat that was cleared, and no
  earlier import is still on its way; what it counts as new is its own.
* The sampled recovery draws from a catalog that is the chat however often the scan
  was cut short, closes samples over albums and replies, clears B only for a
  package that is exactly the fetched sample, and never imports a message twice.
  That last one rests on `verify_roundtrip` counting rows: a repeated command
  finds its archive longer than its sample and stops.
* The mapper is injective and exhausts the new messages whatever the import lost.
  It finds all twins when all arrived, marked as imported and with their senders'
  names, and any two have different files and either different senders or times
  further apart than its tolerances; the report then claims nothing that is not
  so. That names are kept is not known (3.2).

### 3.2 Disagreements found

`PROJECT.json` quotes them: `export_archive_crash`, `export_reprocess`,
`export_stop_request`, `session_leak` and `migration_gate`. Seen while modelling
and not given a run: a worker lost between a page's transaction and its downloads
leaves media pending that no later run looks at, and so does a failed `_set_status`
or mkdir, which `media_downloader.py:64-67` swallows without a line in the log; a child process that dies leaves
an export "running", which `resume` refuses; a delete does not wait for the task,
which may recreate the directory; the stop bound exceeds the
"<= CHECKPOINT_EVERY messages" of `api/exports.py:138` by up to a page. Excluding
these is why `export_quiet` has no losses, `export_live` no child loss, and
`DoneIsComplete` no crash.

The modules of 2.4 state their properties around the following, which the code
does and which a reader of its comments and docs would not expect:

* Every photo of a page is named `photo_0.jpg`, against the "collision-free local
  names" of `telegram_utils.py:143-145`, since a photo has no size of its own; and
  after an attempt that failed half-way, the part it left is what gets hashed.
  `OwnFile` is therefore about the other files and first attempts.
* `stream_all` and `_read_history` end at a page shorter than they asked for,
  while `pipeline.py:205-208` notes that the server caps its pages: with a longer
  chat only the newest page is archived, against "Stream the whole chat into the
  archive" (`source_reader.py:48`), and all of B's view is cleared. Hence the
  condition `run.whole` of `NothingLost`: the pages were as long as asked, or A's
  view was one page.
* `connect` resolves the peer with A's client (`engine.py:97`), and `import_package`
  gives it to calls on B's session (`engine.py:219`, `importer.py:261-285`), while the
  snapshots and the clear use `_target_peer()`, resolved by B. Nothing compares the
  two before B's view is cleared. `NothingLost` has the condition `run.here`.
* The mapper's first rule, "exact media hash" (`mapper.py:134-141`), can only succeed
  by the server's file id: no target record has a `sha256`.
* The forward date, which `mapper.py:142-146` calls "the authoritative link", counts
  only with the `from_name` that the package wrote (`159-162`), and whether the server
  keeps that name is PENDING-LIVE in `docs/FINAL_IMPORT_TRUTH_REPORT.md:18`. Where it
  does not, all is left to text, whose dates must then agree too, and to position.
  `TwinsFound` asks for the names; the model loses them otherwise.
* `docs/SAMPLE_HISTORY_TEST.md:38-46` proposes `--dry-run` and then `--confirm`
  for one run id. The second command appends the sample to the archive again,
  so its row count cannot match and it always aborts; so does every command after
  one that died past its append, including one that has already cleared B.
* `importer.py:16-17` and `290-291` keep the import's id to resume it;
  `import_id_state or {}` makes a new dictionary for the empty one it is given, so
  an import is never resumed. `source_reader.py:50-55` promises no duplicates after
  a crash by `resume_after`, which no caller passes.
* `pick_decision` looks for `TIMESTAMP_EXACT`, the verifier answers `EXACT`:
  `HISTORICAL_IMPORT_VERIFIED` is out of reach.
* `converter.py:11-13` says distinct senders are never merged; two that have one
  display name are. Two test packages of one count and second share a directory.
* `_test_session` writes the account without its user id; a session file cut short
  makes signing in and testing raise until the account is removed.
* A full test that is repeated exports the copies the earlier one imported, and
  restores them once more as messages of their own.
* `verify_roundtrip` counts rows of the manifest and not lines of the chat file, so
  a text-less message whose media failed has no line and nobody notices.
* By position, the mapper may give a message whose twin is missing the twin of a
  later one; `TwinsFound` asks that all have arrived.

### 3.3 Bounds

All counters are bounded by budgets spent in the guards: `Budget` per kind of
environment event, `MaxCalls`, `MaxRuns`, `MaxFaults`; `MaxId`
bounds the chat. The instances are chosen so that the interesting cases occur:

* `export_serial` needs a full and a short page, a gap between ids, media above
  and below a page boundary, and a message that arrives during the export: ids
  {1, 3, 4} and 5, pages of 2. Losses of both kinds and a failed transaction can
  fall in one behaviour with a stop and a resume.
* `export_overlap` needs two tasks with copies of different age at every step of
  each other: two workers, and two messages on separate pages. It uses a VIEW
  without workfile, archive and buffers, which no guard reads outside `Assemble`'s
  test of `disk` (kept) and which its properties do not mention.
* `export_quiet` has `checkpoint_every` not divisible by the page size, where
  the bound of `StopBounded` is reached.
* `session_pool`: each property is about at most two requests in conflict and a
  third that evicts or deletes. A pool of one and two accounts makes every second
  client evict the first. Restarts need no bound: each ends the requests in
  progress. The VIEW leaves out what an answered request asked for and the
  connection of a client nobody holds, which nothing reads.
* `tools`: three requests against a limit of one, over two windows of two seconds
  and calls up to a second late. Three attachments (two photos and a document, or
  two equal documents and another) with two slots, two attempts, a failed
  transaction. Two builds of a chat of three with two senders, one file, tests of
  two. Two phones, two sign-ins. Two full tests over two to three messages, one
  without a caption, that ask for three a page: from a server that sends two, so
  that a page is short without being the last, or three, so that a full page is
  followed by another, with B's view of up to six rows and snapshots that stop
  after four. Three commands on a source of four with an album, a chain of
  replies across it and a media message; pages of two, batches of three. Three
  messages at times 0, 6 and 20 with tolerances of 1 and 6 for 3 and 60, so that two
  may be sent together, an hour apart or well apart, by two users and one unknown,
  each with every shape and each of the fates of `MCFates`, imported at the time of
  the last. Each bound gives one more
  of the thing than its property relates.
* `migration_resume`: three batches, the last one short; a limit of 3 falls inside
  a batch; three runs with two faults let a run be interrupted, and the run that
  resumes it too.

`CHECK_DEADLOCK FALSE` everywhere: an export, a set of requests and a migration
all come to an end, and a stranded lock does stop the requests behind it.

### 3.4 Fairness

`FairSpec` of `ExportEngine` has weak fairness of a worker's steps and of a
request's steps: a living worker runs its coroutine, sleeps are finite, and the
API finishes what it received. A worker that is lost is followed by another (the
container restarts it; `Workers` is constant). Users, Telegram's errors and
losses are under no fairness. Weak fairness of the disjunction of a worker's
steps does not make Telegram answer: with flood waits and errors for ever the
run still settles, as failed, since both counters are bounded.
`FairSpec` of `SessionManager` has weak fairness of each request's steps: the
event loop runs what can run, and a call to Telegram answers or times out. It is
enough to grant a lock that is free; the counterexample has one that never is.

## 4. Proofs

Every theorem holds for every value of the constants under the assumptions the
modules name, which TLC evaluates with each run that extends them. The inductive
invariants were checked by TLC on the instances of section 3 before they were proved.

### 4.1 Exports, any number of tasks (`ExportEngineProofs`)

* **TypeCorrect**: `TypeOK` is inductive; one lemma per group of actions.
* **Coverage** and **CompletedIsWhole**, from **CoverageInvariant**.
  `CheckpointCovers` is not inductive: a task writes the offset of its own copy, so
  the copies must be covered too. `CoverageInv` adds, for every worker, that the
  offset it carries is covered by the ledger (with the page in hand while its
  transaction is to come), that a worker past the empty page has seen the whole
  chat in the ledger, that old messages stay in the chat, and that a deleted row
  has no request left. What carries the proof: a page covers everything between the
  cursor and its lowest id; the ledger grows while the row exists; once the row is
  gone no step writes it.
* **FilesHonest**: `FilesNotOvercounted`. Each copy of `files_total` is at most the
  media of the ledger, with those of the page in hand until its transaction.
* **MediaIsSettled**: `MediaSettled`, with no condition on faults. The rows left behind
  are counted against the deaths and swallowed failures that have been spent; the
  invariant sets apart, for every worker, the page whose downloads are to come.

### 4.2 Exports, one task at a time (`ExportSerialProofs`, `ExportStopProofs`)

The theorems have the form `Spec /\ []OneTask => ...`, where `OneTask` says that no
two workers run a task of the export at once. Nothing in the code sees to it; it is
what the engine needs, and `export_reprocess` shows the first property lost without
it. With one worker it holds of every behaviour.

* **SerialInvariant** is inductive relative to `OneTask`: a task that holds no page
  has the row's offset and count; a page in hand lies directly below the ledger and
  leaves no message out; a task past the empty page has nothing left below it.
  From it: **CheckpointIsExact**, **LedgerHasNoGap**, **NothingReprocessed**.
* **ExportIsACopy**: the export implements `ChatCopy` under the mapping checkpoint
  to cursor, ledger to copy. Every action is a step of `ChatCopy` or a stutter. The
  proof showed that `ChatCopy` had to allow an export that found its chat empty to
  finish although a first message has arrived since: `_finalize` does not look
  again. No instance had an empty chat.
* **ArchiveIsExact** assumes `FaultFree`, no death of a process and no failed
  transaction: a death takes buffered lines with it, and a transaction that fails
  leaves the page's lines in the workfile. `FileInv` follows the lines through the
  writer's buffer: workfile and buffer together list the ledger, and the page in hand
  from its fetch to its transaction. **BudgetKept** carries the assumptions along.
* **StopIsBounded** is about `ExportStop`, with losses and redeliveries. `StopInv`
  bounds `late` by the counter of messages since the last checkpoint, plus the page
  that is not yet counted. It assumes `checkpoint_every >= 1`, as
  `backend/tests/test_config.py:8` does of the settings.

### 4.3 The session manager (`SessionManagerProofs`)

**SessionInvariant** adds to `TypeOK`: the pool's order of use holds each pooled
account once (`PoolOrdered`); a request about to use or pool a client has one; a
request refers to a lock exactly while it waits for it or holds it, and to its
account's own lock unless a delete has forgotten that (`LockInHand`); every owner of a
lock or a held login is at a step that releases it, but for the refused create_export
(`OwnersAlive`); and no request is about to commit a row without the session it read
in it (`NoSessionDropped`). From it: **PoolStaysBounded**, **OneHolder**
(of the requests that take the account lock, 3.1), **LocksAlwaysMove** and the action property **SavedSessionsKept**.

### 4.4 The full migration (`MigrationEngineProofs`)

**MigrationInvariant**: what a run knows at each step (`RunState`); index and cache are
in the order of the history and a run works on a prefix of the cache
(`IndexOrdered`); discovery leaves nothing out (`IndexComplete`); the batch in hand
is what exists of its slice; everything before the cursor is in the target or
gone (`Passed`), and nothing came into the target before an older message (`InTurn`).
From it: **NothingIsSkipped**, **ImportedInOrder**, **DoneMeansComplete**.
**RepetitionsPaidFor** rests on an invariant of its own, `BudgetInv`: the copies of a
message, with the one that the batch in hand may add, never exceed what the faults
and windows so far have paid for.

### 4.5 Limiter, media, packages (`BackendProofs`)

* **WindowIsRespected**, from `LimiterInv`: a counter outlives every request on its
  way to it, counts all that passed and nobody without an answer, and equals those
  let through until they reach the limit. Assumes finitely many requests.
* **FirstAttemptsAreOwn** and **BatchesSettle**, from `MediaInv`: where a coroutine is,
  what it has found and what its row says agree; the shared tally is at most the
  number of coroutines behind an increment, and the stored one at most the tally.
* **PackagesAreFaithful** and **JobsAlwaysSettle**, from `PackageInv`: what the
  converter reads is at every moment a run of the chat that ends with its last
  message (`OrderedRun`), so is a limited part of it, and a directory that no
  other build shares keeps what was written from it. It needs that a torn export
  still lacks a message, and that a request without data never gets to build.

### 4.6 The account tool and the mapper (`ToolProofs`)

**ToolInvariant**: the types, the two properties, and what makes them inductive: a
session exists from its sign-in on and is in one file at most (`KnownSessions`); the
file that the choice at work is about to overwrite or remove holds no live session
but the one in its hands (`FileInHand`); and a phone without a row has none in its
file (`RowlessFile`), since a sign-in looks only at the file of a phone that has a
row. From it: **SessionsKept**, **AccountsHonest**.

**MapperInvariant** is the mapper's. That it matches greedily, by the first of five
rules that has a candidate, is what has to be dealt with: `MatchFits` says what
`Match` returns whichever rule it was, a free candidate, or nothing if none is free.

* **MapperTypes**, **OneTargetEach**: what is taken is not taken again, so the mapping
  is injective; and a record is left unmapped only if at its turn nothing was free,
  which stays so.
* **TwinsAreFound** needs `TwinsSoFar`: if all messages are recognizable and apart,
  every record read so far has its own twin. At the turn of the next one its twin is
  free, because every other record has its own, and fits by forward date and sender,
  if not by file id; nothing else fits by a rule as early, because other messages
  have other files (or none), and another sender or another date. The rules by text
  and by position are never reached: that, and not a guard, is why equal greetings do
  not confuse it, and why it ends where names are not kept.

### 4.7 The recoveries (`RecoveryProofs`)

`RecoveryRun` and `SamplePipeline` are proved over the import service they share.
**ServiceInv** is the chat's part of both invariants: what B sees, A sees; a row that
either sees was written or brought by an import that sent it (`ViewsHappened`); the
lines of an import are different messages (`LinesDiffer`). From the last, a copy in
the chat tells which line of which import it is.

**RecoveryInv**, for the full test, adds:

* `RunReads`: what the run has read happened in the chat. So an import opened
  later cannot have made it, and no copy of the run's own import is among its lines.
* `ExportCovers`: what B saw and A still sees is in the archive or older than the
  last row read; after the last page, if the chat was `whole`, it is in the archive,
  then in the package unless its media was lost. This carries NothingLost from the
  beginning of the run to the import; the snapshots have no part in it.
* `OwnImport`: the import started is of the run's lines, and each line sent is seen
  by B unless the import was reverted.
* `TargetQuiet`: unless an earlier import was still arriving at the clear, B sees no
  copies from then on but those of the run's own import. Without that condition it
  is false, and `RestoredOnce` and `DeltaHonest` with it. It is about every page
  that `SnapshotAfter` reads, so the number of pages does not matter.

From it: **RecoveryTypes**, **OneCopyRestored** (which needs that one import brings a
line once: its copies are counted by `Cardinality`), **NoRowLost**, **DeltaIsHonest**.

**PipelineInv**, for the sampled recovery, adds:

* `ScanCovers`, `CatalogWhole`: a scan has catalogued all it has read, and a catalog
  has no hole: every message that is present and older than a catalogued one, down
  to where the scan stands, is catalogued too. A command that dies breaks neither,
  since what survives of its lines is a prefix of a list that is newest first.
* `ParentsSampled`: what a picked message answers is in the sample, or was neither
  present nor catalogued when the sample was drawn and can never be.
* `ArchiveGuards`: once an import had lines the archive is not empty. The next
  command's archive is then longer than what it fetched and `verify_roundtrip`
  refuses it. The invariant follows the two lengths from the fetch to the check.
* `OneLoaded`: at most one import has lines, so nothing is imported twice.

From it: **PipelineTypes**, **CatalogIsExact**, **OnlyVerifiedCleared**,
**OnceImported**, **AlbumsAreWhole**.

What the attempt to prove showed of the model: an earlier `AlbumsWhole` asked that
also the parents of album mates that were catalogued after the sample was drawn be
fetched, which `run_full_recovery` does not do and no instance had reached; the pages
of the export were cut from the archive instead of from where the last one ended,
which began again at the newest message when every archived row had been
taken back; and `SourceSize` lacked its assumption.

The specifications `LimiterSpec`, `MediaSpec`, `PackageSpec`, `ToolSpec`,
`MapperSpec`, `RecoverySpec` and `PipelineSpec` are the components alone (the last two
with the import service); the behaviours of `MCTools` with that `turn` are theirs.

### 4.8 Only model-checked

* `EventuallySettles` and `EventuallyServed`: liveness is out of the prover's reach.
* `ToolsTypeOK` as one formula. Its parts about the recoveries and the mapper are
  theorems, those about the limiter, the media and the account tool are proved as
  parts of invariants. Of `PackageTypeOK` the lines' fields and the manifest's count
  are not: no property needs them.

## 5. Not modelled

* Audit log: one row per mutating request, written by a task nobody waits for.
* Authentication and crypto: stateless use of libraries.
* Frontend, deployment, schemas, configuration, read-only endpoints: no state of
  their own.
* Probes (`import_ten_probe.py`, `import_media_probe.py`,
  `full_sampled_recovery.py`): run once by hand against live accounts, nothing
  kept.
* Recovery Telegram client: a wrapper of Telethon.
* Reactions: replayed last, best effort, matched by text and time; the verifier's
  classes for media, timestamps and reactions: equality of fields.
* Texts: instructions, previews, reports, the layout of a WhatsApp line, the
  chat file's time zones, `build_batch` of the migration.
* Of modelled parts: the recovery commands that run one phase alone (`export`,
  `import`, `verify`), whose steps are those of `full_test`; the media
  downloader's checkpoints on the recovery side, which the pipeline turns off;
  two account tools, or two commands of one run id, at a time.

## 6. Plan

Every safety invariant that a run checks, but the conjunction of types `ToolsTypeOK`,
is stated by a theorem. What is left are further components: two processes' `SessionManager`s over one account; two exports that share
a directory; the reactions' matching.
