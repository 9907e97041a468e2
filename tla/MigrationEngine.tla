--------------------------- MODULE MigrationEngine --------------------------
(***************************************************************************)
(* The history migration of telegram_recovery_v2/src/recovery_v2/          *)
(* full_migration_engine.py: an index of message ids is discovered once    *)
(* and cached in a file, and its messages are imported into another chat   *)
(* in batches, oldest first.  A state file holds how many ids of the index *)
(* are done; a run that stops is followed by another that resumes there.   *)
(*                                                                         *)
(* One run is at work at a time.  Both files are written in place          *)
(* (write_text), so a crash may leave half of one behind.                  *)
(***************************************************************************)
EXTENDS Naturals, FiniteSets, Sequences, SequencesExt

CONSTANTS
    MaxId,       \* message ids before the cutoff are 1..MaxId, oldest first
    MediaIds,    \* ids of the messages whose media is staged and uploaded
    PageSize,    \* the 100 of GetHistoryRequest
    BatchSize,   \* --batch-size
    Limit,       \* --limit n; --test-mode is a limit of 100 and one batch
    Window,      \* --ids, oldest first
    RunModes,    \* the modes of the runs
    FaultKinds,  \* the faults that happen
    MaxRuns, MaxFaults   \* bounds: how many there are of either

MessageIds == 1..MaxId
Modes == {"full", "limit", "test", "ids", "dry"}
Faults == {"crash", "error", "badEcho", "notStarted", "lostAnswer", "uncached",
           "delete"}

ASSUME SizeAssumption == /\ MaxId \in Nat /\ MediaIds \subseteq MessageIds
                         /\ PageSize \in Nat \ {0} /\ BatchSize \in Nat \ {0}
                         /\ Limit \in Nat \ {0}
ASSUME WindowAssumption == /\ Window \in Seq(MessageIds)
                           /\ \A i, j \in DOMAIN Window : i < j => Window[i] < Window[j]
ASSUME BoundAssumption == /\ RunModes \subseteq Modes /\ FaultKinds \subseteq Faults
                          /\ MaxRuns \in Nat /\ MaxFaults \in Nat

VARIABLES
    source,     \* ids of the messages that exist in the source chat
    target,     \* the imported messages in the order of their import
    cache,      \* migration_ids.txt, oldest first; empty when there is none
    saved,      \* processed_count in migration_state.json; 0 when unreadable
    pc,         \* the next step of run()
    mode,       \* its arguments
    found,      \* ids_newest, while the index is discovered
    ids,        \* the index the run works on
    start,      \* index of the batch in hand
    processed,  \* ids done, as the run counts them
    batch,      \* the messages of the batch, as fetched
    used        \* how many runs of each mode, faults of each kind, there were

files   == <<cache, saved>>
locals  == <<mode, found, ids, start, processed, batch>>
vars    == <<source, target, files, pc, locals, used>>

Steps == {"idle", "open", "index", "writeCache", "resume", "saveResume",
          "fetch", "stage", "import", "advance", "giveUp", "next"}

TypeOK ==
    /\ source \subseteq MessageIds
    /\ target \in Seq(MessageIds)
    /\ cache \in Seq(MessageIds) /\ ids \in Seq(MessageIds)
    /\ found \in Seq(MessageIds) /\ batch \in Seq(MessageIds)
    /\ saved \in Nat /\ processed \in Nat /\ start \in 0..Len(ids)
    /\ pc \in Steps /\ mode \in Modes
    /\ used \in [Modes \cup Faults -> Nat]

Init ==
    /\ source = MessageIds
    /\ target = <<>>
    /\ cache = <<>> /\ saved = 0
    /\ pc = "idle" /\ mode = "full"
    /\ found = <<>> /\ ids = <<>> /\ start = 0 /\ processed = 0 /\ batch = <<>>
    /\ used = [k \in Modes \cup Faults |-> 0]

-----------------------------------------------------------------------------
Prefix(s, n) == SubSeq(s, 1, IF n < Len(s) THEN n ELSE Len(s))
Ids(s) == {s[i] : i \in DOMAIN s}
Used(kinds) == FoldSet(LAMBDA k, n : used[k] + n, 0, kinds)
Never(kinds) == \A k \in kinds : used[k] = 0
Count(kind) == used' = [used EXCEPT ![kind] = @ + 1]
Fault(kind) == kind \in FaultKinds /\ Used(Faults) < MaxFaults /\ Count(kind)

\* run() returns or raises: what it knew is gone, the files stay.
Stop ==
    /\ pc' = "idle" /\ mode' = "full"
    /\ found' = <<>> /\ ids' = <<>> /\ start' = 0 /\ processed' = 0 /\ batch' = <<>>

\* The state is read (a file that does not parse counts as none), and written
\* back with this run's peers.
StartRun(m) ==
    /\ pc = "idle"
    /\ m \in RunModes /\ Used(Modes) < MaxRuns /\ Count(m)
    /\ mode' = m /\ processed' = saved /\ pc' = "open"
    /\ UNCHANGED <<source, target, files, found, ids, start, batch>>

\* state.save has been written; the index: the --ids window, the cached one,
\* or one to discover.
OpenIndex ==
    /\ pc = "open"
    /\ saved' = processed
    /\ \/ mode = "ids" /\ ids' = Window /\ pc' = "resume"
       \/ mode # "ids" /\ cache # <<>> /\ ids' = cache /\ pc' = "resume"
       \/ mode # "ids" /\ cache = <<>> /\ pc' = "index" /\ UNCHANGED ids
    /\ UNCHANGED <<source, target, cache, mode, found, start, processed, batch, used>>

\* GetHistory: the next page, newest first, below the last id of the one before.
Unseen_Gap == {m \in source : found = <<>> \/ m + 1 < Last(found)}   \* (mistake)
Unseen == {m \in source : found = <<>> \/ m < Last(found)}
IsPage(p) ==
    /\ \A i, j \in DOMAIN p : i < j => p[i] > p[j]
    /\ \A m \in Unseen \ Ids(p) : Len(p) = PageSize /\ m < Last(p)
NextPages == {p \in UNION {[1..n -> Unseen] : n \in 0..PageSize} : IsPage(p)}
Index_NewestFirst(s) == s                                            \* (mistake)
Index(s) == Reverse(s)
Discover ==
    /\ pc = "index"
    /\ \E page \in NextPages :
          /\ found' = found \o page
          /\ \/ Len(page) = PageSize /\ UNCHANGED <<pc, ids>>
             \/ Len(page) < PageSize /\ ids' = Index(found') /\ pc' = "writeCache"
    /\ UNCHANGED <<source, target, files, mode, start, processed, batch, used>>

\* The index is written to its file; failing to is only a warning.
WriteCache ==
    /\ pc = "writeCache"
    /\ \/ cache' = ids /\ UNCHANGED used
       \/ Fault("uncached") /\ UNCHANGED cache
    /\ pc' = "resume"
    /\ UNCHANGED <<source, target, saved, locals>>

\* The slice of --test-mode or --limit, and where in it to go on: at the saved
\* count, unless it lies beyond the slice or the run has a window.
Slice == IF mode \in {"limit", "test"} THEN Prefix(ids, Limit) ELSE ids
ResumeAt_Saved == processed                                          \* (mistake)
ResumeAt == IF mode = "ids" \/ processed > Len(Slice) THEN 0 ELSE processed
Resume ==
    /\ pc = "resume"
    /\ ids' = Slice /\ start' = ResumeAt
    /\ pc' = "saveResume"
    /\ UNCHANGED <<source, target, files, mode, found, processed, batch, used>>

\* The second save of the state as read; then processed starts at resume.
SaveResume ==
    /\ pc = "saveResume"
    /\ saved' = processed
    /\ processed' = start
    /\ pc' = "fetch"
    /\ UNCHANGED <<source, target, cache, mode, found, ids, start, batch, used>>

-----------------------------------------------------------------------------
(* The batches. *)

BatchIds == SubSeq(ids, start + 1, IF start + BatchSize < Len(ids)
                                   THEN start + BatchSize ELSE Len(ids))

\* The messages of the batch that still exist, in its order.
InOrder(s, t) == \A i, j \in DOMAIN s : i < j =>
    \E k, l \in DOMAIN t : k < l /\ t[k] = s[i] /\ t[l] = s[j]
Batches ==
    LET existing == Ids(BatchIds) \cap source
    IN  {b \in UNION {[1..n -> existing] : n \in 0..Len(BatchIds)} :
            Ids(b) = existing /\ InOrder(b, BatchIds)}

\* The next batch; or DONE.
Fetch ==
    /\ pc = "fetch"
    /\ \/ /\ start < Len(ids)
          /\ batch' \in Batches
          /\ pc' = "stage"
          /\ UNCHANGED <<mode, found, ids, start, processed>>
       \/ start >= Len(ids) /\ Stop
    /\ UNCHANGED <<source, target, files, used>>

\* Media downloaded, the chat text built; a dry run goes on to the next batch.
Stage ==
    /\ pc = "stage"
    /\ \/ mode = "dry" /\ pc' = "fetch" /\ start' = start + Len(BatchIds)
       \/ mode # "dry" /\ pc' = "import" /\ UNCHANGED start
    /\ UNCHANGED <<source, target, files, mode, found, ids, processed, batch, used>>

\* The five calls of import_batch.  Nothing is imported until the last one,
\* startHistoryImport, succeeds; the gate then wants its answer and a media
\* echo for every upload, or the run gives up with the state saved as it was.
StartImport == target' = target \o batch
Gate_Open(ok) == TRUE                                                \* (mistake)
Gate(ok) == ok
AfterImport(ok) ==
    \/ Gate(ok) /\ pc' = "advance" /\ UNCHANGED locals
    \/ ~Gate(ok) /\ pc' = "giveUp" /\ UNCHANGED locals
Import ==
    /\ pc = "import"
    /\ \/ StartImport /\ AfterImport(TRUE) /\ UNCHANGED used
       \/ /\ Ids(batch) \cap MediaIds # {} /\ Fault("badEcho")
          /\ StartImport /\ AfterImport(FALSE)
       \/ Fault("notStarted") /\ UNCHANGED target /\ AfterImport(FALSE)
       \/ Fault("lostAnswer") /\ StartImport /\ pc' = "giveUp" /\ UNCHANGED locals
    /\ UNCHANGED <<source, files>>

GiveUp ==
    /\ pc = "giveUp"
    /\ Stop
    /\ UNCHANGED <<source, target, files, used>>

\* The cursor is saved; test mode stops here, other runs sleep and go on.
Done_Fetched == Len(batch)                                           \* (mistake)
Done == Len(BatchIds)
Advance ==
    /\ pc = "advance"
    /\ processed' = processed + Done
    /\ saved' = processed'
    /\ pc' = "next"
    /\ UNCHANGED <<source, target, cache, mode, found, ids, start, batch, used>>

NextBatch ==
    /\ pc = "next"
    /\ \/ mode = "test" /\ Stop
       \/ /\ mode # "test"
          /\ start' = start + Len(BatchIds) /\ pc' = "fetch"
          /\ UNCHANGED <<mode, found, ids, processed, batch>>
    /\ UNCHANGED <<source, target, files, used>>

-----------------------------------------------------------------------------
(* Faults. *)

\* A call to Telegram, or the tenth FloodWait of one, raises; the import of a
\* batch before startHistoryImport too.
Error ==
    /\ pc \in {"open", "index", "fetch", "stage", "import"}
    /\ Fault("error")
    /\ Stop
    /\ UNCHANGED <<source, target, files>>

\* The process dies, maybe half-way through writing a file.
Crash ==
    /\ pc # "idle"
    /\ Fault("crash")
    /\ Stop
    /\ \/ UNCHANGED files
       \/ /\ pc \in {"open", "saveResume", "advance", "giveUp"}
          /\ saved' = 0 /\ UNCHANGED cache
       \/ /\ pc = "writeCache"
          /\ \E n \in 0..Len(ids) : cache' = Prefix(ids, n)
          /\ UNCHANGED saved
    /\ UNCHANGED <<source, target>>

\* Somebody deletes a message of the source chat.
Delete ==
    /\ Fault("delete")
    /\ \E m \in source : source' = source \ {m}
    /\ UNCHANGED <<target, files, pc, locals>>

Next ==
    \/ \E m \in Modes : StartRun(m)
    \/ OpenIndex \/ Discover \/ WriteCache \/ Resume \/ SaveResume
    \/ Fetch \/ Stage \/ Import \/ GiveUp \/ Advance \/ NextBatch
    \/ Error \/ Crash \/ Delete

Spec == Init /\ [][Next]_vars

-----------------------------------------------------------------------------
\* The saved cursor never passes over a message: whatever stops a run, every id
\* it has passed is in the target, or its message was gone.  (An --ids run
\* overwrites the cursor with the size of its window, and an index that could
\* not be cached is discovered anew and may have moved.)
NoSkip ==
    Never({"ids", "uncached"}) =>
        \A i \in 1..saved : /\ i <= Len(cache)
                            /\ cache[i] \in Ids(target) \/ cache[i] \notin source

\* A message is imported once, and once more for each thing that may cost a
\* repetition: a crash, a batch given up after startHistoryImport, a run whose
\* slice ends before the cursor, or (twice) one with a window of its own.
Copies(m) == Cardinality({i \in DOMAIN target : target[i] = m})
Interruptions == used["crash"] + used["badEcho"] + used["lostAnswer"]
CopiesBounded ==
    Never({"uncached"}) =>
        \A m \in MessageIds :
            Copies(m) <= 1 + Interruptions + used["limit"] + used["test"] + 2 * used["ids"]

\* "STRICT OLDEST-FIRST": repetitions aside, the target is filled in the order
\* of the source.
OldestFirst ==
    Never({"ids", "uncached"}) =>
        \A i, j \in DOMAIN target :
            i < j /\ target[j] < target[i] => \E k \in 1..(i - 1) : target[k] = target[j]

\* A full run that reports DONE, when no crash has cut the cached index short,
\* has moved every message there is.
DoneIsComplete ==
    /\ pc = "fetch" /\ mode = "full" /\ start >= Len(ids)
    /\ Never({"ids", "uncached", "crash"})
    => source \subseteq Ids(target)

\* The gate and the saved cursor make a resumed run repeat nothing.
NoDuplicate == \A m \in MessageIds : Copies(m) <= 1
=============================================================================
