----------------------------- MODULE MediaQueue -----------------------------
(***************************************************************************)
(* One download_batch of the media downloader                              *)
(* (backend/app/services/media_downloader.py), with the file names that    *)
(* classify_media gives (backend/app/services/telegram_utils.py).          *)
(*                                                                         *)
(* The tasks of a batch are coroutines of one event loop that take turns   *)
(* at their suspensions.  Telethon does not overwrite a file that exists:  *)
(* it writes beside it, while the code goes on to hash the path it asked   *)
(* for; a download that fails half-way leaves the part it wrote.           *)
(***************************************************************************)
EXTENDS Naturals, FiniteSets

CONSTANTS
    Attachments,       \* one per message of the page
    Pages,             \* what Telegram may say of each: kind, size, ext
    MediaConcurrency,  \* the semaphore
    MaxAttempts,       \* MAX_ATTEMPTS
    MaxLostCommits     \* bound: transactions that fail

NoSize == 0            \* size_bytes or 0
ASSUME MediaAssumption ==
    /\ IsFiniteSet(Attachments)
    /\ Pages \subseteq [Attachments -> [kind : STRING, size : Nat, ext : STRING]]
    /\ MediaConcurrency \in Nat \ {0} /\ MaxAttempts \in Nat \ {0}
    /\ MaxLostCommits \in Nat

VARIABLES
    page,      \* the media of this batch
    task,      \* the coroutine of each attachment
    files,     \* the media directory: what each path holds
    ledger,    \* the media_files rows
    tally,     \* export.files_downloaded, the object the tasks share
    stored,    \* the files_downloaded column
    lostCommits \* transactions that failed

mediaVars == <<page, task, files, ledger, tally, stored, lostCommits>>

\* A photo has sizes but no size, so that every photo has the same name.
SizeOf(a) == IF page[a].kind = "photo" THEN NoSize ELSE page[a].size
FileName_NoSize(a) == <<page[a].kind, page[a].ext>>                \* (mistake)
\* The path: media/<kind>/<kind>_<size or 0>.<ext>
FileName(a) == <<page[a].kind, SizeOf(a), page[a].ext>>
Paths == {FileName(a) : a \in Attachments}
Whole(a) == [of |-> a, whole |-> TRUE]
Part(a) == [of |-> a, whole |-> FALSE]

NoFile == [of |-> "nothing", whole |-> FALSE]
FileContents == [of : Attachments \cup {"nothing"}, whole : BOOLEAN]
\* own: this attempt created the path; value: the counter it will write.
TaskRecords == [step : {"queued", "fetching", "asleep", "recording",
                        "updating", "committing", "done"},
                attempt : 1..MaxAttempts, own : BOOLEAN,
                verdict : {"none", "downloaded", "failed"}, sha : FileContents,
                value : 0..Cardinality(Attachments)]
MediaRows == [status : {"pending", "downloaded", "failed", "deleted"}, sha : FileContents]

MediaTypeOK ==
    /\ page \in Pages
    /\ task \in [Attachments -> TaskRecords]
    /\ files \in [Paths -> FileContents]
    /\ ledger \in [Attachments -> MediaRows]
    /\ tally \in 0..Cardinality(Attachments)
    /\ stored \in 0..Cardinality(Attachments)
    /\ lostCommits \subseteq Attachments

MediaInit ==
    /\ page \in Pages
    /\ task = [a \in Attachments |->
                 [step |-> "queued", attempt |-> 1, own |-> FALSE,
                  verdict |-> "none", sha |-> NoFile, value |-> 0]]
    /\ files = [p \in Paths |-> NoFile]
    /\ ledger = [a \in Attachments |-> [status |-> "pending", sha |-> NoFile]]
    /\ tally = 0 /\ stored = 0 /\ lostCommits = {}

Running == {a \in Attachments : task[a].step \notin {"queued", "done"}}

\* A slot of the semaphore, or the end of a sleep, which keeps the slot.
Fetch(a) ==
    /\ \/ task[a].step = "queued" /\ Cardinality(Running) < MediaConcurrency
       \/ task[a].step = "asleep"
    /\ LET p == FileName(a)
           free == files[p] = NoFile
       IN /\ files' = IF free THEN [files EXCEPT ![p] = Part(a)]
                      ELSE files
          /\ task' = [task EXCEPT ![a].step = "fetching", ![a].own = free]
    /\ UNCHANGED <<ledger, tally, stored, lostCommits>>

\* The download ends; the requested path is hashed in the same turn.
Fetched(a) ==
    /\ task[a].step = "fetching"
    /\ LET p == FileName(a)
           now == IF task[a].own THEN [files EXCEPT ![p].whole = TRUE] ELSE files
       IN /\ files' = now
          /\ task' = [task EXCEPT ![a].step = "recording", ![a].sha = now[p],
                                  ![a].verdict = "downloaded"]
    /\ UNCHANGED <<ledger, tally, stored, lostCommits>>

FetchFails_Forgets(a) ==                                             \* (mistake)
    /\ task[a].step = "fetching"
    /\ task' = IF task[a].attempt < MaxAttempts
               THEN [task EXCEPT ![a].step = "asleep", ![a].attempt = @ + 1]
               ELSE [task EXCEPT ![a].step = "done"]
    /\ UNCHANGED <<files, ledger, tally, stored, lostCommits>>
FetchFails(a) ==
    /\ task[a].step = "fetching"
    /\ task' = IF task[a].attempt < MaxAttempts
               THEN [task EXCEPT ![a].step = "asleep", ![a].attempt = @ + 1]
               ELSE [task EXCEPT ![a].step = "recording", ![a].verdict = "failed"]
    /\ UNCHANGED <<files, ledger, tally, stored, lostCommits>>

\* _set_status: the row is read, and the shared counter incremented.
ReadRow(a) ==
    /\ task[a].step = "recording"
    /\ \/ /\ ledger[a].status = "deleted"
          /\ task' = [task EXCEPT ![a].step = "done"] /\ UNCHANGED tally
       \/ /\ ledger[a].status # "deleted" /\ task[a].verdict = "downloaded"
          /\ tally' = tally + 1
          /\ task' = [task EXCEPT ![a].step = "updating", ![a].value = tally + 1]
       \/ /\ ledger[a].status # "deleted" /\ task[a].verdict = "failed"
          /\ task' = [task EXCEPT ![a].step = "committing"] /\ UNCHANGED tally
    /\ UNCHANGED <<files, ledger, stored, lostCommits>>

\* The UPDATE of the export's row waits for the transaction that holds it.
UpdateCounter(a) ==
    /\ task[a].step = "updating"
    /\ \A b \in Attachments :
          ~(task[b].step = "committing" /\ task[b].verdict = "downloaded")
    /\ task' = [task EXCEPT ![a].step = "committing"]
    /\ UNCHANGED <<files, ledger, tally, stored, lostCommits>>

CommitRow(a) ==
    /\ task[a].step = "committing"
    /\ task' = [task EXCEPT ![a].step = "done"]
    /\ IF ledger[a].status = "deleted" THEN UNCHANGED <<ledger, stored>>
       ELSE /\ ledger' = [ledger EXCEPT ![a] =
                            [status |-> task[a].verdict, sha |-> task[a].sha]]
            /\ stored' = IF task[a].verdict = "downloaded" THEN task[a].value ELSE stored
    /\ UNCHANGED <<files, tally, lostCommits>>

\* gather keeps the exception: the batch goes on without this row.
DatabaseFails(a) ==
    /\ Cardinality(lostCommits) < MaxLostCommits
    /\ task[a].step \in {"recording", "updating", "committing"}
    /\ task' = [task EXCEPT ![a].step = "done"]
    /\ lostCommits' = lostCommits \cup {a}
    /\ UNCHANGED <<files, ledger, tally, stored>>

\* delete_export of another process takes the rows away.
RowsDeleted ==
    /\ \E a \in Attachments : ledger[a].status # "deleted"
    /\ \E a \in Attachments : task[a].step # "done"
    /\ ledger' = [a \in Attachments |-> [status |-> "deleted", sha |-> NoFile]]
    /\ UNCHANGED <<task, files, tally, stored, lostCommits>>

MediaNext ==
    /\ \/ \E a \in Attachments :
             \/ Fetch(a) \/ Fetched(a) \/ FetchFails(a) \/ ReadRow(a)
             \/ UpdateCounter(a) \/ CommitRow(a) \/ DatabaseFails(a)
       \/ RowsDeleted
    /\ UNCHANGED page

MediaSpec == MediaInit /\ [][MediaNext]_mediaVars

-----------------------------------------------------------------------------
Downloaded == {a \in Attachments : ledger[a].status = "downloaded"}
Distinct(a) == \A b \in Attachments \ {a} :
    \/ page[a].kind # page[b].kind
    \/ page[a].ext # page[b].ext
    \/ SizeOf(a) # SizeOf(b)

(* An attachment that differs from every other of its page in kind,        *)
(* extension or size is recorded with the hash of its own whole file, when *)
(* its first attempt succeeds, whatever downloads beside it (_download_one,*)
(* media_downloader.py:69-103; the names of _media_entry).                 *)
OwnFile ==
    \A a \in Downloaded :
        Distinct(a) /\ task[a].attempt = 1 => ledger[a].sha = Whole(a)

(* After a batch, every row still there is settled, unless its own         *)
(* transaction failed, as failed only after every attempt, and the column  *)
(* exceeds the downloaded rows by no more than the failed transactions     *)
(* (download_batch, _set_status).                                          *)
BatchSettles ==
    (\A a \in Attachments : task[a].step = "done") =>
       \A a \in Attachments :
          /\ ledger[a].status = "pending" => a \in lostCommits
          /\ ledger[a].status = "failed" => task[a].attempt = MaxAttempts
          /\ ledger[a].status # "deleted" =>
                stored <= Cardinality(Downloaded) + Cardinality(lostCommits)
=============================================================================
