---------------------------- MODULE RecoveryRun -----------------------------
(***************************************************************************)
(* The recovery engine's full test (recovery/engine.py): A's history goes  *)
(* into an archive (source_reader.py, archive.py) and a package, B's view  *)
(* is cleared, and the package is imported into it (importer.py).  Every   *)
(* invocation has a run directory of its own, and nothing is resumed: a    *)
(* run that dies is begun again from the start.                            *)
(***************************************************************************)
EXTENDS ImportService, FiniteSets

CONSTANTS
    FirstMessages,  \* how many messages there are at first
    PageCaps,       \* messages that a page of the server may hold at most
    Batch,          \* BATCH, the page size asked for
    HistoryLimit,   \* messages that a snapshot of B's view stops after
    Captionless,    \* messages that are a media file without a text
    MaxRuns         \* bound: invocations

ASSUME RunAssumption ==
    /\ FirstMessages \in 0..MaxWritten
    /\ PageCaps \subseteq Nat \ {0} /\ Batch \in Nat \ {0} /\ HistoryLimit \in Nat
    /\ MaxRuns \in Nat

VARIABLES
    run,    \* the process, and the directory, of the current invocation
    runs    \* invocations so far

runVars == <<run, runs>>
recoveryVars == <<serviceVars, runVars>>

RunSteps == {"idle", "before", "export", "verify", "package", "clear", "still",
             "check", "init", "start", "after", "map", "report", "done"}
\* cap: how much the server's pages hold during this run; whole: that is as
\* much as is asked, or all A saw when the last page was exported; rest: the
\* rows older than the last one read; saw: what B sees when the run begins;
\* lost: rows whose media could not be downloaded; here: on B's session, the
\* peer that A resolved is this chat; late: an import was still arriving at
\* the clear.
NoRun == [step |-> "idle", cap |-> 0, whole |-> FALSE, archive |-> <<>>, rest |-> {},
          saw |-> {}, lost |-> {}, lines |-> <<>>, before |-> {}, after |-> {},
          import |-> 0, here |-> FALSE, delta |-> {}, late |-> FALSE]

RecoveryTypeOK ==
    /\ ServiceTypeOK
    /\ runs \in 0..MaxRuns
    /\ run.step \in RunSteps
    /\ run.import \in {0} \cup ImportIds
    /\ IsInjective(run.archive)

FirstView == [m \in 1..FirstMessages |-> <<m>>]
RecoveryInit == run = NoRun /\ runs = 0     \* with ServiceInit(FirstView)

-----------------------------------------------------------------------------
\* GetHistory: the newest messages, at most a page of them; from the second
\* page on, of those older than the last one read (offset_id), which need not
\* be there any more.
Newest(view, asked) ==
    LET n == IF asked < run.cap THEN asked ELSE run.cap
    IN IF Len(view) <= n THEN view ELSE SubSeq(view, Len(view) - n + 1, Len(view))
Unread(view, first) ==
    IF first THEN view ELSE ElementsAt(view, {k \in DOMAIN view : view[k] \in run.rest})

Begin ==
    /\ run.step \in {"idle", "done"} /\ runs < MaxRuns
    /\ runs' = runs + 1
    /\ \E cap \in PageCaps :
          run' = [NoRun EXCEPT !.step = "before", !.cap = cap, !.saw = Range(bView)]
    /\ UNCHANGED serviceVars

\* _read_history of B's view, of which `seen` has been read: another page, and
\* it goes on after a full one while it has fewer than HistoryLimit messages.
SnapshotPage(seen) == Newest(Unread(bView, seen = {}), Batch)
SnapshotRest(seen) == Range(Unread(bView, seen = {})) \ Range(SnapshotPage(seen))
ReadsOn(seen) ==
    LET page == SnapshotPage(seen)
    IN Len(page) = Batch /\ Cardinality(seen \cup Range(page)) < HistoryLimit

SnapshotBefore ==
    /\ run.step = "before"
    /\ run' = [run EXCEPT !.before = @ \cup Range(SnapshotPage(@)),
                          !.rest = SnapshotRest(run.before),
                          !.step = IF ReadsOn(run.before) THEN "before" ELSE "export"]
    /\ UNCHANGED <<serviceVars, runs>>

Older == Unread(aView, run.archive = <<>>)
Exported(page, rows, lost) ==
    run' = [run EXCEPT !.archive = @ \o Reverse(rows), !.lost = @ \cup lost,
                       !.rest = Range(Older) \ Range(page),
                       !.whole = Batch <= run.cap \/ Len(aView) <= run.cap,
                       !.step = IF Len(page) < Batch THEN "verify" ELSE "export"]

ExportPage_SkipsOne ==                                               \* (mistake)
    /\ run.step = "export"
    /\ LET page == Newest(Older, Batch)
       IN Exported(page, IF page = <<>> THEN page ELSE Tail(page), {})
    /\ UNCHANGED <<serviceVars, runs>>
\* stream_all: a page is read, its media downloaded, its records appended;
\* a page shorter than BATCH is taken for the last one.
ExportPage ==
    /\ run.step = "export"
    /\ LET page == Newest(Older, Batch)
       IN \E lost \in SUBSET {r \in Range(page) : r[1] \in Captionless} :
             Exported(page, page, lost)
    /\ UNCHANGED <<serviceVars, runs>>

\* verify_export reads the archive; nobody reads its answer.
VerifyExport ==
    /\ run.step = "verify"
    /\ run' = [run EXCEPT !.step = "package"]
    /\ UNCHANGED <<serviceVars, runs>>

\* build_import_package: a row without a text and without a file has no
\* line; archive_reactions changes nothing else.
BuildPackage ==
    /\ run.step = "package"
    /\ run' = [run EXCEPT !.step = "clear",
                          !.lines = ElementsAt(run.archive,
                             {k \in DOMAIN run.archive : run.archive[k] \notin run.lost})]
    /\ UNCHANGED <<serviceVars, runs>>

StillArriving == \E i \in ImportIds : Arriving(i) # {}

ClearTarget_Skipped ==                                               \* (mistake)
    /\ run.step = "clear"
    /\ run' = [run EXCEPT !.step = "still", !.late = StillArriving]
    /\ UNCHANGED <<serviceVars, runs>>
\* just_clear, never revoke: A keeps the chat.
ClearTarget ==
    /\ run.step = "clear"
    /\ bView' = <<>>
    /\ run' = [run EXCEPT !.step = "still", !.late = StillArriving]
    /\ UNCHANGED <<aView, imports, runs>>

\* verify_source_still_has_history: the clear is done, and nobody reads the
\* answer.
SourceStillHas ==
    /\ run.step = "still"
    /\ run' = [run EXCEPT !.step = "check"]
    /\ UNCHANGED <<serviceVars, runs>>

\* checkHistoryImport and checkHistoryImportPeer, whose answers are noted.
CheckImport ==
    /\ run.step = "check"
    /\ run' = [run EXCEPT !.step = "init"]
    /\ UNCHANGED <<serviceVars, runs>>

\* initHistoryImport, on B's session but into the peer that A resolved; the
\* import_id is kept by this process alone. An import into another chat
\* brings nothing into this one.
InitImport ==
    /\ run.step = "init" /\ Len(imports) < MaxImports
    /\ \E here \in BOOLEAN :
          /\ imports' = Opened(IF here THEN run.lines ELSE <<>>)
          /\ run' = [run EXCEPT !.step = "start", !.import = Len(imports) + 1,
                                !.here = here]
    /\ UNCHANGED <<aView, bView, runs>>

\* The uploads, and startHistoryImport.
StartImport ==
    /\ run.step = "start"
    /\ imports' = Started(run.import)
    /\ run' = [run EXCEPT !.step = "after"]
    /\ UNCHANGED <<aView, bView, runs>>

SnapshotAfter ==
    /\ run.step = "after"
    /\ run' = [run EXCEPT !.after = @ \cup Range(SnapshotPage(@)),
                          !.rest = SnapshotRest(run.after),
                          !.step = IF ReadsOn(run.after) THEN "after" ELSE "map"]
    /\ UNCHANGED <<serviceVars, runs>>

MapDelta_All ==                                                      \* (mistake)
    /\ run.step = "map"
    /\ run' = [run EXCEPT !.step = "report", !.delta = run.after \cup run.before]
    /\ UNCHANGED <<serviceVars, runs>>
\* map_source_to_target: what is new in B's view.
MapDelta ==
    /\ run.step = "map"
    /\ run' = [run EXCEPT !.step = "report", !.delta = run.after \ run.before]
    /\ UNCHANGED <<serviceVars, runs>>

\* The reactions, and verify: a report of what the files say.
Report ==
    /\ run.step = "report"
    /\ run' = [run EXCEPT !.step = "done"]
    /\ UNCHANGED <<serviceVars, runs>>

\* An RPC raises, or the process is killed.
RunDies ==
    /\ run.step \notin {"idle", "done"}
    /\ run' = NoRun
    /\ UNCHANGED <<serviceVars, runs>>

RecoveryNext ==
    \/ Begin \/ SnapshotBefore \/ ExportPage \/ VerifyExport \/ BuildPackage
    \/ ClearTarget \/ SourceStillHas \/ CheckImport \/ InitImport \/ StartImport
    \/ SnapshotAfter \/ MapDelta \/ Report
    \/ RunDies

\* The chat, the imports and the runs.
RecoverySpec ==
    /\ ServiceInit(FirstView) /\ RecoveryInit
    /\ [][RecoveryNext \/ (ServiceNext /\ UNCHANGED runVars)]_recoveryVars

-----------------------------------------------------------------------------
\* The copies of a row that B sees or is about to see, by import.
CopiesInTarget(r) ==
    {t \in Imported(bView) \cup UNION {Arriving(i) : i \in ImportIds} : Front(t) = r}

(* After a run, B sees one copy at most of every row the run imported,     *)
(* those of earlier runs having been cleared, unless an earlier import was *)
(* still arriving at the clear (full_test, engine.py:304-315).             *)
RestoredOnce ==
    run.step \in {"after", "map", "report", "done"} /\ ~run.late =>
        \A r \in Range(run.lines) : Cardinality(CopiesInTarget(r)) <= 1

(* What B saw when a run began, B sees after it, as a copy that has        *)
(* arrived or is about to, if the server's pages were as long as asked or  *)
(* A's view fitted one of them, the media could be downloaded, A still     *)
(* sees the row, the import went into the chat that was cleared, and the   *)
(* server did not take it back (stream_all, source_reader.py:46-92;        *)
(* build_import_package, importer.py:130-195).                             *)
NothingLost ==
    run.step \in {"after", "map", "report", "done"} /\ run.whole /\ run.here
        /\ imports[run.import].state = "started" =>
        \A r \in run.saw \ run.lost :
           r \in Range(aView) => \E t \in CopiesInTarget(r) : Last(t) = run.import

(* What a run counts as new in B's view came through its own import or was *)
(* written meanwhile, however many pages the snapshots took, unless an     *)
(* earlier import was still arriving at the clear (snapshot_target,        *)
(* map_source_to_target, engine.py:169-198, 231-243).                      *)
DeltaHonest ==
    run.step \in {"report", "done"} /\ ~run.late =>
        \A t \in run.delta : Len(t) = 1 \/ Last(t) = run.import
=============================================================================
