--------------------------- MODULE SamplePipeline ---------------------------
(***************************************************************************)
(* The sampled recovery (recovery/pipeline.py) of one run id: a catalog of *)
(* A's chat with C, a sample of it, the sample's archive and package, and  *)
(* its import into the chat of A and B.  Two commands work on the run's    *)
(* directory, one process at a time: "sample" (run_sample_history) and     *)
(* "recover" (run_full_recovery).  Both may die anywhere, and be repeated. *)
(***************************************************************************)
EXTENDS ImportService, FiniteSets

CONSTANTS
    SourceSize,     \* messages of the source chat, by id
    SourceAtFirst,  \* those there when the first command starts
    SourcePage,     \* messages a page of the server holds at most
    ScanBatch,      \* SCAN_BATCH, the page size asked for
    Album,          \* grouped_id of each message, 0 when it has none
    ReplyTo,        \* the message each one answers, 0 when none
    MediaOnly,      \* messages that are a media file without a text
    SampleSize,     \* bound: messages picked
    MaxCommands     \* bound: invocations of either command

Source == 1..SourceSize
ASSUME PipelineAssumption ==
    /\ SourceSize \in Nat /\ SourceAtFirst \in 0..SourceSize
    /\ SourcePage \in Nat \ {0} /\ ScanBatch \in Nat \ {0}
    /\ Album \in [Source -> Nat]
    /\ \A m \in Source : ReplyTo[m] \in 0..(m - 1)
    /\ MediaOnly \subseteq Source
    /\ SampleSize \in Nat /\ MaxCommands \in Nat

VARIABLES
    posted,     \* ids posted to the source chat so far: 1..posted
    present,    \* those not deleted since
    catalog,    \* source_catalog.ndjson: ids, and Torn lines
    sample,     \* sample_manifest.json: picked ids, and ids with closures
    archive,    \* archive/messages.ndjson: ids, and Torn lines
    parts,      \* media with a .part file that an attempt left behind
    command,    \* the process at work
    commands,   \* invocations so far
    rescanned   \* an invocation had --no-resume

pipelineVars == <<posted, present, catalog, sample, archive, parts, command,
                  commands, rescanned>>
sampleVars == <<serviceVars, pipelineVars>>
dirVars == <<catalog, sample, archive, parts>>   \* the run's directory

Torn == 0
NoSample == [picked |-> {}, ids |-> {}]
SourceRow(m) == <<MaxWritten + m>>    \* as a row of the import service

CommandSteps == {"none", "scan", "pick", "fetch", "append", "package", "verify",
                 "check", "clear", "init", "start", "report"}
\* seen: ids the scan knows; base: catalog lines that are on disk for sure;
\* at: the oldest id read; wanted: ids there when the scan began;
\* recs: the records fetched; files: media whose file was downloaded;
\* torn: those whose file does not have the bytes that were hashed.
NoCommand == [step |-> "none", seen |-> {}, base |-> 0, at |-> 0, wanted |-> {},
              confirm |-> FALSE, recs |-> <<>>, files |-> {}, torn |-> {},
              lines |-> <<>>, rows |-> 0, import |-> 0]

PipelineTypeOK ==
    /\ ServiceTypeOK
    /\ posted \in 0..SourceSize /\ present \subseteq 1..posted
    /\ catalog \in Seq(0..posted) /\ archive \in Seq(0..posted)
    /\ sample.picked \subseteq sample.ids /\ sample.ids \subseteq 1..posted
    /\ parts \subseteq Source /\ commands \in 0..MaxCommands
    /\ command.step \in CommandSteps
    /\ command.seen \subseteq Source /\ command.base <= Len(catalog)
    /\ command.recs \in Seq(Source)
    /\ command.import \in {0} \cup ImportIds

PipelineInit ==      \* with ServiceInit(<<>>)
    /\ posted = SourceAtFirst /\ present = 1..SourceAtFirst
    /\ catalog = <<>> /\ sample = NoSample /\ archive = <<>> /\ parts = {}
    /\ command = NoCommand /\ commands = 0 /\ rescanned = FALSE

Goes(step) == command.step = step
-----------------------------------------------------------------------------
(* run_sample_history *)

StartSample ==
    /\ Goes("none") /\ commands < MaxCommands
    /\ commands' = commands + 1
    /\ \E resume \in BOOLEAN :
          /\ rescanned' = (rescanned \/ ~resume)
          /\ command' = [NoCommand EXCEPT !.step = "scan", !.base = Len(catalog),
                            !.at = SourceSize + 1, !.wanted = present,
                            !.seen = IF resume THEN Range(catalog) \ {Torn} ELSE {}]
    /\ UNCHANGED <<serviceVars, posted, present, dirVars>>

\* GetHistory from offset_id on, newest first.
NewestFirst(ids) == Reverse(Ascending(ids))
PageBelow(at) ==
    LET older == NewestFirst({m \in present : m < at})
        n == IF ScanBatch < SourcePage THEN ScanBatch ELSE SourcePage
    IN IF Len(older) <= n THEN older ELSE SubSeq(older, 1, n)
Catalogued(page, over) ==
    LET new == NewestFirst(Range(page) \ command.seen) IN
    /\ catalog' = catalog \o new
    /\ command' = [command EXCEPT !.seen = @ \cup Range(page),
                       !.at = IF page = <<>> THEN @ ELSE Last(page),
                       !.step = IF over THEN "pick" ELSE @]

ScanPage_ShortIsLast ==                                              \* (mistake)
    /\ Goes("scan")
    /\ LET page == PageBelow(command.at) IN Catalogued(page, Len(page) < ScanBatch)
    /\ UNCHANGED <<serviceVars, posted, present, sample, archive, parts,
                   commands, rescanned>>
\* discover_catalog: only an empty page ends it.
ScanPage ==
    /\ Goes("scan")
    /\ LET page == PageBelow(command.at) IN Catalogued(page, page = <<>>)
    /\ UNCHANGED <<serviceVars, posted, present, sample, archive, parts,
                   commands, rescanned>>

\* Album members and reply parents of a set of ids, as the catalog has them.
Mates(ids) == {m \in Range(catalog) \ {Torn} :
                  \E i \in ids : Album[i] # 0 /\ Album[m] = Album[i]}
Parents(ids) == {ReplyTo[i] : i \in ids} \cap (Range(catalog) \ {Torn})
Closed_Replaces(ids) == Mates(ids) \cup Parents(ids)                 \* (mistake)
Closed_ParentsAlone(ids) == ids \cup Parents(ids)                    \* (mistake)
\* apply_closures; closures_from_catalog
Closed(ids) == ids \cup Mates(ids) \cup Parents(ids)

\* write_sample_artifacts: the closed ids; the picked ones are remembered here.
Sampled(picked) == [picked |-> picked, ids |-> Closed(picked)]

\* load_catalog, select_ids and apply_closures; a torn line raises.
PickSample ==
    /\ Goes("pick")
    /\ \/ /\ Torn \notin Range(catalog) /\ catalog # <<>>
          /\ \E picked \in SUBSET Range(catalog) :
                /\ Cardinality(picked) \in 1..SampleSize
                /\ sample' = Sampled(picked)
       \/ /\ Torn \in Range(catalog) \/ catalog = <<>>
          /\ UNCHANGED sample
    /\ command' = NoCommand
    /\ UNCHANGED <<serviceVars, posted, present, catalog, archive, parts,
                   commands, rescanned>>

-----------------------------------------------------------------------------
(* run_full_recovery *)

\* Refused without a sample or with a catalog that cannot be read.
StartRecover ==
    /\ Goes("none") /\ commands < MaxCommands
    /\ sample # NoSample /\ Torn \notin Range(catalog)
    /\ commands' = commands + 1
    /\ \E confirm \in BOOLEAN :
          command' = [NoCommand EXCEPT !.step = "fetch", !.confirm = confirm]
    /\ UNCHANGED <<serviceVars, posted, present, dirVars, rescanned>>

FinalIds == Closed(sample.ids)

\* fetch_by_ids: deleted messages are missing from the answer.
FetchedIds(ids) == ids \cap present
\* MediaDownloader, which never resumes here: the media that succeed, and the
\* .part files that those leave which fail.
Downloads(ids) ==
    UNION {{[done |-> done, left |-> left] : left \in SUBSET (ids \ done)}
             : done \in SUBSET ids}

\* lazy_materialize up to its appends; a download appends to what an earlier
\* attempt left in its .part file.
FetchRecords ==
    /\ Goes("fetch")
    /\ LET ids == FetchedIds(FinalIds) IN
       \E media \in Downloads(ids \cap MediaOnly) :
          /\ command' = [command EXCEPT !.step = "append", !.files = media.done,
                            !.recs = Ascending(ids), !.torn = media.done \cap parts]
          /\ parts' = (parts \ media.done) \cup media.left
    /\ UNCHANGED <<serviceVars, posted, present, catalog, sample, archive,
                   commands, rescanned>>

\* append_canonical, per record; read_messages raises at a torn line.
ArchiveWith(recs) == archive \o recs
Unreadable == Torn \in Range(archive)

AppendRecords ==
    /\ Goes("append")
    /\ archive' = ArchiveWith(command.recs)
    /\ command' = [command EXCEPT !.step = "package"]
    /\ UNCHANGED <<serviceVars, posted, present, catalog, sample, parts,
                   commands, rescanned>>

\* build_import_package, from everything the archive holds; a torn line
\* raises.  A row without a text and without a file has no line.
BuildSamplePackage ==
    /\ Goes("package")
    /\ command' =
         IF Unreadable THEN NoCommand
         ELSE [command EXCEPT !.step = "verify", !.rows = Len(archive),
                 !.lines = ElementsAt(archive, {k \in DOMAIN archive :
                     archive[k] \notin MediaOnly \/ archive[k] \in command.files})]
    /\ UNCHANGED <<serviceVars, posted, present, dirVars, commands, rescanned>>

Verified(rowsMatch) ==
    command' = IF rowsMatch /\ command.torn = {} /\ command.confirm
               THEN [command EXCEPT !.step = "check"] ELSE NoCommand
VerifyRoundtrip_MediaAlone ==                                        \* (mistake)
    /\ Goes("verify")
    /\ Verified(TRUE)
    /\ UNCHANGED <<serviceVars, posted, present, dirVars, commands, rescanned>>
VerifyRoundtrip_CountAlone ==                                        \* (mistake)
    /\ Goes("verify")
    /\ command' = IF command.rows = Len(command.recs) /\ command.confirm
                  THEN [command EXCEPT !.step = "check"] ELSE NoCommand
    /\ UNCHANGED <<serviceVars, posted, present, dirVars, commands, rescanned>>
\* verify_roundtrip; a dry run, or one without --confirm, ends here.
VerifyRoundtrip ==
    /\ Goes("verify")
    /\ Verified(command.rows = Len(command.recs))
    /\ UNCHANGED <<serviceVars, posted, present, dirVars, commands, rescanned>>

\* check_target_peer and the snapshot of the target, written to a file.
CheckPeer ==
    /\ Goes("check")
    /\ command' = [command EXCEPT !.step = "clear"]
    /\ UNCHANGED <<serviceVars, posted, present, dirVars, commands, rescanned>>

ClearSampleTarget ==
    /\ Goes("clear")
    /\ bView' = <<>>
    /\ command' = [command EXCEPT !.step = "init"]
    /\ UNCHANGED <<aView, imports, posted, present, dirVars, commands, rescanned>>

InitSampleImport ==
    /\ Goes("init") /\ Len(imports) < MaxImports
    /\ imports' = Opened([k \in DOMAIN command.lines |-> SourceRow(command.lines[k])])
    /\ command' = [command EXCEPT !.step = "start", !.import = Len(imports) + 1]
    /\ UNCHANGED <<aView, bView, posted, present, dirVars, commands, rescanned>>

StartSampleImport ==
    /\ Goes("start")
    /\ imports' = Started(command.import)
    /\ command' = [command EXCEPT !.step = "report"]
    /\ UNCHANGED <<aView, bView, posted, present, dirVars, commands, rescanned>>

\* Mapping, reactions, verification and the report change nothing else.
ReportSample ==
    /\ Goes("report")
    /\ command' = NoCommand
    /\ UNCHANGED <<serviceVars, posted, present, dirVars, commands, rescanned>>

-----------------------------------------------------------------------------
\* What a buffered write that is cut short may leave: some of the new lines,
\* and a part of the next one.
Cut(lines, base) ==
    {SubSeq(lines, 1, k) : k \in base..Len(lines)} \cup
    {Append(SubSeq(lines, 1, k), Torn) : k \in base..(Len(lines) - 1)}

CommandDies ==
    /\ command.step # "none"
    /\ command' = NoCommand
    /\ \/ Goes("scan") /\ catalog' \in Cut(catalog, command.base) /\ UNCHANGED archive
       \/ /\ Goes("append") /\ UNCHANGED catalog
          /\ archive' \in Cut(ArchiveWith(command.recs), Len(archive))
       \/ command.step \notin {"scan", "append"} /\ UNCHANGED <<catalog, archive>>
    /\ \/ UNCHANGED parts
       \/ /\ Goes("fetch")
          /\ \E m \in FetchedIds(FinalIds) \cap MediaOnly : parts' = parts \cup {m}
    /\ \/ UNCHANGED sample
       \/ Goes("pick") /\ sample' = NoSample    \* a manifest that was cut short
    /\ UNCHANGED <<serviceVars, posted, present, commands, rescanned>>

\* The owners of the source chat go on using it; bound: one deletion.
SourceChanges ==
    /\ \/ posted < SourceSize /\ posted' = posted + 1 /\ present' = present \cup {posted + 1}
       \/ /\ present = 1..posted
          /\ \E m \in present : present' = present \ {m} /\ UNCHANGED posted
    /\ UNCHANGED <<serviceVars, dirVars, command, commands, rescanned>>

PipelineNext ==
    \/ StartSample \/ ScanPage \/ PickSample
    \/ StartRecover \/ FetchRecords \/ AppendRecords \/ BuildSamplePackage
    \/ VerifyRoundtrip \/ CheckPeer \/ ClearSampleTarget \/ InitSampleImport
    \/ StartSampleImport \/ ReportSample
    \/ CommandDies \/ SourceChanges

\* The two commands, the source chat, and the imports that they open.
PipelineSpec ==
    /\ ServiceInit(<<>>) /\ PipelineInit
    /\ [][PipelineNext \/ (ImportArrives /\ UNCHANGED pipelineVars)]_sampleVars

-----------------------------------------------------------------------------
(* The catalog a sample is drawn from has every message that was there     *)
(* when its scan began and still is, however many scans were cut short     *)
(* before it, and none twice unless a scan was told not to resume          *)
(* (discover_catalog, pipeline.py:168-211).                                *)
CatalogExact ==
    Goes("pick") /\ Torn \notin Range(catalog) =>
        /\ command.wanted \cap present \subseteq Range(catalog)
        /\ ~rescanned => IsInjective(catalog)

(* B's view is cleared only for a package that has each final message that *)
(* could be fetched, with its media, in one line, with the bytes that were *)
(* hashed, and none else (lazy_materialize, verify_roundtrip,              *)
(* pipeline.py:406-476, 810-823).                                          *)
ClearedOnlyVerified ==
    command.step \in {"clear", "init", "start", "report"} =>
        /\ command.confirm
        /\ IsInjective(command.lines)
        /\ Range(command.lines) =
              {m \in Range(command.recs) : m \notin MediaOnly \/ m \in command.files}
        /\ command.torn = {}

(* However often the commands of a run are repeated after a failure, no    *)
(* source message is handed to two imports, nor twice to one, so that the  *)
(* target has one copy of each at most (run_full_recovery,                 *)
(* pipeline.py:781-861).                                                   *)
ImportedOnce ==
    \A m \in Source :
        /\ Cardinality({i \in ImportIds : SourceRow(m) \in Range(imports[i].lines)}) <= 1
        /\ Cardinality({r \in Imported(bView) : r[1] = MaxWritten + m}) <= 1

(* Though the catalog may have grown since the sample was drawn, the final *)
(* ids have the albums of the picked messages and of those they answer     *)
(* without a gap, each message a picked one answers, and each one that the *)
(* album members drawn with it answer (apply_closures,                     *)
(* closures_from_catalog, pipeline.py:302-317, 388-403).                   *)
AlbumsWhole ==
    Goes("fetch") =>
        LET asked == sample.picked \cup Parents(sample.picked) IN
        /\ asked \cup Mates(asked) \subseteq FinalIds
        /\ Parents(sample.picked \cup (Mates(sample.picked) \cap sample.ids)) \subseteq FinalIds
=============================================================================
