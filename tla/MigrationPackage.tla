-------------------------- MODULE MigrationPackage --------------------------
(***************************************************************************)
(* The WhatsApp packages: the requests that build and validate them        *)
(* (backend/app/api/migrations.py), the converter (services/converter.py), *)
(* the sample builder (services/test_builder.py) and the validator         *)
(* (services/import_assistant.py).                                         *)
(*                                                                         *)
(* A build does not suspend, so that it is one step of its request; the    *)
(* export it reads is written meanwhile by the worker, another process,    *)
(* newest message first.  Message m is the m-th oldest of the chat.        *)
(***************************************************************************)
EXTENDS Naturals, FiniteSets, Sequences, SequencesExt

CONSTANTS
    Builds,        \* the requests for a package
    ChatLength,    \* messages of the exported chat
    Illustrated,   \* those with an attachment
    Author,        \* the sender id of each message
    NameThen,      \* the sender's name when the message was exported
    TestCounts,    \* the counts a test package may have
    SampleEvery    \* a sample has media at every so many messages (7)

Chat == 1..ChatLength
ASSUME PackageAssumption ==
    /\ ChatLength \in Nat \ {0} /\ SampleEvery \in Nat \ {0}
    /\ Illustrated \subseteq Chat
    /\ DOMAIN Author = Chat /\ DOMAIN NameThen = Chat
    /\ TestCounts \subseteq Nat \ {0}

VARIABLES
    export,     \* the export's directory: form, messages held, files present
    build,      \* the requests
    jobs,       \* migration_jobs, by request: the status
    packages,   \* import_packages, by request: count and validation
    dirs,       \* the package directories
    mishaps     \* requests that met a database error or a restart

packageVars == <<export, build, jobs, packages, dirs, mishaps>>

\* torn: the last line of the workfile is incomplete.
ExportForms == {"none", "workfile", "torn", "archive"}
Lines == [message : Nat, name : STRING, attached : BOOLEAN]
NoDir == [built |-> FALSE, chat |-> <<>>, media |-> {}, manifest |-> 0]
\* A job has its own directory; test packages of one count and one second
\* share one.
DirOf(r, b) == IF b.kind = "migrate" THEN <<"job", r>>
               ELSE <<"test", <<b.count, b.second>>>>
Seconds == {0, 1}
JobStatuses == {"none", "running", "completed", "failed"}
NoPackage == [row |-> FALSE, messages |-> 0, validation |-> "pending"]
Dirs == ({"job"} \X Builds) \cup ({"test"} \X (TestCounts \X Seconds))

PackageTypeOK ==
    /\ export \in [form : ExportForms, held : 0..ChatLength, files : SUBSET Illustrated]
    /\ build \in [Builds -> [pc : {"new", "building", "finishing", "failing",
                                    "registering", "done"},
                             kind : {"migrate", "test", "sample"},
                             count : TestCounts \cup {0}, second : Seconds]]
    /\ jobs \in [Builds -> JobStatuses]
    /\ packages \in [Builds -> [row : BOOLEAN, messages : Nat,
                                validation : {"pending", "valid", "warnings", "invalid"}]]
    /\ \A d \in Dirs : /\ dirs[d].chat \in Seq(Lines)
                       /\ dirs[d].manifest <= Cardinality(dirs[d].media)
    /\ mishaps \subseteq Builds

PackageInit ==
    /\ export = [form |-> "none", held |-> 0, files |-> {}]
    /\ build = [r \in Builds |-> [pc |-> "new", kind |-> "migrate", count |-> 0, second |-> 0]]
    /\ jobs = [r \in Builds |-> "none"]
    /\ packages = [r \in Builds |-> NoPackage]
    /\ dirs = [d \in Dirs |-> NoDir]
    /\ mishaps = {}

-----------------------------------------------------------------------------
(* The export worker. *)

ExportGrows ==
    /\ \/ /\ export.form \in {"none", "workfile"} /\ export.held < ChatLength
          /\ export' = [export EXCEPT !.form = "torn"]
       \/ /\ export.form = "torn"
          /\ export' = [export EXCEPT !.form = "workfile", !.held = @ + 1]
       \/ /\ export.form = "workfile" /\ export.held = ChatLength
          /\ export' = [export EXCEPT !.form = "archive"]
       \/ \E m \in Illustrated \ export.files :
             /\ m > ChatLength - export.held
             /\ export' = [export EXCEPT !.files = @ \cup {m}]
    /\ UNCHANGED <<build, jobs, packages, dirs, mishaps>>

-----------------------------------------------------------------------------
(* build_whatsapp_package. *)

\* messages.jsonl, newest first.
Workfile == [i \in 1..export.held |-> ChatLength + 1 - i]
Ordered_AsStored ==                                                  \* (mistake)
    IF export.form = "archive" THEN [m \in Chat |-> m] ELSE Workfile
\* The archive as it is; the workfile reversed.
Ordered == IF export.form = "archive" THEN [m \in Chat |-> m] ELSE Reverse(Workfile)
Limited(s, count) == IF count = 0 \/ count >= Len(s) THEN s ELSE SubSeq(s, 1, count)

\* The name an author had at the first of the messages.
NameIn(s, author) ==
    NameThen[s[SelectInSeq(s, LAMBDA m : Author[m] = author)]]
ChatLines(s) == [i \in DOMAIN s |->
    [message |-> s[i], name |-> NameIn(s, Author[s[i]]), attached |-> s[i] \in Illustrated]]

\* _unique_name: a file of an earlier build into the directory stays.
Beside(media, m) == <<m, Cardinality({f \in media : f[1] = m})>>
Package(dir, lines, files) ==
    [built |-> TRUE, chat |-> lines, manifest |-> Cardinality(files),
     media |-> dir.media \cup {Beside(dir.media, m) : m \in files}]

SampleLines(n) == [i \in 1..n |->
    [message |-> i, name |-> "sample", attached |-> (i - 1) % SampleEvery = 0]]

-----------------------------------------------------------------------------
(* The requests. *)

HasData == export.form # "none" /\ export.held > 0
Step(r, pc) == build' = [build EXCEPT ![r].pc = pc]

\* create_migration, up to the commit of the job.
CreateMigration(r) ==
    /\ build[r].pc = "new" /\ HasData
    /\ Step(r, "building")
    /\ jobs' = [jobs EXCEPT ![r] = "running"]
    /\ UNCHANGED <<export, packages, dirs, mishaps>>

\* create_test_package: built at once, from the export or from samples.
TestBuilt(r, b, lines, files) ==
    /\ build' = [build EXCEPT ![r] = [b EXCEPT !.pc = "registering"]]
    /\ dirs' = [dirs EXCEPT ![DirOf(r, b)] = Package(@, lines, files)]
    /\ packages' = [packages EXCEPT ![r].messages = Len(lines)]
    /\ UNCHANGED <<export, jobs, mishaps>>
CreateTestPackage(r) ==
    /\ build[r].pc = "new"
    /\ \E n \in TestCounts, t \in Seconds, kind \in {"test", "sample"} :
          LET b == [pc |-> "new", kind |-> kind, count |-> n, second |-> t]
              s == Limited(Ordered, n)
              lines == SampleLines(n)
          IN \/ /\ kind = "test" /\ HasData /\ export.form # "torn"
                /\ TestBuilt(r, b, ChatLines(s), Range(s) \cap export.files)
             \/ /\ kind = "sample"
                /\ TestBuilt(r, b, lines, {i \in 1..n : lines[i].attached})

\* The rest of create_migration: an unreadable line fails the job.
BuildMigration(r) ==
    /\ build[r].pc = "building"
    /\ IF export.form = "torn"
       THEN Step(r, "failing") /\ UNCHANGED <<packages, dirs>>
       ELSE /\ dirs' = [dirs EXCEPT ![<<"job", r>>] =
                 Package(@, ChatLines(Ordered), Range(Ordered) \cap export.files)]
            /\ packages' = [packages EXCEPT ![r].messages = Len(Ordered)]
            /\ Step(r, "finishing")
    /\ UNCHANGED <<export, jobs, mishaps>>

CommitCompleted(r) ==
    /\ build[r].pc = "finishing"
    /\ jobs' = [jobs EXCEPT ![r] = "completed"]
    /\ Step(r, "registering")
    /\ UNCHANGED <<export, packages, dirs, mishaps>>

CommitFailed_Raises(r) ==                                            \* (mistake)
    /\ build[r].pc = "failing"
    /\ Step(r, "done") /\ UNCHANGED jobs
    /\ UNCHANGED <<export, packages, dirs, mishaps>>
CommitFailed(r) ==
    /\ build[r].pc = "failing"
    /\ jobs' = [jobs EXCEPT ![r] = "failed"]
    /\ Step(r, "done")
    /\ UNCHANGED <<export, packages, dirs, mishaps>>

RegisterPackage(r) ==
    /\ build[r].pc = "registering"
    /\ packages' = [packages EXCEPT ![r].row = TRUE]
    /\ Step(r, "done")
    /\ UNCHANGED <<export, jobs, dirs, mishaps>>

\* A commit that raises: that of "completed" is answered by one of "failed".
CommitRaises(r) ==
    /\ build[r].pc \in {"finishing", "failing", "registering"}
    /\ Step(r, IF build[r].pc = "finishing" THEN "failing" ELSE "done")
    /\ mishaps' = mishaps \cup {r}
    /\ UNCHANGED <<export, jobs, packages, dirs>>

\* The process restarts: its requests are gone.
ApiRestarts ==
    LET cut == {r \in Builds : build[r].pc \notin {"new", "done"}} IN
    /\ cut # {}
    /\ build' = [r \in Builds |-> IF r \in cut THEN [build[r] EXCEPT !.pc = "done"]
                                  ELSE build[r]]
    /\ mishaps' = mishaps \cup cut
    /\ UNCHANGED <<export, jobs, packages, dirs>>

\* validate_package: the counts are the manifest's.
Verdict(r) ==
    LET dir == dirs[DirOf(r, build[r])]
    IN IF dir.manifest > 0 THEN "valid"
       ELSE IF Len(dir.chat) > 0 THEN "warnings" ELSE "invalid"
Validate(r) ==
    /\ packages[r].row
    /\ packages[r].validation # Verdict(r)
    /\ packages' = [packages EXCEPT ![r].validation = Verdict(r)]
    /\ UNCHANGED <<export, build, jobs, dirs, mishaps>>

PackageNext ==
    \/ ExportGrows
    \/ ApiRestarts
    \/ \E r \in Builds :
          \/ CreateMigration(r) \/ CreateTestPackage(r) \/ BuildMigration(r)
          \/ CommitCompleted(r) \/ CommitFailed(r) \/ RegisterPackage(r)
          \/ CommitRaises(r) \/ Validate(r)

PackageSpec == PackageInit /\ [][PackageNext]_packageVars

-----------------------------------------------------------------------------
Contents(r) == dirs[DirOf(r, build[r])]
BuiltAlone(r) == \A q \in Builds \ {r} :
    DirOf(q, build[q]) = DirOf(r, build[r]) => build[q].pc = "new"

(* The package that a row describes holds as many messages as the row      *)
(* says: a run of the chat without a gap, oldest first, a sender under one *)
(* name, whatever the state of the export it was built from, unless a test *)
(* package of the same count and second was built into its directory       *)
(* (build_whatsapp_package; create_test_package).                          *)
PackageFaithful ==
    \A r \in Builds : packages[r].row /\ BuiltAlone(r) =>
       LET chat == Contents(r).chat IN
       /\ Len(chat) = packages[r].messages
       /\ \A i, j \in DOMAIN chat :
             /\ chat[i].message - chat[1].message = i - 1
             /\ build[r].kind # "sample" /\ Author[chat[i].message] = Author[chat[j].message]
                  => chat[i].name = chat[j].name
       /\ build[r].kind = "migrate" => chat[Len(chat)].message = ChatLength

(* A request that is over leaves neither a job that runs for ever nor a    *)
(* completed job without its package, unless the database or the process   *)
(* failed it (create_migration, migrations.py:100-138).                    *)
JobsSettle ==
    \A r \in Builds : build[r].pc = "done" /\ r \notin mishaps =>
        /\ jobs[r] # "running"
        /\ jobs[r] = "completed" => packages[r].row
=============================================================================
