--------------------------- MODULE RecoveryProofs ---------------------------
(***************************************************************************)
(* What holds of the recovery tools - RecoveryRun, SamplePipeline and the  *)
(* import service under both - for every number of messages, imports, runs *)
(* and commands, and for every size of a page.                             *)
(***************************************************************************)
EXTENDS RecoveryRun, SamplePipeline, FiniteSetTheorems, FunctionTheorems,
        SequenceTheorems, TLAPS

-----------------------------------------------------------------------------
(* The invariant of the chat and its imports. *)

Rows == Seq(Nat)
ImportStates == {"open", "started", "reverted"}

\* A row was put into the chat: somebody wrote it, or an import brought it.
Brought(r) == \E i \in ImportIds : \E k \in 1..imports[i].sent :
                 r = Append(imports[i].lines[k], i)
Happened(r) == r \in Written(aView) \/ Brought(r)

ServiceTypes ==
    /\ aView \in Seq(Rows) /\ bView \in Seq(Rows)
    /\ imports \in Seq([lines : Seq(Rows), state : ImportStates, sent : Nat])

\* The lines of an import are different messages.
LinesDiffer == \A i \in ImportIds : /\ IsInjective(imports[i].lines)
                                    /\ <<>> \notin Range(imports[i].lines)

\* B sees nothing that A does not, and each row that one of them sees was put
\* into the chat; A sees everything that was written, in numbers without a gap.
ViewsHappened ==
    /\ Range(bView) \subseteq Range(aView)
    /\ \A r \in Range(aView) : Happened(r)
    /\ Written(aView) = {<<m>> : m \in 1..Cardinality(Written(aView))}

ServiceInv == ServiceTypeOK /\ ServiceTypes /\ LinesDiffer /\ ViewsHappened

-----------------------------------------------------------------------------
(* The invariant of the sampled recovery. *)

Commands == [step : CommandSteps, seen : SUBSET Source, base : Nat,
             at : 0..(SourceSize + 1), wanted : SUBSET Source, confirm : BOOLEAN,
             recs : Seq(Source), files : SUBSET Source, torn : SUBSET Source,
             lines : Seq(Source), rows : Nat, import : Nat]

\* What a scan has read, it has catalogued: of the messages that were there
\* when it began, and below each one that is catalogued.
ScanCovers ==
    Goes("scan") =>
        /\ command.seen \subseteq Range(catalog) \ {Torn}
        /\ ~rescanned => Range(catalog) \ {Torn} = command.seen
        /\ command.wanted \subseteq 1..posted
        /\ \A m \in command.wanted \cap present : command.at <= m => m \in command.seen
        /\ \A m \in present, i \in Range(catalog) :
              command.at <= m /\ m < i => m \in Range(catalog)

\* A sample is drawn from a catalog that leaves out no message older than one
\* that it has.
CatalogWhole ==
    Goes("pick") =>
        /\ command.wanted \cap present \subseteq Range(catalog)
        /\ command.wanted \subseteq 1..posted
        /\ \A m \in present, i \in Range(catalog) : m < i => m \in Range(catalog)

NoneTwice == ~rescanned => \A j, k \in DOMAIN catalog :
                 catalog[j] = catalog[k] => j = k \/ catalog[j] = Torn

\* What a picked message answers is sampled with it, or gone for good.
ParentsSampled ==
    \A i \in sample.picked : ReplyTo[i] \in {0} \cup sample.ids
                             \/ ReplyTo[i] \notin present \cup Range(catalog)

\* The package a command has built of the archive.
Usable == {k \in DOMAIN archive : archive[k] \notin MediaOnly \/ archive[k] \in command.files}
Packaged == command.lines = ElementsAt(archive, Usable)
Loaded == {i \in ImportIds : imports[i].lines # <<>>}

\* The archive has lines since the first import that had any; so a later
\* command's archive is longer than what that command fetched, and it is
\* refused before it clears the target.
ArchiveGuards ==
    /\ Loaded # {} => archive # <<>>
    /\ Range(command.recs) \subseteq 1..posted
    /\ command.step \notin {"none", "scan", "pick", "fetch"} => IsInjective(command.recs)
    /\ command.step \in {"package", "verify"} =>
          /\ Len(command.recs) <= Len(archive)
          /\ Loaded # {} => Len(command.recs) < Len(archive)
          /\ Len(command.recs) = Len(archive) => archive = command.recs
    /\ Goes("verify") => Packaged /\ command.rows = Len(archive)
    /\ command.step \in {"check", "clear", "init", "start", "report"} =>
          /\ archive = command.recs /\ Packaged
          /\ command.confirm /\ command.torn = {}
    /\ command.step \in {"check", "clear", "init"} => Loaded = {}
    /\ command.step \in {"start", "report"} =>
          command.import \in ImportIds /\ Loaded \subseteq {command.import}

\* At most one import has lines, each of them a source message.
OneLoaded ==
    /\ \A i, j \in Loaded : i = j
    /\ \A i \in ImportIds : Range(imports[i].lines) \subseteq {SourceRow(m) : m \in Source}
    /\ Written(aView) = {}

PipelineInv ==
    /\ PipelineTypeOK /\ command \in Commands /\ ServiceInv
    /\ ScanCovers /\ CatalogWhole /\ NoneTwice /\ ParentsSampled
    /\ ArchiveGuards /\ OneLoaded

-----------------------------------------------------------------------------
(* The invariant of the full test. *)

Runs == [step : RunSteps, cap : Nat, whole : BOOLEAN, archive : Seq(Rows),
         rest : SUBSET Rows, saw : SUBSET Rows, lost : SUBSET Rows, lines : Seq(Rows),
         before : SUBSET Rows, after : SUBSET Rows, import : Nat, here : BOOLEAN,
         delta : SUBSET Rows, late : BOOLEAN]

Restoring == run.step \in {"after", "map", "report", "done"}

\* What a run has read was in the chat, and nothing is read of B's view after
\* the import before the import is started.
RunReads ==
    /\ \A r \in run.saw \cup Range(run.archive) \cup run.rest : Happened(r)
    /\ ~Restoring => run.after = {}

\* What B saw and A still sees is in the archive or older than what was read;
\* after the last page of a chat that fits one page it is in the archive, and
\* then in the package unless its media was lost.
ExportCovers ==
    /\ run.step = "before" => run.archive = <<>>
    /\ run.step = "export" /\ run.archive # <<>> =>
          /\ run.rest \cap Range(run.archive) = {}
          /\ run.saw \cap Range(aView) \subseteq Range(run.archive) \cup run.rest
    /\ run.step \in {"verify", "package"} /\ run.whole =>
          run.saw \cap Range(aView) \subseteq Range(run.archive)
    /\ run.step \in {"clear", "still", "check", "init", "start"} \/ Restoring =>
          /\ IsInjective(run.lines) /\ <<>> \notin Range(run.lines)
          /\ run.whole => (run.saw \ run.lost) \cap Range(aView) \subseteq Range(run.lines)

\* The run's own import has the run's lines, or none if it went into another
\* chat, and B sees each that arrived, unless the server took the import back.
OwnImport ==
    /\ run.step = "start" \/ Restoring =>
          /\ run.import \in ImportIds
          /\ imports[run.import].lines = IF run.here THEN run.lines ELSE <<>>
    /\ run.step = "start" => imports[run.import].state = "open" /\ imports[run.import].sent = 0
    /\ Restoring /\ imports[run.import].state = "started" =>
          \A k \in 1..imports[run.import].sent :
             Append(imports[run.import].lines[k], run.import) \in Range(bView)

\* Unless an import was still arriving at the clear, B sees no copy from then
\* on but those of the run's own import.
TargetQuiet ==
    ~run.late =>
        /\ run.step \in {"still", "check", "init", "start"} =>
              Imported(bView) = {} /\ ~StillArriving
        /\ Restoring =>
              /\ \A t \in Imported(bView) : Last(t) = run.import
              /\ \A i \in ImportIds \ {run.import} : Arriving(i) = {}
        /\ run.step \in {"after", "map"} => \A t \in run.after : Len(t) = 1 \/ Last(t) = run.import

RecoveryInv ==
    /\ RecoveryTypeOK /\ run \in Runs /\ ServiceInv
    /\ RunReads /\ ExportCovers /\ OwnImport /\ TargetQuiet /\ DeltaHonest

-----------------------------------------------------------------------------
(* Sequences. *)

\* The elements of a finite set of numbers, in ascending order.
LEMMA AscendingOrder ==
    ASSUME NEW S, S \subseteq Nat, IsFiniteSet(S)
    PROVE  /\ Cardinality(S) \in Nat
           /\ Ascending(S) \in [1..Cardinality(S) -> S]
           /\ \A i, j \in 1..Cardinality(S) : i < j => Ascending(S)[i] < Ascending(S)[j]
           /\ \A x \in S : \E k \in 1..Cardinality(S) : Ascending(S)[k] = x
<1>. DEFINE Below(x) == {y \in S : y <= x}
            rank == [x \in S |-> Cardinality(Below(x))]
            n == Cardinality(S)
<1>1. n \in Nat
  BY FS_CardinalityType
<1>2. \A x \in S : /\ IsFiniteSet(Below(x)) /\ rank[x] \in 1..n
  <2>. SUFFICES ASSUME NEW x \in S PROVE IsFiniteSet(Below(x)) /\ rank[x] \in 1..n
    OBVIOUS
  <2>1. IsFiniteSet(Below(x)) /\ Cardinality(Below(x)) <= n
    BY FS_Subset
  <2>2. Cardinality(Below(x)) \in Nat /\ Cardinality(Below(x)) # 0
    <3>1. x \in Nat /\ x \in Below(x)
      OBVIOUS
    <3>. QED  BY <2>1, <3>1, FS_CardinalityType, FS_EmptySet
  <2>. QED  BY <1>1, <2>1, <2>2
<1>3. \A x, y \in S : x < y => rank[x] < rank[y]
  <2>. SUFFICES ASSUME NEW x \in S, NEW y \in S, x < y PROVE rank[x] < rank[y]
    OBVIOUS
  <2>0. S \subseteq Nat /\ x \in Nat /\ y \in Nat
    OBVIOUS
  <2>1. /\ \A z \in Below(x) : z \in S /\ z <= y
        /\ y <= y /\ ~(y <= x)
    BY <2>0
  <2>a. Below(x) \subseteq Below(y) /\ y \in Below(y) /\ y \notin Below(x)
    BY <2>1, Zenon
  <2>2. Cardinality(Below(x)) <= Cardinality(Below(y)) /\ Cardinality(Below(x)) # Cardinality(Below(y))
    BY <1>2, <2>a, FS_Subset
  <2>. QED  BY <1>2, <2>2
<1>4. rank \in [S -> 1..n]
  BY <1>2
<1>5. \A x, y \in S : rank[x] = rank[y] => x = y
  BY <1>3, <1>4
<1>6. \A k \in 1..n : \E x \in S : rank[x] = k
  <2>1. rank \in Injection(S, 1..n)
    BY <1>4, <1>5 DEF Injection, IsInjective
  <2>2. IsFiniteSet(1..n) /\ Cardinality(1..n) = n
    BY <1>1, FS_Interval
  <2>3. rank \in Surjection(S, 1..n)
    BY <2>1, <2>2, FS_Injection
  <2>. QED  BY <2>3 DEF Surjection
<1>. HIDE DEF rank
<1>7. \A k \in 1..n : Ascending(S)[k] \in S /\ rank[Ascending(S)[k]] = k
  <2>. SUFFICES ASSUME NEW k \in 1..n PROVE Ascending(S)[k] \in S /\ rank[Ascending(S)[k]] = k
    OBVIOUS
  <2>1. \E x \in S : Cardinality(Below(x)) = k
    BY <1>6 DEF rank
  <2>2. Ascending(S)[k] = CHOOSE x \in S : Cardinality(Below(x)) = k
    BY DEF Ascending
  <2>. QED  BY <2>1, <2>2 DEF rank
<1>8. Ascending(S) \in [1..n -> S]
  BY <1>7 DEF Ascending
<1>9. \A i, j \in 1..n : i < j => Ascending(S)[i] < Ascending(S)[j]
  <2>. SUFFICES ASSUME NEW i \in 1..n, NEW j \in 1..n, i < j
                PROVE  Ascending(S)[i] < Ascending(S)[j]
    OBVIOUS
  <2>1. PICK x \in S : x = Ascending(S)[i] /\ rank[x] = i
    BY <1>7
  <2>2. PICK y \in S : y = Ascending(S)[j] /\ rank[y] = j
    BY <1>7
  <2>3. x # y /\ ~(y < x)
    BY <1>3, <1>1, <2>1, <2>2
  <2>. QED  BY <2>1, <2>2, <2>3
<1>10. \A x \in S : \E k \in 1..n : Ascending(S)[k] = x
  BY <1>4, <1>5, <1>7
<1>. QED  BY <1>1, <1>8, <1>9, <1>10

\* The same, as a sequence without repetitions.
LEMMA AscendingList ==
    ASSUME NEW S, S \subseteq Nat, IsFiniteSet(S)
    PROVE  /\ Ascending(S) \in Seq(S) /\ Len(Ascending(S)) = Cardinality(S)
           /\ Range(Ascending(S)) = S /\ IsInjective(Ascending(S))
<1>0. /\ Cardinality(S) \in Nat
      /\ Ascending(S) \in [1..Cardinality(S) -> S]
      /\ \A i, j \in 1..Cardinality(S) : i < j => Ascending(S)[i] < Ascending(S)[j]
      /\ \A x \in S : \E k \in 1..Cardinality(S) : Ascending(S)[k] = x
  BY AscendingOrder, Zenon
<1>1. Ascending(S) \in Seq(S) /\ Len(Ascending(S)) = Cardinality(S)
  BY <1>0, IsASeq
<1>2. DOMAIN Ascending(S) = 1..Cardinality(S)
  BY <1>0
<1>3. Range(Ascending(S)) = S
  BY <1>0, <1>2 DEF Range
<1>4. IsInjective(Ascending(S))
  <2>. SUFFICES ASSUME NEW i \in 1..Cardinality(S), NEW j \in 1..Cardinality(S),
                       Ascending(S)[i] = Ascending(S)[j]
                PROVE  i = j
    BY <1>2 DEF IsInjective
  <2>a. i \in Nat /\ j \in Nat
    BY <1>0
  <2>b. Ascending(S)[i] \in S
    BY <1>0
  <2>c. \A x \in S : x \in Nat
    OBVIOUS
  <2>1. i \in Nat /\ j \in Nat /\ Ascending(S)[i] \in Nat
    BY <2>a, <2>b, <2>c
  <2>2. ~(i < j) /\ ~(j < i)
    BY <1>0, <2>1
  <2>. QED  BY <2>1, <2>2
<1>. QED  BY <1>1, <1>3, <1>4

\* What a part of a sequence has, and that it repeats nothing the whole does
\* not.
LEMMA PartOfSequence ==
    ASSUME NEW T, NEW s \in Seq(T), NEW I, I \subseteq DOMAIN s
    PROVE  /\ ElementsAt(s, I) \in Seq(T)
           /\ Len(ElementsAt(s, I)) \in Nat /\ Len(ElementsAt(s, I)) <= Len(s)
           /\ Range(ElementsAt(s, I)) = {s[k] : k \in I}
           /\ IsInjective(s) => IsInjective(ElementsAt(s, I))
<1>. DEFINE e == ElementsAt(s, I)
            n == Cardinality(I)
<1>1. DOMAIN s = 1..Len(s) /\ Len(s) \in Nat
  BY LenProperties
<1>2. IsFiniteSet(1..Len(s)) /\ Cardinality(1..Len(s)) = Len(s)
  <2>1. 1 \in Int /\ Len(s) \in Int
    BY <1>1
  <2>2. /\ IsFiniteSet(1..Len(s))
        /\ Cardinality(1..Len(s)) = IF 1 > Len(s) THEN 0 ELSE Len(s) - 1 + 1
    BY <2>1, FS_Interval, Zenon
  <2>. QED  BY <1>1, <2>2
<1>3. IsFiniteSet(I) /\ n <= Len(s) /\ I \subseteq Nat
  BY <1>1, <1>2, FS_Subset
<1>4. n \in Nat /\ Ascending(I) \in [1..n -> I] /\ Range(Ascending(I)) = I
      /\ DOMAIN Ascending(I) = 1..n /\ IsInjective(Ascending(I))
  BY <1>3, AscendingOrder, AscendingList
<1>5. \A k \in I : s[k] \in T
  BY <1>1, ElementOfSeq
<1>6. e = [k \in 1..n |-> s[Ascending(I)[k]]]
  BY DEF ElementsAt
<1>7. e \in [1..n -> T]
  BY <1>4, <1>5, <1>6
<1>8. e \in Seq(T) /\ Len(e) = n
  BY <1>4, <1>7, IsASeq
<1>9. Range(e) = {s[k] : k \in I}
  BY <1>4, <1>6 DEF Range
<1>10. IsInjective(s) => IsInjective(e)
  BY <1>4, <1>6 DEF IsInjective
<1>. QED  BY <1>3, <1>4, <1>8, <1>9, <1>10

\* Appending to a sequence adds an element at its end.
LEMMA AppendedTo ==
    ASSUME NEW T, NEW s \in Seq(T), NEW x \in T
    PROVE  /\ Append(s, x) \in Seq(T) /\ Len(Append(s, x)) = Len(s) + 1
           /\ \A k \in 1..Len(s) : Append(s, x)[k] = s[k]
           /\ Append(s, x)[Len(s) + 1] = x
           /\ Range(Append(s, x)) = Range(s) \cup {x}
           /\ IsInjective(s) /\ x \notin Range(s) => IsInjective(Append(s, x))
<1>1. /\ Append(s, x) \in Seq(T) /\ Len(Append(s, x)) = Len(s) + 1
      /\ \A k \in 1..Len(s) : Append(s, x)[k] = s[k]
      /\ Append(s, x)[Len(s) + 1] = x
  BY AppendProperties
<1>2. /\ DOMAIN s = 1..Len(s) /\ DOMAIN Append(s, x) = 1..(Len(s) + 1) /\ Len(s) \in Nat
  BY <1>1, LenProperties
<1>3. Range(Append(s, x)) = Range(s) \cup {x}
  <2>1. \A y \in Range(Append(s, x)) : y \in Range(s) \cup {x}
    BY <1>1, <1>2 DEF Range
  <2>2. \A y \in Range(s) \cup {x} : y \in Range(Append(s, x))
    BY <1>1, <1>2 DEF Range
  <2>. QED  BY <2>1, <2>2
<1>4. ASSUME IsInjective(s), x \notin Range(s) PROVE IsInjective(Append(s, x))
  <2>. SUFFICES ASSUME NEW j \in 1..(Len(s) + 1), NEW k \in 1..(Len(s) + 1),
                       Append(s, x)[j] = Append(s, x)[k]
                PROVE  j = k
    BY <1>2 DEF IsInjective
  <2>1. \A m \in 1..Len(s) : s[m] \in Range(s)
    BY <1>2 DEF Range
  <2>. QED  BY <1>1, <1>2, <1>4, <2>1 DEF IsInjective
<1>. QED  BY <1>1, <1>3, <1>4

\* A copy of a row says what it copies and which import made it.
LEMMA CopyOfRow ==
    ASSUME NEW r \in Rows, NEW i \in Nat
    PROVE  /\ Append(r, i) \in Rows /\ Append(r, i) # <<>>
           /\ Len(Append(r, i)) = Len(r) + 1
           /\ Front(Append(r, i)) = r /\ Last(Append(r, i)) = i
<1>1. /\ r \in Seq(Nat) /\ Append(r, i) \in Rows /\ Len(Append(r, i)) = Len(r) + 1
      /\ Append(r, i)[Len(r) + 1] = i
      /\ \A k \in 1..Len(r) : Append(r, i)[k] = r[k]
  BY AppendedTo DEF Rows
<1>2. Last(Append(r, i)) = i
  BY <1>1 DEF Last
<1>3. Len(r) \in Nat /\ Append(r, i) # <<>>
  BY <1>1, LenProperties
<1>4. Front(Append(r, i)) = r
  <2>1. Front(Append(r, i)) = SubSeq(Append(r, i), 1, Len(r))
    BY <1>1, <1>3 DEF Front
  <2>2. SubSeq(Append(r, i), 1, Len(r)) = [k \in 1..Len(r) |-> Append(r, i)[k]]
    BY <1>1, <1>3
  <2>3. r = [k \in 1..Len(r) |-> r[k]]
    BY <1>1, LenProperties
  <2>. QED  BY <1>1, <2>1, <2>2, <2>3
<1>. QED  BY <1>1, <1>2, <1>3, <1>4

\* Two copies that are one row copy one row, by one import.
LEMMA CopiesDiffer ==
    ASSUME NEW r \in Rows, NEW i \in Nat, NEW q \in Rows, NEW j \in Nat,
           Append(r, i) = Append(q, j)
    PROVE  r = q /\ i = j
<1>1. Front(Append(r, i)) = r /\ Last(Append(r, i)) = i
  BY CopyOfRow
<1>2. Front(Append(q, j)) = q /\ Last(Append(q, j)) = j
  BY CopyOfRow
<1>. QED  BY <1>1, <1>2

\* What reversing and joining sequences keeps.
LEMMA ReversedSequence ==
    ASSUME NEW T, NEW s \in Seq(T)
    PROVE  /\ Reverse(s) \in Seq(T) /\ Len(Reverse(s)) = Len(s)
           /\ Range(Reverse(s)) = Range(s)
           /\ IsInjective(s) => IsInjective(Reverse(s))
<1>1. DOMAIN s = 1..Len(s) /\ Len(s) \in Nat /\ \A k \in 1..Len(s) : s[k] \in T
  BY LenProperties, ElementOfSeq
<1>2. \A k \in 1..Len(s) : (Len(s) - k) + 1 \in 1..Len(s) /\ (Len(s) - ((Len(s) - k) + 1)) + 1 = k
  BY <1>1
<1>3. /\ Reverse(s) = [k \in 1..Len(s) |-> s[(Len(s) - k) + 1]]
      /\ Reverse(s) \in [1..Len(s) -> T]
  BY <1>1, <1>2 DEF Reverse
<1>4. Reverse(s) \in Seq(T) /\ Len(Reverse(s)) = Len(s)
  BY <1>1, <1>3, IsASeq
<1>5. Range(Reverse(s)) = Range(s)
  <2>1. \A y \in Range(Reverse(s)) : y \in Range(s)
    BY <1>1, <1>2, <1>3 DEF Range
  <2>2. \A y \in Range(s) : y \in Range(Reverse(s))
    <3>. SUFFICES ASSUME NEW k \in 1..Len(s) PROVE s[k] \in Range(Reverse(s))
      BY <1>1 DEF Range
    <3>. DEFINE j == (Len(s) - k) + 1
    <3>1. j \in 1..Len(s) /\ (Len(s) - j) + 1 = k
      BY <1>2
    <3>2. Reverse(s)[j] = s[k]
      BY <1>3, <3>1
    <3>3. DOMAIN Reverse(s) = 1..Len(s)
      BY <1>3
    <3>. QED  BY <3>1, <3>2, <3>3 DEF Range
  <2>. QED  BY <2>1, <2>2
<1>6. ASSUME IsInjective(s) PROVE IsInjective(Reverse(s))
  <2>. SUFFICES ASSUME NEW j \in 1..Len(s), NEW k \in 1..Len(s), Reverse(s)[j] = Reverse(s)[k]
                PROVE  j = k
    BY <1>3 DEF IsInjective
  <2>1. s[(Len(s) - j) + 1] = s[(Len(s) - k) + 1]
    BY <1>3
  <2>2. (Len(s) - j) + 1 = (Len(s) - k) + 1
    BY <1>1, <1>2, <1>6, <2>1 DEF IsInjective
  <2>. QED  BY <1>1, <2>2
<1>. QED  BY <1>4, <1>5, <1>6

\* A sequence is one over every set that has its elements.
LEMMA SequenceOver ==
    ASSUME NEW S, NEW T, NEW s \in Seq(S), Range(s) \subseteq T
    PROVE  s \in Seq(T)
<1>1. Len(s) \in Nat /\ DOMAIN s = 1..Len(s) /\ s \in [1..Len(s) -> S]
  BY LenProperties
<1>2. s \in [1..Len(s) -> T]
  BY <1>1 DEF Range
<1>. QED  BY <1>1, <1>2, IsASeq

LEMMA JoinedSequences ==
    ASSUME NEW T, NEW s \in Seq(T), NEW t \in Seq(T)
    PROVE  /\ s \o t \in Seq(T) /\ Len(s \o t) = Len(s) + Len(t)
           /\ Range(s \o t) = Range(s) \cup Range(t)
           /\ \A k \in 1..Len(s) : (s \o t)[k] = s[k]
           /\ \A k \in 1..Len(t) : (s \o t)[Len(s) + k] = t[k]
           /\ IsInjective(s) /\ IsInjective(t) /\ Range(s) \cap Range(t) = {} => IsInjective(s \o t)
<1>1. /\ s \o t \in Seq(T) /\ Len(s \o t) = Len(s) + Len(t)
      /\ \A k \in 1..(Len(s) + Len(t)) :
            (s \o t)[k] = IF k <= Len(s) THEN s[k] ELSE t[k - Len(s)]
  BY ConcatProperties
<1>2. /\ DOMAIN s = 1..Len(s) /\ DOMAIN t = 1..Len(t) /\ Len(s) \in Nat /\ Len(t) \in Nat
      /\ DOMAIN (s \o t) = 1..(Len(s) + Len(t))
  BY <1>1, LenProperties
<1>3. /\ \A k \in 1..Len(s) : (s \o t)[k] = s[k]
      /\ \A k \in 1..Len(t) : (s \o t)[Len(s) + k] = t[k]
  BY <1>1, <1>2
<1>4. Range(s \o t) = Range(s) \cup Range(t)
  <2>1. \A y \in Range(s \o t) : y \in Range(s) \cup Range(t)
    <3>. SUFFICES ASSUME NEW k \in 1..(Len(s) + Len(t))
                  PROVE  (s \o t)[k] \in Range(s) \cup Range(t)
      BY <1>2 DEF Range
    <3>. QED  BY <1>1, <1>2 DEF Range
  <2>2. \A y \in Range(s) : y \in Range(s \o t)
    BY <1>2, <1>3 DEF Range
  <2>3. \A y \in Range(t) : y \in Range(s \o t)
    <3>. SUFFICES ASSUME NEW k \in 1..Len(t) PROVE t[k] \in Range(s \o t)
      BY <1>2 DEF Range
    <3>1. Len(s) + k \in 1..(Len(s) + Len(t))
      BY <1>2
    <3>. QED  BY <1>2, <1>3, <3>1 DEF Range
  <2>. QED  BY <2>1, <2>2, <2>3
<1>5. ASSUME IsInjective(s), IsInjective(t), Range(s) \cap Range(t) = {}
      PROVE  IsInjective(s \o t)
  <2>. SUFFICES ASSUME NEW j \in 1..(Len(s) + Len(t)), NEW k \in 1..(Len(s) + Len(t)),
                       (s \o t)[j] = (s \o t)[k]
                PROVE  j = k
    BY <1>2 DEF IsInjective
  <2>1. CASE j <= Len(s) /\ k <= Len(s)
    BY <1>1, <1>2, <1>5, <2>1 DEF IsInjective
  <2>2. CASE ~(j <= Len(s)) /\ ~(k <= Len(s))
    <3>1. j - Len(s) \in 1..Len(t) /\ k - Len(s) \in 1..Len(t)
      BY <1>2, <2>2
    <3>2. t[j - Len(s)] = t[k - Len(s)]
      BY <1>1, <2>2
    <3>3. j - Len(s) = k - Len(s)
      BY <1>2, <1>5, <3>1, <3>2 DEF IsInjective
    <3>. QED  BY <1>2, <3>3
  <2>3. \A m \in 1..(Len(s) + Len(t)) :
           (s \o t)[m] \in IF m <= Len(s) THEN Range(s) ELSE Range(t)
    <3>. SUFFICES ASSUME NEW m \in 1..(Len(s) + Len(t))
                  PROVE  (s \o t)[m] \in IF m <= Len(s) THEN Range(s) ELSE Range(t)
      OBVIOUS
    <3>1. CASE m <= Len(s)
      <4>1. (s \o t)[m] = s[m] /\ m \in DOMAIN s
        BY <1>1, <1>2, <3>1
      <4>. QED  BY <3>1, <4>1 DEF Range
    <3>2. CASE ~(m <= Len(s))
      <4>1. (s \o t)[m] = t[m - Len(s)] /\ m - Len(s) \in DOMAIN t
        BY <1>1, <1>2, <3>2
      <4>. QED  BY <3>2, <4>1 DEF Range
    <3>. QED  BY <3>1, <3>2
  <2>4. (s \o t)[j] \in Range(s) <=> j <= Len(s)
    BY <1>5, <2>3
  <2>5. (s \o t)[k] \in Range(s) <=> k <= Len(s)
    BY <1>5, <2>3
  <2>. QED  BY <2>1, <2>2, <2>4, <2>5
<1>. QED  BY <1>1, <1>3, <1>4, <1>5

-----------------------------------------------------------------------------
(* The chat and its imports. *)

\* Imports and their lines.
LEMMA ImportFacts ==
    ASSUME ServiceInv, NEW i \in ImportIds
    PROVE  /\ ImportIds = 1..Len(imports) /\ Len(imports) \in Nat /\ i \in Nat \ {0}
           /\ imports[i] \in [lines : Seq(Rows), state : ImportStates, sent : Nat]
           /\ imports[i].lines \in Seq(Rows) /\ Len(imports[i].lines) \in Nat
           /\ DOMAIN imports[i].lines = 1..Len(imports[i].lines)
           /\ imports[i].sent \in 0..Len(imports[i].lines)
           /\ \A k \in 1..Len(imports[i].lines) :
                 /\ imports[i].lines[k] \in Rows /\ imports[i].lines[k] # <<>>
                 /\ Len(imports[i].lines[k]) \in Nat \ {0}
<1>1. imports \in Seq([lines : Seq(Rows), state : ImportStates, sent : Nat])
  BY DEF ServiceInv, ServiceTypes
<1>2. ImportIds = 1..Len(imports) /\ Len(imports) \in Nat
  BY <1>1, LenProperties DEF ImportIds
<1>3. imports[i] \in [lines : Seq(Rows), state : ImportStates, sent : Nat]
  BY <1>1, <1>2, ElementOfSeq
<1>4. imports[i].lines \in Seq(Rows)
  BY <1>3
<1>5. DOMAIN imports[i].lines = 1..Len(imports[i].lines) /\ Len(imports[i].lines) \in Nat
      /\ \A k \in 1..Len(imports[i].lines) : imports[i].lines[k] \in Rows
  BY <1>4, LenProperties, ElementOfSeq
<1>6. \A k \in 1..Len(imports[i].lines) : imports[i].lines[k] # <<>>
  BY <1>5 DEF ServiceInv, LinesDiffer, Range
<1>7. \A r \in Rows : r # <<>> => Len(r) \in Nat \ {0}
  BY EmptySeq, LenProperties DEF Rows
<1>8. imports[i].sent \in 0..Len(imports[i].lines)
  BY DEF ServiceInv, ServiceTypeOK
<1>. QED  BY <1>2, <1>3, <1>4, <1>5, <1>6, <1>7, <1>8

\* What the two of them see.
LEMMA ViewFacts ==
    ASSUME ServiceInv
    PROVE  /\ aView \in Seq(Rows) /\ bView \in Seq(Rows)
           /\ IsInjective(aView) /\ IsInjective(bView)
           /\ Len(aView) \in Nat /\ DOMAIN aView = 1..Len(aView)
           /\ Len(bView) \in Nat /\ DOMAIN bView = 1..Len(bView)
           /\ \A r \in Range(aView) \cup Range(bView) :
                 r \in Rows /\ r # <<>> /\ Len(r) \in Nat \ {0} /\ Happened(r)
<1>1. /\ aView \in Seq(Rows) /\ bView \in Seq(Rows)
      /\ IsInjective(aView) /\ IsInjective(bView)
      /\ \A r \in Range(aView) \cup Range(bView) : r \in Rows /\ r # <<>>
  BY DEF ServiceInv, ServiceTypes, ServiceTypeOK, Rows
<1>2. \A r \in Rows : r # <<>> => Len(r) \in Nat \ {0}
  BY EmptySeq, LenProperties DEF Rows
<1>3. \A r \in Range(aView) \cup Range(bView) : Happened(r)
  BY DEF ServiceInv, ViewsHappened
<1>4. /\ Len(aView) \in Nat /\ DOMAIN aView = 1..Len(aView)
      /\ Len(bView) \in Nat /\ DOMAIN bView = 1..Len(bView)
  BY <1>1, LenProperties
<1>. QED  BY <1>1, <1>2, <1>3, <1>4

\* A row that an import brought is longer than one that somebody wrote.
LEMMA BroughtIsCopy ==
    ASSUME ServiceInv, NEW r, Brought(r)
    PROVE  r \in Rows /\ Len(r) \in Nat /\ Len(r) > 1 /\ Last(r) \in ImportIds
<1>a. PICK i \in ImportIds : \E k \in 1..imports[i].sent : r = Append(imports[i].lines[k], i)
  BY DEF Brought
<1>1. PICK k \in 1..imports[i].sent : r = Append(imports[i].lines[k], i)
  BY <1>a
<1>2. /\ i \in Nat /\ imports[i].lines[k] \in Rows /\ Len(imports[i].lines[k]) \in Nat \ {0}
  BY ImportFacts
<1>3. /\ Append(imports[i].lines[k], i) \in Rows
      /\ Len(Append(imports[i].lines[k], i)) = Len(imports[i].lines[k]) + 1
      /\ Last(Append(imports[i].lines[k], i)) = i
  BY <1>2, CopyOfRow
<1>. QED  BY <1>1, <1>2, <1>3

\* A chat before the first import, where nothing is missing.
LEMMA ServiceInvInit ==
    ASSUME NEW first, ServiceInit(first), first \in Seq(Rows), IsInjective(first),
           \A r \in Range(first) : Len(r) = 1 /\ r # <<>>,
           Range(first) = {<<m>> : m \in 1..Cardinality(Range(first))}
    PROVE  ServiceInv
<1>1. aView = first /\ bView = first /\ imports = <<>> /\ ImportIds = {} /\ Len(imports) = 0
  BY DEF ServiceInit, ImportIds
<1>2. \A r \in Range(first) : r \in Rows
  BY LenProperties DEF Range
<1>3. ServiceTypeOK
  BY <1>1, <1>2, ServiceAssumption DEF ServiceTypeOK, Rows
<1>4. ServiceTypes /\ LinesDiffer
  BY <1>1 DEF ServiceTypes, LinesDiffer
<1>5. Written(aView) = Range(first)
  BY <1>1 DEF Written
<1>6. ViewsHappened
  BY <1>1, <1>5 DEF ViewsHappened, Happened
<1>. QED  BY <1>3, <1>4, <1>6 DEF ServiceInv

\* What has happened goes on having happened while views and imports grow.
LEMMA HappenedStays ==
    ASSUME ServiceInv, Written(aView) \subseteq Written(aView)',
           ImportIds \subseteq ImportIds',
           \A i \in ImportIds : imports'[i].lines = imports[i].lines
                                /\ 1..imports[i].sent \subseteq 1..imports'[i].sent
    PROVE  \A r : Happened(r) => Happened(r)'
<1>1. \A r : Brought(r) => Brought(r)'
  <2>. SUFFICES ASSUME NEW r, Brought(r) PROVE Brought(r)'
    OBVIOUS
  <2>a. PICK i \in ImportIds : \E k \in 1..imports[i].sent : r = Append(imports[i].lines[k], i)
    BY DEF Brought
  <2>1. PICK k \in 1..imports[i].sent : r = Append(imports[i].lines[k], i)
    BY <2>a
  <2>2. i \in ImportIds' /\ k \in 1..imports'[i].sent /\ r = Append(imports'[i].lines[k], i)
    BY <2>1
  <2>. QED  BY <2>2 DEF Brought
<1>. QED  BY <1>1 DEF Happened

\* The next message of import i.
Arrival(i) == Append(imports[i].lines[imports[i].sent + 1], i)
Arrives(i) == /\ Arriving(i) # {}
              /\ imports' = [imports EXCEPT ![i].sent = @ + 1]
              /\ aView' = Append(aView, Arrival(i))
              /\ bView' = Append(bView, Arrival(i))

\* It is a row that nobody has seen before, and all the rest stays.
LEMMA ArrivalIsNew ==
    ASSUME ServiceInv, NEW i \in ImportIds, Arrives(i)
    PROVE  /\ imports[i].state = "started"
           /\ imports[i].sent + 1 \in 1..Len(imports[i].lines)
           /\ Arrival(i) \in Rows /\ Len(Arrival(i)) \in Nat /\ Len(Arrival(i)) > 1
           /\ Last(Arrival(i)) = i
           /\ ~Happened(Arrival(i))
           /\ aView' \in Seq(Rows) /\ bView' \in Seq(Rows)
           /\ Range(aView)' = Range(aView) \cup {Arrival(i)}
           /\ Range(bView)' = Range(bView) \cup {Arrival(i)}
           /\ Written(aView)' = Written(aView)
           /\ ImportIds' = ImportIds
           /\ \A j \in ImportIds : /\ imports'[j].lines = imports[j].lines
                                   /\ imports'[j].state = imports[j].state
                                   /\ imports'[j].sent = IF j = i THEN imports[j].sent + 1
                                                         ELSE imports[j].sent
           /\ \A r : Happened(r) \/ r = Arrival(i) => Happened(r)'
<1>. DEFINE next == imports[i].sent + 1
            line == imports[i].lines[next]
<1>1. imports[i].state = "started" /\ next \in 1..Len(imports[i].lines)
  <2>1. imports[i].sent \in Nat /\ Len(imports[i].lines) \in Nat
        /\ imports[i].sent <= Len(imports[i].lines)
    BY ImportFacts
  <2>2. PICK k \in (imports[i].sent + 1)..Len(imports[i].lines) : imports[i].state = "started"
    BY DEF Arrives, Arriving
  <2>. QED  BY <2>1, <2>2
<1>2. line \in Rows /\ line # <<>> /\ Len(line) \in Nat \ {0} /\ i \in Nat
  BY <1>1, ImportFacts
<1>3. Arrival(i) \in Rows /\ Len(Arrival(i)) \in Nat /\ Len(Arrival(i)) > 1 /\ Last(Arrival(i)) = i
  <2>1. /\ Append(line, i) \in Rows /\ Len(Append(line, i)) = Len(line) + 1
        /\ Last(Append(line, i)) = i
    BY <1>2, CopyOfRow
  <2>. QED  BY <1>2, <2>1 DEF Arrival
<1>4. ~Brought(Arrival(i))
  <2>. SUFFICES ASSUME Brought(Arrival(i)) PROVE FALSE
    OBVIOUS
  <2>1. PICK j \in ImportIds : \E k \in 1..imports[j].sent :
           Append(line, i) = Append(imports[j].lines[k], j)
    BY DEF Brought, Arrival
  <2>2. PICK k \in 1..imports[j].sent : Append(line, i) = Append(imports[j].lines[k], j)
    BY <2>1
  <2>3. imports[j].lines[k] \in Rows /\ j \in Nat
    BY ImportFacts
  <2>4. j = i /\ imports[i].lines[k] = line
    <3>1. \A q, r \in Rows : \A a, b \in Nat : Append(q, a) = Append(r, b) => q = r /\ a = b
      BY CopiesDiffer
    <3>2. line = imports[j].lines[k] /\ i = j
      <4>. DEFINE other == imports[j].lines[k]
      <4>1. line \in Rows /\ i \in Nat /\ other \in Rows /\ j \in Nat
            /\ Append(line, i) = Append(other, j)
        BY <1>2, <2>2, <2>3
      <4>. HIDE DEF line, other
      <4>2. line = other /\ i = j
        BY <4>1, <3>1
      <4>. QED  BY <4>2 DEF other
    <3>. QED  BY <3>2
  <2>5. k \in 1..imports[i].sent /\ imports[i].sent \in Nat
        /\ DOMAIN imports[i].lines = 1..Len(imports[i].lines)
    BY <2>4, ImportFacts
  <2>6. k # next /\ k \in DOMAIN imports[i].lines /\ next \in DOMAIN imports[i].lines
    BY <1>1, <2>5
  <2>. QED  BY <2>4, <2>6 DEF ServiceInv, LinesDiffer, IsInjective
<1>5. ~Happened(Arrival(i))
  BY <1>3, <1>4 DEF Happened, Written
<1>6. /\ aView' \in Seq(Rows) /\ Range(aView') = Range(aView) \cup {Arrival(i)}
      /\ bView' \in Seq(Rows) /\ Range(bView') = Range(bView) \cup {Arrival(i)}
  BY <1>3, ViewFacts, AppendedTo DEF Arrives
<1>7. Written(aView)' = Written(aView)
  <2>1. Len(Arrival(i)) # 1
    <3>1. \A n \in Nat : n > 1 => n # 1
      OBVIOUS
    <3>. QED  BY <1>3, <3>1
  <2>2. {r \in Range(aView) \cup {Arrival(i)} : Len(r) = 1} = {r \in Range(aView) : Len(r) = 1}
    BY <2>1
  <2>. QED  BY <1>6, <2>2 DEF Written
<1>8. /\ ImportIds' = ImportIds
      /\ \A j \in ImportIds : /\ imports'[j].lines = imports[j].lines
                              /\ imports'[j].state = imports[j].state
                              /\ imports'[j].sent = IF j = i THEN imports[j].sent + 1
                                                    ELSE imports[j].sent
  <2>1. imports[i] \in [lines : Seq(Rows), state : ImportStates, sent : Nat]
    BY ImportFacts
  <2>. QED  BY <2>1 DEF Arrives, ImportIds
<1>9. \A r : Happened(r) => Happened(r)'
  <2>1. \A j \in ImportIds : imports[j].sent \in Nat
    BY ImportFacts
  <2>2. \A j \in ImportIds : 1..imports[j].sent \subseteq 1..imports'[j].sent
    BY <1>8, <2>1
  <2>. QED  BY <1>7, <1>8, <2>2, HappenedStays
<1>10. \A r : r = Arrival(i) => Happened(r)'
  <2>. SUFFICES ASSUME NEW r, r = Arrival(i) PROVE Happened(r)'
    OBVIOUS
  <2>1. /\ i \in ImportIds' /\ imports'[i].sent = imports[i].sent + 1
        /\ imports'[i].lines = imports[i].lines
    BY <1>8
  <2>3. imports[i].sent \in Nat
    BY ImportFacts
  <2>4. next \in 1..imports'[i].sent
    BY <2>1, <2>3
  <2>5. r = Append(imports'[i].lines[next], i)
    BY <2>1 DEF Arrival
  <2>2. Brought(r)'
    BY <2>1, <2>4, <2>5 DEF Brought
  <2>. QED  BY <2>2 DEF Happened
<1>. QED  BY <1>1, <1>3, <1>5, <1>6, <1>7, <1>8, <1>9, <1>10

LEMMA ArrivalKeeps ==
    ASSUME ServiceInv, NEW i \in ImportIds, Arrives(i)
    PROVE  ServiceInv'
<1>. DEFINE copy == Arrival(i)
<1>1. /\ copy \in Rows /\ Len(copy) > 1 /\ copy # <<>>
      /\ copy \notin Range(aView) /\ copy \notin Range(bView)
  BY ArrivalIsNew, ViewFacts, EmptySeq
<1>2. IsInjective(aView') /\ IsInjective(bView')
  BY <1>1, ViewFacts, AppendedTo DEF Arrives
<1>3. /\ aView' \in Seq(Rows) /\ Range(aView') = Range(aView) \cup {copy}
      /\ bView' \in Seq(Rows) /\ Range(bView') = Range(bView) \cup {copy}
      /\ Written(aView)' = Written(aView)
      /\ ImportIds' = ImportIds
      /\ \A j \in ImportIds : /\ imports'[j].lines = imports[j].lines
                              /\ imports'[j].state = imports[j].state
                              /\ imports'[j].sent = IF j = i THEN imports[j].sent + 1
                                                    ELSE imports[j].sent
      /\ \A r : Happened(r) \/ r = copy => Happened(r)'
      /\ imports[i].sent + 1 \in 1..Len(imports[i].lines)
  BY ArrivalIsNew
<1>4. imports' \in Seq([lines : Seq(Rows), state : ImportStates, sent : Nat])
      /\ Len(imports') = Len(imports)
  <2>. DEFINE R == [lines : Seq(Rows), state : ImportStates, sent : Nat]
  <2>1. imports \in Seq(R) /\ imports[i] \in R /\ ImportIds = 1..Len(imports)
    BY ImportFacts DEF ServiceInv, ServiceTypes
  <2>4. imports[i].sent + 1 \in Nat
    BY ImportFacts
  <2>2. [imports[i] EXCEPT !.sent = @ + 1] \in R
    BY <2>1, <2>4
  <2>3. imports' = [imports EXCEPT ![i] = [imports[i] EXCEPT !.sent = @ + 1]]
    BY DEF Arrives
  <2>. QED  BY <2>1, <2>2, <2>3, ExceptSeq
<1>5. ServiceTypeOK'
  <2>1. \A r \in Range(aView') \cup Range(bView') : r \in Rows /\ r # <<>>
    BY <1>1, <1>3, ViewFacts
  <2>2. Len(imports') <= MaxImports
    BY <1>4 DEF ServiceInv, ServiceTypeOK
  <2>3. \A j \in ImportIds : imports[j].state \in ImportStates
                             /\ imports[j].sent \in 0..Len(imports[j].lines)
                             /\ Len(imports[j].lines) \in Nat
    BY ImportFacts
  <2>4. \A j \in ImportIds' : imports'[j].state \in ImportStates
                              /\ imports'[j].sent \in 0..Len(imports'[j].lines)
    <3>. SUFFICES ASSUME NEW j \in ImportIds
                  PROVE  /\ imports'[j].state \in ImportStates
                         /\ imports'[j].sent \in 0..Len(imports'[j].lines)
      BY <1>3
    <3>1. imports'[j].lines = imports[j].lines /\ imports'[j].state = imports[j].state
      BY <1>3
    <3>2. CASE j = i
      <4>1. imports'[j].sent = imports[i].sent + 1
        BY <1>3, <3>2
      <4>2. imports[i].sent + 1 \in 0..Len(imports[i].lines)
        BY <1>3
      <4>. QED  BY <2>3, <3>1, <3>2, <4>1, <4>2
    <3>3. CASE j # i
      <4>1. imports'[j].sent = imports[j].sent
        BY <1>3, <3>3
      <4>. QED  BY <2>3, <3>1, <4>1
    <3>. QED  BY <3>2, <3>3
  <2>. QED  BY <1>2, <2>1, <2>2, <2>4 DEF ServiceTypeOK, Rows, ImportStates
<1>6. LinesDiffer'
  BY <1>3 DEF ServiceInv, LinesDiffer
<1>7. ViewsHappened'
  <2>1. \A r \in Range(aView') : Happened(r)'
    BY <1>3, ViewFacts
  <2>. QED  BY <1>3, <2>1 DEF ServiceInv, ViewsHappened
<1>. QED  BY <1>3, <1>4, <1>5, <1>6, <1>7 DEF ServiceInv, ServiceTypes

\* The chat and its imports are as they were.
LEMMA SameChat ==
    ASSUME ServiceInv, aView' = aView, bView' = bView, imports' = imports
    PROVE  ServiceInv' /\ ImportIds' = ImportIds /\ \A r : Happened(r)' = Happened(r)
<1>1. ImportIds' = ImportIds /\ Written(aView)' = Written(aView)
  BY DEF ImportIds, Written
<1>2. \A r : Brought(r)' = Brought(r)
  BY <1>1 DEF Brought
<1>3. \A r : Happened(r)' = Happened(r)
  BY <1>1, <1>2 DEF Happened
<1>4. ServiceTypeOK'
  BY <1>1 DEF ServiceInv, ServiceTypeOK
<1>5. ServiceTypes' /\ LinesDiffer'
  BY <1>1 DEF ServiceInv, ServiceTypes, LinesDiffer
<1>6. ViewsHappened'
  BY <1>1, <1>3 DEF ServiceInv, ViewsHappened
<1>. QED  BY <1>1, <1>3, <1>4, <1>5, <1>6 DEF ServiceInv

\* The state of an import changes, and nothing of its lines.
LEMMA StateChanges ==
    ASSUME ServiceInv, NEW i \in ImportIds, NEW st \in ImportStates,
           imports' = [imports EXCEPT ![i].state = st]
    PROVE  /\ imports' \in Seq([lines : Seq(Rows), state : ImportStates, sent : Nat])
           /\ Len(imports') = Len(imports) /\ ImportIds' = ImportIds
           /\ \A j \in ImportIds : /\ imports'[j].lines = imports[j].lines
                                   /\ imports'[j].sent = imports[j].sent
                                   /\ imports'[j].state = IF j = i THEN st ELSE imports[j].state
           /\ \A r : Brought(r) => Brought(r)'
           /\ LinesDiffer'
<1>. DEFINE R == [lines : Seq(Rows), state : ImportStates, sent : Nat]
<1>1. imports \in Seq(R) /\ imports[i] \in R /\ ImportIds = 1..Len(imports)
  BY ImportFacts DEF ServiceInv, ServiceTypes
<1>2. [imports[i] EXCEPT !.state = st] \in R
  BY <1>1
<1>3. imports' = [imports EXCEPT ![i] = [imports[i] EXCEPT !.state = st]]
  OBVIOUS
<1>4. imports' \in Seq(R) /\ Len(imports') = Len(imports)
  BY <1>1, <1>2, <1>3, ExceptSeq
<1>5. /\ ImportIds' = ImportIds
      /\ \A j \in ImportIds : /\ imports'[j].lines = imports[j].lines
                              /\ imports'[j].sent = imports[j].sent
                              /\ imports'[j].state = IF j = i THEN st ELSE imports[j].state
  BY <1>1 DEF ImportIds
<1>6. \A r : Brought(r) => Brought(r)'
  BY <1>5 DEF Brought
<1>7. LinesDiffer'
  BY <1>5 DEF ServiceInv, LinesDiffer
<1>. QED  BY <1>4, <1>5, <1>6, <1>7

\* Import i is taken back.
KeptOf(view, i) == {k \in DOMAIN view : Len(view[k]) = 1 \/ Last(view[k]) # i}
Reverts(i) == /\ imports[i].state = "started"
              /\ imports' = [imports EXCEPT ![i].state = "reverted"]
              /\ aView' = ElementsAt(aView, KeptOf(aView, i))
              /\ bView' = ElementsAt(bView, KeptOf(bView, i))

LEMMA RevertingKeeps ==
    ASSUME ServiceInv, NEW i \in ImportIds, Reverts(i)
    PROVE  /\ ServiceInv'
           /\ Range(aView') = {r \in Range(aView) : Len(r) = 1 \/ Last(r) # i}
           /\ Range(bView') = {r \in Range(bView) : Len(r) = 1 \/ Last(r) # i}
           /\ ImportIds' = ImportIds /\ Len(imports') = Len(imports)
           /\ \A j \in ImportIds : /\ imports'[j].lines = imports[j].lines
                                   /\ imports'[j].sent = imports[j].sent
                                   /\ imports'[j].state = IF j = i THEN "reverted" ELSE imports[j].state
           /\ Written(aView)' = Written(aView)
           /\ \A r : Happened(r) => Happened(r)'
<1>0. "reverted" \in ImportStates
  BY DEF ImportStates
<1>1. /\ imports' \in Seq([lines : Seq(Rows), state : ImportStates, sent : Nat])
      /\ Len(imports') = Len(imports) /\ ImportIds' = ImportIds
      /\ \A j \in ImportIds : /\ imports'[j].lines = imports[j].lines
                              /\ imports'[j].sent = imports[j].sent
                              /\ imports'[j].state = IF j = i THEN "reverted" ELSE imports[j].state
      /\ \A r : Brought(r) => Brought(r)'
      /\ LinesDiffer'
  BY <1>0, StateChanges DEF Reverts
<1>2. \A view \in Seq(Rows) :
         /\ ElementsAt(view, KeptOf(view, i)) \in Seq(Rows)
         /\ Range(ElementsAt(view, KeptOf(view, i))) = {r \in Range(view) : Len(r) = 1 \/ Last(r) # i}
         /\ IsInjective(view) => IsInjective(ElementsAt(view, KeptOf(view, i)))
  <2>. SUFFICES ASSUME NEW view \in Seq(Rows)
                PROVE  /\ ElementsAt(view, KeptOf(view, i)) \in Seq(Rows)
                       /\ Range(ElementsAt(view, KeptOf(view, i)))
                             = {r \in Range(view) : Len(r) = 1 \/ Last(r) # i}
                       /\ IsInjective(view) => IsInjective(ElementsAt(view, KeptOf(view, i)))
    OBVIOUS
  <2>1. KeptOf(view, i) \subseteq DOMAIN view
    BY DEF KeptOf
  <2>2. /\ ElementsAt(view, KeptOf(view, i)) \in Seq(Rows)
        /\ Range(ElementsAt(view, KeptOf(view, i))) = {view[k] : k \in KeptOf(view, i)}
        /\ IsInjective(view) => IsInjective(ElementsAt(view, KeptOf(view, i)))
    BY <2>1, PartOfSequence
  <2>3. {view[k] : k \in KeptOf(view, i)} = {r \in Range(view) : Len(r) = 1 \/ Last(r) # i}
    BY DEF KeptOf, Range
  <2>. QED  BY <2>2, <2>3
<1>3. /\ aView' \in Seq(Rows) /\ IsInjective(aView')
      /\ Range(aView') = {r \in Range(aView) : Len(r) = 1 \/ Last(r) # i}
      /\ bView' \in Seq(Rows) /\ IsInjective(bView')
      /\ Range(bView') = {r \in Range(bView) : Len(r) = 1 \/ Last(r) # i}
  BY <1>2, ViewFacts DEF Reverts
<1>4. Written(aView)' = Written(aView)
  BY <1>3 DEF Written
<1>5. \A r : Happened(r) => Happened(r)'
  BY <1>1, <1>4 DEF Happened
<1>6. ServiceTypeOK'
  <2>1. \A r \in Range(aView') \cup Range(bView') : r \in Rows /\ r # <<>>
    BY <1>3, ViewFacts
  <2>2. Len(imports') <= MaxImports
    BY <1>1 DEF ServiceInv, ServiceTypeOK
  <2>3. \A j \in ImportIds' : imports'[j].state \in ImportStates
                              /\ imports'[j].sent \in 0..Len(imports'[j].lines)
    BY <1>0, <1>1 DEF ServiceInv, ServiceTypeOK, ImportStates
  <2>. QED  BY <1>3, <2>1, <2>2, <2>3 DEF ServiceTypeOK, Rows, ImportStates
<1>7. ViewsHappened'
  <2>1. \A r \in Range(aView') : Happened(r)'
    BY <1>3, <1>5, ViewFacts
  <2>. QED  BY <1>3, <1>4, <2>1 DEF ServiceInv, ViewsHappened
<1>. QED  BY <1>1, <1>3, <1>4, <1>5, <1>6, <1>7 DEF ServiceInv, ServiceTypes

\* An import that is open is started.
LEMMA StartingKeeps ==
    ASSUME ServiceInv, NEW i \in ImportIds, imports' = Started(i), UNCHANGED <<aView, bView>>
    PROVE  /\ ServiceInv'
           /\ ImportIds' = ImportIds /\ Len(imports') = Len(imports)
           /\ \A j \in ImportIds : /\ imports'[j].lines = imports[j].lines
                                   /\ imports'[j].sent = imports[j].sent
                                   /\ imports'[j].state = IF j = i THEN "started" ELSE imports[j].state
           /\ \A r : Happened(r) => Happened(r)'
<1>0. "started" \in ImportStates
  BY DEF ImportStates
<1>1. /\ imports' \in Seq([lines : Seq(Rows), state : ImportStates, sent : Nat])
      /\ Len(imports') = Len(imports) /\ ImportIds' = ImportIds
      /\ \A j \in ImportIds : /\ imports'[j].lines = imports[j].lines
                              /\ imports'[j].sent = imports[j].sent
                              /\ imports'[j].state = IF j = i THEN "started" ELSE imports[j].state
      /\ \A r : Brought(r) => Brought(r)'
      /\ LinesDiffer'
  BY <1>0, StateChanges DEF Started
<1>5. \A r : Happened(r) => Happened(r)'
  BY <1>1 DEF Happened, Written
<1>6. ServiceTypeOK'
  <2>2. Len(imports') <= MaxImports
    BY <1>1 DEF ServiceInv, ServiceTypeOK
  <2>3. \A j \in ImportIds' : imports'[j].state \in ImportStates
                              /\ imports'[j].sent \in 0..Len(imports'[j].lines)
    BY <1>0, <1>1 DEF ServiceInv, ServiceTypeOK, ImportStates
  <2>. QED  BY <2>2, <2>3 DEF ServiceInv, ServiceTypeOK, ImportStates
<1>7. ViewsHappened'
  <2>1. \A r \in Range(aView') : Happened(r)'
    BY <1>5, ViewFacts
  <2>. QED  BY <2>1 DEF ServiceInv, ViewsHappened, Written
<1>. QED  BY <1>1, <1>5, <1>6, <1>7 DEF ServiceInv, ServiceTypes

\* An import is opened with lines that are different messages.
LEMMA OpeningKeeps ==
    ASSUME ServiceInv, NEW lines \in Seq(Rows), IsInjective(lines), <<>> \notin Range(lines),
           Len(imports) < MaxImports, imports' = Opened(lines), UNCHANGED <<aView, bView>>
    PROVE  /\ ServiceInv'
           /\ Len(imports') = Len(imports) + 1
           /\ ImportIds' = ImportIds \cup {Len(imports) + 1} /\ Len(imports) + 1 \notin ImportIds
           /\ \A j \in ImportIds : imports'[j] = imports[j]
           /\ imports'[Len(imports) + 1] = [lines |-> lines, state |-> "open", sent |-> 0]
           /\ \A r : Happened(r) => Happened(r)'
<1>. DEFINE R == [lines : Seq(Rows), state : ImportStates, sent : Nat]
            new == [lines |-> lines, state |-> "open", sent |-> 0]
            n == Len(imports)
<1>1. imports \in Seq(R) /\ n \in Nat /\ ImportIds = 1..n
  BY LenProperties DEF ServiceInv, ServiceTypes, ImportIds
<1>2. new \in R
  BY DEF ImportStates
<1>3. imports' = Append(imports, new)
  BY DEF Opened
<1>. HIDE DEF new
<1>4. /\ imports' \in Seq(R) /\ Len(imports') = n + 1
      /\ \A j \in 1..n : imports'[j] = imports[j]
      /\ imports'[n + 1] = new
  <2>. HIDE DEF R
  <2>. QED  BY <1>1, <1>2, <1>3, AppendedTo
<1>5. ImportIds' = ImportIds \cup {n + 1} /\ n + 1 \notin ImportIds
  <2>1. DOMAIN imports' = 1..(n + 1)
    BY <1>4, LenProperties
  <2>. QED  BY <1>1, <2>1 DEF ImportIds
<1>6. \A r : Happened(r) => Happened(r)'
  <2>1. \A r : Brought(r) => Brought(r)'
    BY <1>1, <1>4, <1>5 DEF Brought
  <2>. QED  BY <2>1 DEF Happened, Written
<1>7. \A j \in ImportIds' : \/ j \in ImportIds /\ imports'[j] = imports[j]
                            \/ j = n + 1 /\ imports'[j] = new
  BY <1>1, <1>4, <1>5
<1>8. ServiceTypeOK'
  <2>1. \A j \in ImportIds' : imports'[j].state \in ImportStates
                              /\ imports'[j].sent \in 0..Len(imports'[j].lines)
    <3>1. new.state \in ImportStates /\ new.sent \in 0..Len(new.lines)
      BY LenProperties DEF new, ImportStates
    <3>2. \A j \in ImportIds : imports[j].state \in ImportStates
                               /\ imports[j].sent \in 0..Len(imports[j].lines)
      BY DEF ServiceInv, ServiceTypeOK, ImportStates
    <3>. QED  BY <1>7, <3>1, <3>2
  <2>2. Len(imports') <= MaxImports
    BY <1>1, <1>4, ServiceAssumption
  <2>. QED  BY <2>1, <2>2 DEF ServiceInv, ServiceTypeOK, ImportStates
<1>9. LinesDiffer'
  <2>1. new.lines = lines
    BY DEF new
  <2>. QED  BY <1>7, <2>1 DEF ServiceInv, LinesDiffer
<1>10. ViewsHappened'
  <2>1. \A r \in Range(aView') : Happened(r)'
    BY <1>6, ViewFacts
  <2>. QED  BY <2>1 DEF ServiceInv, ViewsHappened, Written
<1>11. ServiceTypes'
  BY <1>4 DEF ServiceInv, ServiceTypes
<1>12. imports'[n + 1] = [lines |-> lines, state |-> "open", sent |-> 0]
  BY <1>4 DEF new
<1>. HIDE DEF R
<1>. QED  BY <1>1, <1>4, <1>5, <1>6, <1>8, <1>9, <1>10, <1>11, <1>12 DEF ServiceInv

\* The view of B is emptied.
LEMMA ClearingKeeps ==
    ASSUME ServiceInv, bView' = <<>>, UNCHANGED <<aView, imports>>
    PROVE  ServiceInv' /\ \A r : Happened(r) => Happened(r)'
<1>1. bView' \in Seq(Rows) /\ IsInjective(bView') /\ Range(bView') = {}
  BY DEF IsInjective, Range
<1>2. \A r : Happened(r) => Happened(r)'
  BY DEF Happened, Brought, Written, ImportIds
<1>3. \A r \in Range(aView') : Happened(r)'
  BY <1>2, ViewFacts
<1>4. ServiceTypeOK'
  BY <1>1 DEF ServiceInv, ServiceTypeOK, ImportIds
<1>. QED  BY <1>1, <1>2, <1>3, <1>4 DEF ServiceInv, ServiceTypes, LinesDiffer, ViewsHappened,
                                      Written, ImportIds

\* Somebody writes: a message that is new, with the next number.
LEMMA WritingKeeps ==
    ASSUME ServiceInv, MessageWritten
    PROVE  /\ ServiceInv'
           /\ \E m \in Nat : /\ <<m>> \notin Range(aView) /\ Len(<<m>>) = 1
                             /\ Range(aView') = Range(aView) \cup {<<m>>}
                             /\ Range(bView') = Range(bView) \cup {<<m>>}
           /\ \A r : Happened(r) => Happened(r)'
<1>. DEFINE n == Cardinality(Written(aView))
            row == <<n + 1>>
<1>1. IsFiniteSet(Written(aView)) /\ n \in Nat
  <2>1. IsFiniteSet(1..Len(aView))
    BY ViewFacts, FS_Interval
  <2>2. aView \in Surjection(1..Len(aView), Range(aView))
    BY ViewFacts DEF Surjection, Range
  <2>3. IsFiniteSet(Range(aView)) /\ Written(aView) \subseteq Range(aView)
    BY <2>1, <2>2, FS_Surjection DEF Written
  <2>. QED  BY <2>3, FS_Subset, FS_CardinalityType
<1>2. row \in Rows /\ row # <<>> /\ Len(row) = 1 /\ n + 1 \in Nat
  BY <1>1 DEF Rows
<1>3. Written(aView) = {<<m>> : m \in 1..n}
  BY DEF ServiceInv, ViewsHappened
<1>4. row \notin Range(aView) /\ row \notin Range(bView) /\ row \notin Written(aView)
  <2>1. row \notin {<<m>> : m \in 1..n}
    BY <1>1
  <2>2. row \notin Range(aView)
    BY <1>2, <1>3, <2>1 DEF Written
  <2>. QED  BY <1>3, <2>1, <2>2 DEF ServiceInv, ViewsHappened
<1>5. aView' = Append(aView, row) /\ bView' = Append(bView, row) /\ imports' = imports
  BY DEF MessageWritten
<1>6. /\ aView' \in Seq(Rows) /\ Range(aView') = Range(aView) \cup {row} /\ IsInjective(aView')
      /\ bView' \in Seq(Rows) /\ Range(bView') = Range(bView) \cup {row} /\ IsInjective(bView')
  <2>. HIDE DEF row
  <2>. QED  BY <1>2, <1>4, <1>5, ViewFacts, AppendedTo
<1>7. /\ Written(aView)' = Written(aView) \cup {row}
      /\ Cardinality(Written(aView)') = n + 1
  <2>1. Written(aView)' = Written(aView) \cup {row}
    <3>. HIDE DEF row
    <3>. QED  BY <1>2, <1>6 DEF Written
  <2>2. Cardinality(Written(aView) \cup {row}) = n + 1
    BY <1>1, <1>4, FS_AddElement
  <2>. QED  BY <2>1, <2>2
<1>8. Written(aView)' = {<<m>> : m \in 1..Cardinality(Written(aView)')}
  <2>1. \A m \in 1..(n + 1) : m \in 1..n \/ m = n + 1
    BY <1>1
  <2>2. 1..n \subseteq 1..(n + 1) /\ n + 1 \in 1..(n + 1)
    BY <1>1
  <2>. QED  BY <1>3, <1>7, <2>1, <2>2
<1>9. \A r : Brought(r) => Brought(r)'
  BY <1>5 DEF Brought, ImportIds
<1>10. /\ \A r : Happened(r) => Happened(r)'
       /\ \A r : r = row => Happened(r)'
  BY <1>7, <1>9 DEF Happened
<1>11. ServiceTypeOK'
  <2>1. \A r \in Range(aView') \cup Range(bView') : r \in Rows /\ r # <<>>
    BY <1>2, <1>6, ViewFacts
  <2>. QED  BY <1>5, <1>6, <2>1 DEF ServiceInv, ServiceTypeOK, ImportIds, Rows
<1>12. ViewsHappened'
  <2>1. \A r \in Range(aView') : Happened(r)'
    BY <1>6, <1>10, ViewFacts
  <2>2. Range(bView') \subseteq Range(aView')
    BY <1>6 DEF ServiceInv, ViewsHappened
  <2>. QED  BY <1>8, <2>1, <2>2 DEF ViewsHappened
<1>13. LinesDiffer' /\ ServiceTypes'
  BY <1>5, <1>6 DEF ServiceInv, LinesDiffer, ServiceTypes, ImportIds
<1>. QED  BY <1>2, <1>4, <1>6, <1>10, <1>11, <1>12, <1>13 DEF ServiceInv

-----------------------------------------------------------------------------
(* The full test. *)

LEMMA RunFacts ==
    ASSUME RecoveryInv
    PROVE  /\ ServiceInv
           /\ run.archive \in Seq(Rows) /\ IsInjective(run.archive)
           /\ run.lines \in Seq(Rows) /\ run.whole \in BOOLEAN /\ run.late \in BOOLEAN
           /\ run.cap \in Nat /\ run.here \in BOOLEAN
           /\ run.rest \subseteq Rows /\ run.lost \subseteq Rows /\ run.saw \subseteq Rows
           /\ run.before \subseteq Rows /\ run.after \subseteq Rows /\ run.delta \subseteq Rows
           /\ run.import \in Nat /\ run.step \in RunSteps
  BY DEF RecoveryInv, RecoveryTypeOK, Runs

\* Only what has just been put into the chat is in A's view and had not
\* happened.
LEMMA OthersChange ==
    ASSUME RecoveryInv, ServiceInv', UNCHANGED runVars,
           \A r : Happened(r) => Happened(r)',
           \A r \in Range(aView') : Happened(r) => r \in Range(aView),
           ImportIds' = ImportIds
    PROVE  RecoveryTypeOK' /\ run' \in Runs /\ RunReads' /\ ExportCovers' /\ DeltaHonest'
<1>1. run' = run /\ runs' = runs
  BY DEF runVars
<1>2. RecoveryTypeOK' /\ run' \in Runs
  BY <1>1 DEF RecoveryInv, RecoveryTypeOK, ServiceInv
<1>3. RunReads' /\ DeltaHonest'
  BY <1>1 DEF RecoveryInv, RunReads, Restoring, DeltaHonest
<1>4. run.saw \cap Range(aView') \subseteq Range(aView)
  BY DEF RecoveryInv, RunReads
<1>5. ExportCovers'
  BY <1>1, <1>4 DEF RecoveryInv, ExportCovers, Restoring
<1>. QED  BY <1>2, <1>3, <1>5

LEMMA ArrivalPreserves ==
    ASSUME RecoveryInv, NEW i \in ImportIds, Arrives(i), UNCHANGED runVars
    PROVE  RecoveryInv'
<1>. DEFINE copy == Arrival(i)
<1>0. ServiceInv /\ run' = run
  BY RunFacts DEF runVars
<1>1. /\ imports[i].state = "started"
      /\ imports[i].sent + 1 \in 1..Len(imports[i].lines)
      /\ copy \in Rows /\ Len(copy) \in Nat /\ Len(copy) > 1 /\ Last(copy) = i
      /\ ~Happened(copy)
      /\ Range(aView') = Range(aView) \cup {copy}
      /\ Range(bView') = Range(bView) \cup {copy}
      /\ ImportIds' = ImportIds
      /\ \A j \in ImportIds : /\ imports'[j].lines = imports[j].lines
                              /\ imports'[j].state = imports[j].state
                              /\ imports'[j].sent = IF j = i THEN imports[j].sent + 1
                                                    ELSE imports[j].sent
      /\ \A r : Happened(r) \/ r = copy => Happened(r)'
  BY <1>0, ArrivalIsNew
<1>2. ServiceInv'
  BY <1>0, ArrivalKeeps
<1>. HIDE DEF copy
<1>3. RecoveryTypeOK' /\ run' \in Runs /\ RunReads' /\ ExportCovers' /\ DeltaHonest'
  BY <1>1, <1>2, OthersChange
<1>4. OwnImport'
  <2>1. run.step = "start" => run.import # i
    BY <1>1 DEF RecoveryInv, OwnImport
  <2>2. ASSUME Restoring, imports'[run.import].state = "started",
               NEW k \in 1..imports'[run.import].sent
        PROVE  Append(imports'[run.import].lines[k], run.import) \in Range(bView')
    <3>0. /\ run.import \in ImportIds
          /\ imports'[run.import].lines = imports[run.import].lines
      BY <1>1, <2>2 DEF RecoveryInv, OwnImport
    <3>1. CASE k \in 1..imports[run.import].sent
      BY <1>1, <2>2, <3>0, <3>1 DEF RecoveryInv, OwnImport
    <3>2. CASE k \notin 1..imports[run.import].sent
      <4>1. imports[run.import].sent \in Nat
        BY <1>0, <3>0, ImportFacts
      <4>2. run.import = i /\ k = imports[i].sent + 1
        BY <1>1, <2>2, <3>0, <3>2, <4>1
      <4>3. Append(imports'[run.import].lines[k], run.import) = copy
        BY <3>0, <4>2 DEF copy, Arrival
      <4>. QED  BY <1>1, <4>3
    <3>. QED  BY <3>1, <3>2
  <2>. QED  BY <1>0, <1>1, <2>1, <2>2 DEF RecoveryInv, OwnImport, Restoring
<1>5. TargetQuiet'
  <2>. SUFFICES ASSUME ~run.late PROVE TargetQuiet'
    BY <1>0 DEF TargetQuiet
  <2>1. Arriving(i) # {}
    BY DEF Arrives
  <2>2. run.step \notin {"still", "check", "init", "start"}
    BY <2>1 DEF RecoveryInv, TargetQuiet, StillArriving
  <2>3. Restoring => run.import = i
    BY <2>1 DEF RecoveryInv, TargetQuiet
  <2>4. \A j \in ImportIds \ {i} : Arriving(j) = {} => Arriving(j)' = {}
    <3>1. \A j \in ImportIds \ {i} : /\ imports'[j].lines = imports[j].lines
                                     /\ imports'[j].state = imports[j].state
                                     /\ imports'[j].sent = imports[j].sent
      BY <1>1
    <3>. QED  BY <3>1 DEF Arriving
  <2>5. Imported(bView)' = Imported(bView) \cup {copy}
    BY <1>1 DEF Imported
  <2>. QED  BY <1>0, <1>1, <2>2, <2>3, <2>4, <2>5 DEF RecoveryInv, TargetQuiet, Restoring
<1>. QED  BY <1>2, <1>3, <1>4, <1>5 DEF RecoveryInv

LEMMA RevertingPreserves ==
    ASSUME RecoveryInv, NEW i \in ImportIds, Reverts(i), UNCHANGED runVars
    PROVE  RecoveryInv'
<1>0. ServiceInv /\ run' = run
  BY RunFacts DEF runVars
<1>1. /\ ServiceInv'
      /\ Range(aView') = {r \in Range(aView) : Len(r) = 1 \/ Last(r) # i}
      /\ Range(bView') = {r \in Range(bView) : Len(r) = 1 \/ Last(r) # i}
      /\ ImportIds' = ImportIds
      /\ \A j \in ImportIds : /\ imports'[j].lines = imports[j].lines
                              /\ imports'[j].sent = imports[j].sent
                              /\ imports'[j].state = IF j = i THEN "reverted" ELSE imports[j].state
      /\ \A r : Happened(r) => Happened(r)'
  BY <1>0, RevertingKeeps
<1>3. RecoveryTypeOK' /\ run' \in Runs /\ RunReads' /\ ExportCovers' /\ DeltaHonest'
  BY <1>1, OthersChange
<1>4. OwnImport'
  <2>1. run.step = "start" => run.import # i
    BY DEF RecoveryInv, OwnImport, Reverts
  <2>2. ASSUME Restoring, imports'[run.import].state = "started",
               NEW k \in 1..imports'[run.import].sent
        PROVE  Append(imports'[run.import].lines[k], run.import) \in Range(bView')
    <3>0. /\ run.import \in ImportIds
          /\ imports'[run.import].lines = imports[run.import].lines
      BY <1>1, <2>2 DEF RecoveryInv, OwnImport
    <3>1. run.import # i /\ imports[run.import].state = "started"
          /\ k \in 1..imports[run.import].sent
      BY <1>1, <2>2, <3>0
    <3>2. Append(imports[run.import].lines[k], run.import) \in Range(bView)
      BY <2>2, <3>1 DEF RecoveryInv, OwnImport
    <3>3. imports[run.import].lines[k] \in Rows /\ run.import \in Nat
      <4>1. /\ imports[run.import].sent \in 0..Len(imports[run.import].lines)
            /\ Len(imports[run.import].lines) \in Nat
            /\ \A n \in 1..Len(imports[run.import].lines) : imports[run.import].lines[n] \in Rows
        BY <1>0, <3>0, ImportFacts
      <4>. QED  BY <3>0, <3>1, <4>1, RunFacts
    <3>4. Last(Append(imports[run.import].lines[k], run.import)) = run.import
      BY <3>3, CopyOfRow
    <3>. QED  BY <1>1, <3>0, <3>1, <3>2, <3>4
  <2>. QED  BY <1>0, <1>1, <2>1, <2>2 DEF RecoveryInv, OwnImport, Restoring
<1>5. TargetQuiet'
  <2>1. Imported(bView)' \subseteq Imported(bView)
    BY <1>1 DEF Imported
  <2>2. \A j \in ImportIds : Arriving(j) = {} => Arriving(j)' = {}
    BY <1>1 DEF Arriving
  <2>. QED  BY <1>0, <1>1, <2>1, <2>2 DEF RecoveryInv, TargetQuiet, StillArriving, Restoring
<1>. QED  BY <1>1, <1>3, <1>4, <1>5 DEF RecoveryInv

LEMMA WritingPreserves ==
    ASSUME RecoveryInv, MessageWritten, UNCHANGED runVars
    PROVE  RecoveryInv'
<1>0. ServiceInv /\ run' = run /\ imports' = imports
  BY RunFacts DEF runVars, MessageWritten
<1>1. ServiceInv' /\ \A r : Happened(r) => Happened(r)'
  BY <1>0, WritingKeeps
<1>2. PICK m \in Nat : /\ <<m>> \notin Range(aView) /\ Len(<<m>>) = 1
                       /\ Range(aView') = Range(aView) \cup {<<m>>}
                       /\ Range(bView') = Range(bView) \cup {<<m>>}
  BY <1>0, WritingKeeps
<1>. DEFINE row == <<m>>
<1>3. ~Happened(row)
  <2>1. ~Brought(row)
    <3>1. Brought(row) => Len(row) > 1
      BY <1>0, BroughtIsCopy
    <3>2. ~(Len(row) > 1)
      BY <1>2
    <3>. QED  BY <3>1, <3>2
  <2>. QED  BY <1>2, <2>1 DEF Happened, Written
<1>4. ImportIds' = ImportIds
  BY <1>0 DEF ImportIds
<1>. HIDE DEF row
<1>5. RecoveryTypeOK' /\ run' \in Runs /\ RunReads' /\ ExportCovers' /\ DeltaHonest'
  <2>1. \A r \in Range(aView') : r = row \/ r \in Range(aView)
    BY <1>2 DEF row
  <2>. QED  BY <1>1, <1>3, <1>4, <2>1, OthersChange
<1>6. OwnImport'
  <2>1. Range(bView) \subseteq Range(bView')
    BY <1>2
  <2>. QED  BY <1>0, <1>4, <2>1 DEF RecoveryInv, OwnImport, Restoring
<1>7. TargetQuiet'
  <2>1. Imported(bView)' = Imported(bView)
    <3>1. Range(bView') = Range(bView) \cup {row} /\ ~(Len(row) > 1)
      BY <1>2 DEF row
    <3>. QED  BY <3>1 DEF Imported
  <2>2. \A j \in ImportIds : Arriving(j)' = Arriving(j)
    BY <1>0 DEF Arriving
  <2>. QED  BY <1>0, <1>4, <2>1, <2>2 DEF RecoveryInv, TargetQuiet, StillArriving, Restoring
<1>. QED  BY <1>1, <1>5, <1>6, <1>7 DEF RecoveryInv

\* What a slice of a sequence has.
LEMMA SliceOfSequence ==
    ASSUME NEW T, NEW s \in Seq(T), NEW a \in Nat \ {0}, NEW b \in Nat, a <= b + 1, b <= Len(s)
    PROVE  /\ SubSeq(s, a, b) \in Seq(T) /\ Len(SubSeq(s, a, b)) = b - a + 1
           /\ \A k \in 1..(b - a + 1) : SubSeq(s, a, b)[k] = s[a + k - 1]
           /\ Range(SubSeq(s, a, b)) \subseteq Range(s)
           /\ IsInjective(s) => IsInjective(SubSeq(s, a, b))
<1>. DEFINE q == SubSeq(s, a, b)
<1>1. DOMAIN s = 1..Len(s) /\ Len(s) \in Nat /\ \A k \in 1..Len(s) : s[k] \in T
  BY LenProperties, ElementOfSeq
<1>2. /\ q \in Seq(T) /\ Len(q) = IF a <= b THEN b - a + 1 ELSE 0
      /\ \A k \in 1..(b - a + 1) : q[k] = s[a + k - 1]
  <2>1. a \in Int /\ b \in Int /\ \A k \in a..b : s[k] \in T
    BY <1>1
  <2>2. /\ SubSeq(s, a, b) \in Seq(T)
        /\ Len(SubSeq(s, a, b)) = (IF a <= b THEN b - a + 1 ELSE 0)
        /\ \A i \in 1..(b - a + 1) : SubSeq(s, a, b)[i] = s[a + i - 1]
    BY <2>1, SubSeqProperties
  <2>. QED  BY <2>2
<1>3. Len(q) = b - a + 1
  BY <1>2
<1>. HIDE DEF q
<1>4. DOMAIN q = 1..(b - a + 1)
  BY <1>2, <1>3, LenProperties
<1>5. \A k \in 1..(b - a + 1) : a + k - 1 \in DOMAIN s
  BY <1>1
<1>6. Range(q) \subseteq Range(s)
  BY <1>2, <1>4, <1>5 DEF Range
<1>7. ASSUME IsInjective(s) PROVE IsInjective(q)
  <2>. SUFFICES ASSUME NEW j \in 1..(b - a + 1), NEW k \in 1..(b - a + 1), q[j] = q[k]
                PROVE  j = k
    BY <1>4 DEF IsInjective
  <2>1. a + j - 1 = a + k - 1
    BY <1>2, <1>5, <1>7 DEF IsInjective
  <2>. QED  BY <2>1
<1>. QED  BY <1>2, <1>3, <1>6, <1>7 DEF q

\* A page of a view: rows of it, none twice, and all of them if they fit.
LEMMA PageOfView ==
    ASSUME NEW view \in Seq(Rows), NEW asked \in Nat, run.cap \in Nat
    PROVE  /\ Newest(view, asked) \in Seq(Rows)
           /\ Range(Newest(view, asked)) \subseteq Range(view)
           /\ IsInjective(view) => IsInjective(Newest(view, asked))
           /\ \/ Newest(view, asked) = view
              \/ /\ Len(Newest(view, asked)) = IF asked < run.cap THEN asked ELSE run.cap
                 /\ Len(view) > IF asked < run.cap THEN asked ELSE run.cap
<1>. DEFINE n == IF asked < run.cap THEN asked ELSE run.cap
            L == Len(view)
            page == SubSeq(view, L - n + 1, L)
<1>1. DOMAIN view = 1..L /\ L \in Nat /\ \A k \in 1..L : view[k] \in Rows
  BY LenProperties, ElementOfSeq
<1>2. n \in Nat
  OBVIOUS
<1>3. CASE L <= n
  <2>1. Newest(view, asked) = view
    BY <1>3 DEF Newest
  <2>. QED  BY <2>1
<1>4. CASE ~(L <= n)
  <2>1. Newest(view, asked) = page
    BY <1>4 DEF Newest
  <2>. HIDE DEF n, L
  <2>2. L - n + 1 \in Nat \ {0} /\ L \in Nat /\ L - n + 1 <= L + 1 /\ L - (L - n + 1) + 1 = n
    BY <1>1, <1>2, <1>4
  <2>5. /\ page \in Seq(Rows) /\ Len(page) = L - (L - n + 1) + 1
        /\ Range(page) \subseteq Range(view)
        /\ IsInjective(view) => IsInjective(page)
    <3>. DEFINE a == L - n + 1
    <3>1. a \in Nat \ {0} /\ L \in Nat /\ a <= L + 1 /\ L = Len(view) /\ L <= Len(view)
      BY <2>2 DEF L
    <3>. HIDE DEF a
    <3>2. /\ SubSeq(view, a, L) \in Seq(Rows) /\ Len(SubSeq(view, a, L)) = L - a + 1
          /\ Range(SubSeq(view, a, L)) \subseteq Range(view)
          /\ IsInjective(view) => IsInjective(SubSeq(view, a, L))
      BY <3>1, SliceOfSequence
    <3>. QED  BY <3>2 DEF a
  <2>8. L > n
    BY <1>1, <1>2, <1>4
  <2>. HIDE DEF page
  <2>. QED  BY <2>1, <2>2, <2>5, <2>8 DEF n, L
<1>. QED  BY <1>3, <1>4

\* What is left to read of a view.
LEMMA UnreadOfView ==
    ASSUME NEW view \in Seq(Rows), IsInjective(view), NEW first \in BOOLEAN
    PROVE  /\ Unread(view, first) \in Seq(Rows) /\ IsInjective(Unread(view, first))
           /\ Len(Unread(view, first)) \in Nat /\ Len(Unread(view, first)) <= Len(view)
           /\ Range(Unread(view, first)) = IF first THEN Range(view)
                                           ELSE Range(view) \cap run.rest
<1>. DEFINE I == {k \in DOMAIN view : view[k] \in run.rest}
<1>1. CASE first
  <2>1. Unread(view, first) = view /\ Len(view) \in Nat
    BY <1>1, LenProperties DEF Unread
  <2>2. Unread(view, first) \in Seq(Rows) /\ IsInjective(Unread(view, first))
    BY <2>1
  <2>3. Len(Unread(view, first)) \in Nat /\ Len(Unread(view, first)) <= Len(view)
    BY <2>1
  <2>4. Range(Unread(view, first)) = Range(view)
    BY <2>1
  <2>5. (IF first THEN Range(view) ELSE Range(view) \cap run.rest) = Range(view)
    BY <1>1
  <2>. QED  BY <2>2, <2>3, <2>4, <2>5
<1>2. CASE ~first
  <2>1. Unread(view, first) = ElementsAt(view, I) /\ I \subseteq DOMAIN view
    BY <1>2 DEF Unread
  <2>. HIDE DEF I
  <2>2. /\ ElementsAt(view, I) \in Seq(Rows)
        /\ Len(ElementsAt(view, I)) \in Nat /\ Len(ElementsAt(view, I)) <= Len(view)
        /\ Range(ElementsAt(view, I)) = {view[k] : k \in I}
        /\ IsInjective(ElementsAt(view, I))
    BY <2>1, PartOfSequence
  <2>3. {view[k] : k \in I} = Range(view) \cap run.rest
    BY DEF I, Range
  <2>. QED  BY <1>2, <2>1, <2>2, <2>3
<1>. QED  BY <1>1, <1>2

\* A snapshot reads what B sees.
LEMMA SnapshotSees ==
    ASSUME RecoveryInv, NEW seen \in SUBSET Rows
    PROVE  /\ Range(SnapshotPage(seen)) \subseteq Range(bView)
           /\ SnapshotRest(seen) \subseteq Range(bView)
           /\ \A r \in Range(bView) : r \in Rows /\ Happened(r)
<1>. DEFINE first == seen = {}
            unread == Unread(bView, first)
<1>1. /\ bView \in Seq(Rows) /\ IsInjective(bView) /\ Batch \in Nat /\ run.cap \in Nat
      /\ first \in BOOLEAN
      /\ \A r \in Range(bView) : r \in Rows /\ Happened(r)
  BY RunFacts, ViewFacts, RunAssumption
<1>. HIDE DEF first
<1>2. unread \in Seq(Rows) /\ Range(unread) \subseteq Range(bView)
  BY <1>1, UnreadOfView
<1>. HIDE DEF unread
<1>3. Range(Newest(unread, Batch)) \subseteq Range(unread)
  BY <1>1, <1>2, PageOfView
<1>. QED  BY <1>1, <1>2, <1>3 DEF SnapshotPage, SnapshotRest, unread, first

\* A page that is archived: nothing twice, and nothing skipped.
LEMMA ExportPreserves ==
    ASSUME RecoveryInv, ExportPage
    PROVE  RecoveryInv'
<1>. DEFINE page == Newest(Older, Batch)
            joined == run.archive \o Reverse(page)
<1>0. /\ ServiceInv /\ run \in Runs /\ run.step = "export" /\ Batch \in Nat
      /\ aView' = aView /\ bView' = bView /\ imports' = imports /\ runs' = runs
  BY RunAssumption DEF RecoveryInv, ExportPage, serviceVars
<1>1. /\ Older \in Seq(Rows) /\ Range(Older) \subseteq Range(aView) /\ IsInjective(Older)
      /\ Len(Older) \in Nat /\ Len(Older) <= Len(aView)
      /\ Range(Older) = IF run.archive = <<>> THEN Range(aView) ELSE Range(aView) \cap run.rest
  <2>. DEFINE first == run.archive = <<>>
  <2>1. aView \in Seq(Rows) /\ IsInjective(aView) /\ Range(aView) \subseteq Rows
    BY <1>0, ViewFacts
  <2>2. first \in BOOLEAN /\ Older = Unread(aView, first)
    BY DEF Older
  <2>. HIDE DEF first
  <2>3. /\ Unread(aView, first) \in Seq(Rows) /\ IsInjective(Unread(aView, first))
        /\ Len(Unread(aView, first)) \in Nat /\ Len(Unread(aView, first)) <= Len(aView)
        /\ Range(Unread(aView, first)) = IF first THEN Range(aView)
                                         ELSE Range(aView) \cap run.rest
    BY <2>1, <2>2, UnreadOfView
  <2>. QED  BY <2>2, <2>3 DEF first
<1>2. /\ page \in Seq(Rows) /\ Range(page) \subseteq Range(Older) /\ IsInjective(page)
      /\ \/ page = Older
         \/ /\ Len(page) = IF Batch < run.cap THEN Batch ELSE run.cap
            /\ Len(Older) > IF Batch < run.cap THEN Batch ELSE run.cap
  BY <1>0, <1>1, RunFacts, PageOfView
<1>3. PICK lost \in SUBSET {r \in Range(page) : r[1] \in Captionless} : Exported(page, page, lost)
  BY DEF ExportPage
<1>. DEFINE whole == Batch <= run.cap \/ Len(aView) <= run.cap
            step == IF Len(page) < Batch THEN "verify" ELSE "export"
            rest == Range(Older) \ Range(page)
<1>4. run' = [run EXCEPT !.archive = joined, !.lost = run.lost \cup lost, !.rest = rest,
                         !.whole = whole, !.step = step]
  BY <1>3 DEF Exported
<1>5. /\ Range(page) \subseteq Rows /\ Range(Older) \subseteq Rows
      /\ whole \in BOOLEAN /\ step \in {"verify", "export"}
  BY <1>0, <1>1, <1>2, ViewFacts
<1>6. /\ run.archive \in Seq(Rows) /\ IsInjective(run.archive)
      /\ Range(run.archive) \cap Range(page) = {}
  <2>1. run.archive \in Seq(Rows) /\ IsInjective(run.archive)
    BY RunFacts
  <2>2. run.archive = <<>> => Range(run.archive) = {}
    BY DEF Range
  <2>3. run.archive # <<>> => Range(page) \subseteq run.rest
    BY <1>1, <1>2
  <2>4. run.rest \cap Range(run.archive) = {}
    BY <1>0, <2>2 DEF RecoveryInv, ExportCovers
  <2>. QED  BY <2>1, <2>2, <2>3, <2>4
<1>7. /\ joined \in Seq(Rows) /\ IsInjective(joined)
      /\ Range(joined) = Range(run.archive) \cup Range(page)
  <2>1. /\ Reverse(page) \in Seq(Rows) /\ Range(Reverse(page)) = Range(page)
        /\ IsInjective(Reverse(page))
    BY <1>2, ReversedSequence
  <2>. HIDE DEF page
  <2>. QED  BY <1>6, <2>1, JoinedSequences
<1>8. run.saw \cap Range(aView) \subseteq Range(joined) \cup rest
  <2>1. CASE run.archive = <<>>
    BY <1>1, <1>7, <2>1
  <2>2. CASE run.archive # <<>>
    BY <1>0, <1>1, <1>7, <2>2 DEF RecoveryInv, ExportCovers
  <2>. QED  BY <2>1, <2>2
<1>9. ASSUME step = "verify", whole PROVE rest = {}
  <2>1. Len(page) < Batch
    BY <1>9
  <2>2. run.cap \in Nat /\ Len(aView) \in Nat
    BY <1>0, ViewFacts, RunFacts
  <2>3. page = Older
    <3>. HIDE DEF page
    <3>. QED  BY <1>0, <1>1, <1>2, <1>9, <2>1, <2>2
  <2>. QED  BY <2>3
<1>10. /\ \A r \in Range(joined) \cup rest : Happened(r)
       /\ rest \cap Range(joined) = {}
  <2>1. \A r \in Range(page) \cup Range(Older) : Happened(r)
    BY <1>0, <1>1, <1>2, ViewFacts
  <2>2. \A r \in Range(run.archive) : Happened(r)
    BY DEF RecoveryInv, RunReads
  <2>3. rest \cap Range(run.archive) = {}
    <3>1. run.archive = <<>> => Range(run.archive) = {}
      BY DEF Range
    <3>2. run.archive # <<>> => rest \subseteq run.rest
      BY <1>1
    <3>3. run.rest \cap Range(run.archive) = {}
      BY <1>0, <3>1 DEF RecoveryInv, ExportCovers
    <3>. QED  BY <3>1, <3>2, <3>3
  <2>. QED  BY <1>7, <2>1, <2>2, <2>3
<1>. HIDE DEF joined, whole, step, rest, page
<1>11. run' \in Runs
  <2>1. lost \subseteq Rows /\ rest \subseteq Rows
    BY <1>3, <1>5 DEF rest
  <2>. QED  BY <1>0, <1>4, <1>5, <1>7, <2>1 DEF Runs, RunSteps
<1>12. /\ run'.step = step /\ run'.archive = joined /\ run'.rest = rest /\ run'.whole = whole
       /\ run'.saw = run.saw /\ run'.after = run.after /\ run'.import = run.import /\ run'.late = run.late
  BY <1>0, <1>4 DEF Runs
<1>13. ServiceInv' /\ ImportIds' = ImportIds /\ \A r : Happened(r)' = Happened(r)
  BY <1>0, SameChat
<1>14. RecoveryTypeOK'
  BY <1>0, <1>5, <1>7, <1>12, <1>13 DEF RecoveryInv, RecoveryTypeOK, ServiceInv, RunSteps
<1>15. RunReads'
  BY <1>0, <1>5, <1>10, <1>12, <1>13 DEF RecoveryInv, RunReads, Restoring
<1>16. ExportCovers'
  BY <1>0, <1>5, <1>8, <1>9, <1>10, <1>12 DEF ExportCovers, Restoring
<1>17. OwnImport' /\ TargetQuiet' /\ DeltaHonest'
  BY <1>5, <1>12 DEF OwnImport, TargetQuiet, DeltaHonest, Restoring
<1>. QED  BY <1>11, <1>13, <1>14, <1>15, <1>16, <1>17 DEF RecoveryInv

\* Nothing happens in the chat.
LEMMA ServiceStays ==
    ASSUME ServiceInv, UNCHANGED serviceVars
    PROVE  /\ ServiceInv' /\ ImportIds' = ImportIds /\ imports' = imports
           /\ aView' = aView /\ bView' = bView /\ \A r : Happened(r)' = Happened(r)
           /\ Imported(bView)' = Imported(bView) /\ \A i : Arriving(i)' = Arriving(i)
           /\ StillArriving' = StillArriving
<1>1. aView' = aView /\ bView' = bView /\ imports' = imports
  BY DEF serviceVars
<1>2. Imported(bView)' = Imported(bView) /\ \A i : Arriving(i)' = Arriving(i)
  BY <1>1 DEF Imported, Arriving
<1>3. ImportIds' = ImportIds
  BY <1>1 DEF ImportIds
<1>4. StillArriving' = StillArriving
  BY <1>2, <1>3 DEF StillArriving
<1>5. ServiceInv' /\ \A r : Happened(r)' = Happened(r)
  BY <1>1, SameChat
<1>. QED  BY <1>1, <1>2, <1>3, <1>4, <1>5

LEMMA ReadingPreserves ==
    ASSUME RecoveryInv,
           Begin \/ SnapshotBefore \/ VerifyExport \/ SourceStillHas \/ CheckImport
           \/ MapDelta \/ Report \/ RunDies
    PROVE  RecoveryInv'
<1>0. /\ ServiceInv' /\ ImportIds' = ImportIds /\ imports' = imports
      /\ aView' = aView /\ bView' = bView /\ \A r : Happened(r)' = Happened(r)
      /\ Imported(bView)' = Imported(bView) /\ \A i : Arriving(i)' = Arriving(i)
      /\ StillArriving' = StillArriving
  BY RunFacts, ServiceStays DEF Begin, SnapshotBefore, VerifyExport, SourceStillHas, CheckImport,
                                MapDelta, Report, RunDies
<1>. USE DEF RecoveryInv, RecoveryTypeOK, RunReads, ExportCovers, OwnImport, TargetQuiet,
             DeltaHonest, Restoring
<1>1. ASSUME NEW cap \in Nat, NEW saw \in SUBSET Rows, \A r \in saw : Happened(r),
             run' \in {NoRun, [NoRun EXCEPT !.step = "before", !.cap = cap, !.saw = saw]},
             runs' \in 0..MaxRuns
      PROVE  RecoveryInv'
  <2>1. /\ run'.step \in {"idle", "before"} /\ run'.archive = <<>> /\ run'.rest = {}
        /\ run'.saw \subseteq saw /\ run'.after = {} /\ run'.import = 0 /\ run'.late = FALSE
    <3>1. CASE run' = NoRun
      BY <3>1 DEF NoRun
    <3>2. CASE run' = [NoRun EXCEPT !.step = "before", !.cap = cap, !.saw = saw]
      BY <3>2 DEF NoRun
    <3>. QED  BY <1>1, <3>1, <3>2
  <2>2. run' \in Runs
    <3>1. {} \in SUBSET Rows /\ <<>> \in Seq(Rows) /\ {"idle", "before"} \subseteq RunSteps
      BY DEF RunSteps
    <3>2. NoRun \in Runs
      BY <3>1 DEF NoRun, Runs
    <3>. QED  BY <1>1, <3>1, <3>2 DEF Runs
  <2>3. IsInjective(run'.archive) /\ Range(run'.archive) = {}
    BY <2>1 DEF IsInjective, Range
  <2>4. RecoveryTypeOK'
    BY <1>0, <1>1, <2>1, <2>3 DEF RunSteps, ServiceInv
  <2>5. RunReads' /\ ExportCovers' /\ OwnImport' /\ TargetQuiet' /\ DeltaHonest'
    BY <1>0, <1>1, <2>1, <2>3
  <2>. QED  BY <1>0, <2>2, <2>4, <2>5
<1>2. CASE Begin
  <2>1. PICK cap \in PageCaps :
           run' = [NoRun EXCEPT !.step = "before", !.cap = cap, !.saw = Range(bView)]
    BY <1>2 DEF Begin
  <2>2. runs' \in 0..MaxRuns /\ cap \in Nat
    <3>1. runs \in 0..MaxRuns /\ MaxRuns \in Nat /\ PageCaps \subseteq Nat
      BY RunAssumption
    <3>2. runs < MaxRuns /\ runs' = runs + 1
      BY <1>2 DEF Begin
    <3>3. runs' \in 0..MaxRuns
      BY <3>1, <3>2
    <3>. QED  BY <3>1, <3>3, <2>1
  <2>3. Range(bView) \in SUBSET Rows /\ \A r \in Range(bView) : Happened(r)
    BY RunFacts, ViewFacts
  <2>. QED  BY <1>1, <2>1, <2>2, <2>3
<1>3. CASE RunDies
  <2>1. run' = NoRun /\ runs' \in 0..MaxRuns
    BY <1>3 DEF RunDies
  <2>. QED  BY <1>1, <2>1, 0 \in Nat, {} \in SUBSET Rows, \A r \in {} : Happened(r)
<1>4. CASE SnapshotBefore
  <2>. DEFINE read == run.before \cup Range(SnapshotPage(run.before))
              rest == SnapshotRest(run.before)
              step == IF ReadsOn(run.before) THEN "before" ELSE "export"
  <2>1. run' = [run EXCEPT !.before = read, !.rest = rest, !.step = step] /\ runs' = runs
        /\ run.step = "before"
    BY <1>4 DEF SnapshotBefore
  <2>2. run.before \in SUBSET Rows
    BY RunFacts
  <2>3. read \subseteq Rows /\ rest \subseteq Rows /\ \A r \in rest : Happened(r)
    <3>1. /\ Range(SnapshotPage(run.before)) \subseteq Range(bView)
          /\ SnapshotRest(run.before) \subseteq Range(bView)
          /\ \A r \in Range(bView) : r \in Rows /\ Happened(r)
      BY <2>2, SnapshotSees
    <3>. QED  BY <2>2, <3>1
  <2>b. step \in {"before", "export"}
    OBVIOUS
  <2>. HIDE DEF read, rest, step
  <2>4. run' \in Runs
    BY <2>1, <2>3, <2>b DEF Runs, RunSteps
  <2>5. /\ run'.step = step /\ run'.saw = run.saw /\ run'.archive = <<>> /\ run'.rest = rest
        /\ run'.after = run.after /\ run'.import = run.import
    BY <2>1 DEF Runs
  <2>6. IsInjective(run'.archive) /\ Range(run'.archive) = {}
    BY <2>5 DEF IsInjective, Range
  <2>7. RecoveryTypeOK'
    BY <1>0, <2>1, <2>5, <2>6, <2>b DEF RunSteps, ServiceInv
  <2>8. RunReads' /\ ExportCovers' /\ OwnImport' /\ TargetQuiet' /\ DeltaHonest'
    BY <1>0, <2>1, <2>3, <2>5, <2>6, <2>b
  <2>. QED  BY <1>0, <2>4, <2>7, <2>8
<1>5. ASSUME NEW old \in RunSteps, NEW step \in RunSteps, run.step = old,
             run' = [run EXCEPT !.step = step], runs' = runs,
             <<old, step>> \in {<<"verify", "package">>, <<"still", "check">>, <<"check", "init">>,
                                <<"report", "done">>}
      PROVE  RecoveryInv'
  <2>1. /\ run' \in Runs
        /\ run'.step = step /\ run'.whole = run.whole /\ run'.archive = run.archive
        /\ run'.rest = run.rest /\ run'.lost = run.lost /\ run'.lines = run.lines
        /\ run'.saw = run.saw /\ run'.after = run.after /\ run'.import = run.import
        /\ run'.here = run.here
        /\ run'.delta = run.delta /\ run'.late = run.late
    BY <1>5 DEF Runs
  <2>2. RecoveryTypeOK' /\ RunReads'
    BY <1>0, <1>5, <2>1 DEF ServiceInv
  <2>a. \/ old = "verify" /\ step = "package"
        \/ old = "still" /\ step = "check"
        \/ old = "check" /\ step = "init"
        \/ old = "report" /\ step = "done"
    BY <1>5
  <2>3. ExportCovers'
    BY <1>0, <1>5, <2>1, <2>a
  <2>4. OwnImport'
    BY <1>0, <1>5, <2>1, <2>a
  <2>5. TargetQuiet' /\ DeltaHonest'
    BY <1>0, <1>5, <2>1, <2>a
  <2>. QED  BY <1>0, <2>1, <2>2, <2>3, <2>4, <2>5
<1>6. CASE VerifyExport
  BY <1>5, <1>6 DEF VerifyExport, RunSteps
<1>7. CASE SourceStillHas
  BY <1>5, <1>7 DEF SourceStillHas, RunSteps
<1>8. CASE CheckImport
  BY <1>5, <1>8 DEF CheckImport, RunSteps
<1>9. CASE Report
  BY <1>5, <1>9 DEF Report, RunSteps
<1>10. CASE MapDelta
  <2>1. run' = [run EXCEPT !.step = "report", !.delta = run.after \ run.before] /\ runs' = runs
        /\ run.step = "map"
    BY <1>10 DEF MapDelta
  <2>2. /\ run' \in Runs
        /\ run'.step = "report" /\ run'.whole = run.whole /\ run'.archive = run.archive
        /\ run'.rest = run.rest /\ run'.lost = run.lost /\ run'.lines = run.lines
        /\ run'.saw = run.saw /\ run'.after = run.after /\ run'.import = run.import
        /\ run'.here = run.here
        /\ run'.delta = run.after \ run.before /\ run'.late = run.late
    BY <2>1 DEF Runs, RunSteps
  <2>3. RecoveryTypeOK' /\ RunReads'
    BY <1>0, <2>1, <2>2 DEF ServiceInv, RunSteps
  <2>4. ExportCovers' /\ OwnImport'
    BY <1>0, <2>1, <2>2
  <2>5. TargetQuiet' /\ DeltaHonest'
    BY <1>0, <2>1, <2>2
  <2>. QED  BY <1>0, <2>2, <2>3, <2>4, <2>5
<1>. QED  BY <1>2, <1>3, <1>4, <1>6, <1>7, <1>8, <1>9, <1>10

LEMMA PackagePreserves ==
    ASSUME RecoveryInv, BuildPackage
    PROVE  RecoveryInv'
<1>. DEFINE I == {k \in DOMAIN run.archive : run.archive[k] \notin run.lost}
            lines == ElementsAt(run.archive, I)
<1>0. /\ ServiceInv' /\ ImportIds' = ImportIds /\ imports' = imports
      /\ aView' = aView /\ bView' = bView /\ \A r : Happened(r)' = Happened(r)
  BY RunFacts, ServiceStays DEF BuildPackage
<1>1. /\ run.step = "package" /\ runs' = runs
      /\ run' = [run EXCEPT !.step = "clear", !.lines = lines]
  BY DEF BuildPackage
<1>2. /\ lines \in Seq(Rows) /\ IsInjective(lines)
      /\ Range(lines) = Range(run.archive) \ run.lost
  <2>1. run.archive \in Seq(Rows) /\ IsInjective(run.archive) /\ I \subseteq DOMAIN run.archive
    BY RunFacts
  <2>. HIDE DEF I
  <2>2. /\ ElementsAt(run.archive, I) \in Seq(Rows)
        /\ Range(ElementsAt(run.archive, I)) = {run.archive[k] : k \in I}
        /\ IsInjective(ElementsAt(run.archive, I))
    BY <2>1, PartOfSequence
  <2>3. {run.archive[k] : k \in I} = Range(run.archive) \ run.lost
    BY DEF I, Range
  <2>. QED  BY <2>2, <2>3
<1>3. <<>> \notin Range(lines)
  <2>1. \A r \in Range(run.archive) : Happened(r)
    BY DEF RecoveryInv, RunReads
  <2>2. ~Happened(<<>>)
    <3>1. Brought(<<>>) => Len(<<>>) > 1
      BY RunFacts, BroughtIsCopy
    <3>. QED  BY <3>1 DEF Happened, Written
  <2>. QED  BY <1>2, <2>1, <2>2
<1>. HIDE DEF lines, I
<1>4. /\ run' \in Runs
      /\ run'.step = "clear" /\ run'.whole = run.whole /\ run'.archive = run.archive
      /\ run'.rest = run.rest /\ run'.lost = run.lost /\ run'.lines = lines
      /\ run'.saw = run.saw /\ run'.after = run.after /\ run'.import = run.import
  BY <1>1, <1>2 DEF RecoveryInv, Runs, RunSteps
<1>5. RecoveryTypeOK' /\ RunReads'
  BY <1>0, <1>1, <1>4 DEF RecoveryInv, RecoveryTypeOK, RunReads, Restoring, ServiceInv, RunSteps
<1>6. ExportCovers'
  BY <1>0, <1>1, <1>2, <1>3, <1>4 DEF RecoveryInv, ExportCovers, Restoring
<1>7. OwnImport' /\ TargetQuiet' /\ DeltaHonest'
  BY <1>4 DEF OwnImport, TargetQuiet, DeltaHonest, Restoring
<1>. QED  BY <1>0, <1>4, <1>5, <1>6, <1>7 DEF RecoveryInv

LEMMA ClearPreserves ==
    ASSUME RecoveryInv, ClearTarget
    PROVE  RecoveryInv'
<1>1. /\ run.step = "clear" /\ runs' = runs /\ bView' = <<>> /\ aView' = aView
      /\ imports' = imports
      /\ run' = [run EXCEPT !.step = "still", !.late = StillArriving]
  BY DEF ClearTarget
<1>0. ServiceInv' /\ \A r : Happened(r) => Happened(r)'
  BY <1>1, RunFacts, ClearingKeeps
<1>2. Range(bView') = {}
  BY <1>1 DEF Range
<1>3. Imported(bView)' = {} /\ StillArriving' = StillArriving /\ ImportIds' = ImportIds
  BY <1>1, <1>2 DEF Imported, StillArriving, Arriving, ImportIds
<1>a. StillArriving \in BOOLEAN
  BY DEF StillArriving
<1>4. /\ run' \in Runs
      /\ run'.step = "still" /\ run'.whole = run.whole /\ run'.archive = run.archive
      /\ run'.rest = run.rest /\ run'.lost = run.lost /\ run'.lines = run.lines
      /\ run'.saw = run.saw /\ run'.after = run.after /\ run'.import = run.import /\ run'.late = StillArriving
  <2>1. run \in Runs
    BY DEF RecoveryInv
  <2>. HIDE DEF StillArriving
  <2>. QED  BY <1>1, <1>a, <2>1 DEF Runs, RunSteps
<1>5. RecoveryTypeOK' /\ RunReads'
  BY <1>0, <1>1, <1>3, <1>4 DEF RecoveryInv, RecoveryTypeOK, RunReads, Restoring, ServiceInv, RunSteps
<1>6. ExportCovers'
  BY <1>1, <1>4 DEF RecoveryInv, ExportCovers, Restoring
<1>7. OwnImport' /\ TargetQuiet' /\ DeltaHonest'
  BY <1>3, <1>4 DEF OwnImport, TargetQuiet, DeltaHonest, Restoring
<1>. QED  BY <1>0, <1>4, <1>5, <1>6, <1>7 DEF RecoveryInv

LEMMA InitPreserves ==
    ASSUME RecoveryInv, InitImport
    PROVE  RecoveryInv'
<1>. DEFINE id == Len(imports) + 1
<1>b. PICK here \in BOOLEAN :
         /\ imports' = Opened(IF here THEN run.lines ELSE <<>>)
         /\ run' = [run EXCEPT !.step = "start", !.import = id, !.here = here]
  BY DEF InitImport
<1>. DEFINE lines == IF here THEN run.lines ELSE <<>>
<1>1. /\ run.step = "init" /\ runs' = runs /\ bView' = bView /\ aView' = aView
      /\ Len(imports) < MaxImports /\ imports' = Opened(lines)
      /\ run' = [run EXCEPT !.step = "start", !.import = id, !.here = here]
  BY <1>b DEF InitImport
<1>2. lines \in Seq(Rows) /\ IsInjective(lines) /\ <<>> \notin Range(lines)
  <2>1. run.lines \in Seq(Rows) /\ IsInjective(run.lines) /\ <<>> \notin Range(run.lines)
    BY <1>1, RunFacts DEF RecoveryInv, ExportCovers
  <2>2. IsInjective(<<>>) /\ Range(<<>>) = {}
    BY DEF IsInjective, Range
  <2>. QED  BY <2>1, <2>2
<1>c. lines = IF here THEN run.lines ELSE <<>>
  OBVIOUS
<1>. HIDE DEF lines
<1>3. /\ ServiceInv'
      /\ ImportIds' = ImportIds \cup {id}
      /\ \A j \in ImportIds : imports'[j] = imports[j]
      /\ imports'[id] = [lines |-> lines, state |-> "open", sent |-> 0]
      /\ \A r : Happened(r) => Happened(r)'
  BY <1>1, <1>2, RunFacts, OpeningKeeps
<1>a. id \in Nat
  BY RunFacts, LenProperties DEF ServiceInv, ServiceTypes
<1>. HIDE DEF id
<1>4. /\ run' \in Runs
      /\ run'.step = "start" /\ run'.whole = run.whole /\ run'.archive = run.archive
      /\ run'.rest = run.rest /\ run'.lost = run.lost /\ run'.lines = run.lines
      /\ run'.saw = run.saw /\ run'.after = run.after /\ run'.import = id /\ run'.late = run.late
      /\ run'.here = here
  BY <1>1, <1>a DEF RecoveryInv, Runs, RunSteps
<1>5. RecoveryTypeOK' /\ RunReads'
  BY <1>1, <1>3, <1>4 DEF RecoveryInv, RecoveryTypeOK, RunReads, Restoring, ServiceInv, RunSteps
<1>6. ExportCovers'
  BY <1>1, <1>4 DEF RecoveryInv, ExportCovers, Restoring
<1>7. OwnImport'
  BY <1>3, <1>4, <1>c DEF OwnImport, Restoring
<1>8. TargetQuiet'
  <2>1. \A j \in ImportIds : Arriving(j)' = Arriving(j)
    BY <1>3 DEF Arriving
  <2>2. \A j : j = id => Arriving(j)' = {}
    BY <1>3 DEF Arriving
  <2>3. StillArriving' => StillArriving
    BY <1>3, <2>1, <2>2 DEF StillArriving
  <2>4. Imported(bView)' = Imported(bView)
    BY <1>1 DEF Imported
  <2>. QED  BY <1>1, <1>4, <2>3, <2>4 DEF RecoveryInv, TargetQuiet, Restoring
<1>9. DeltaHonest'
  BY <1>4 DEF DeltaHonest
<1>. QED  BY <1>3, <1>4, <1>5, <1>6, <1>7, <1>8, <1>9 DEF RecoveryInv

LEMMA StartPreserves ==
    ASSUME RecoveryInv, StartImport
    PROVE  RecoveryInv'
<1>1. /\ run.step = "start" /\ runs' = runs /\ bView' = bView /\ aView' = aView
      /\ imports' = Started(run.import)
      /\ run' = [run EXCEPT !.step = "after"]
  BY DEF StartImport
<1>2. /\ run.import \in ImportIds
      /\ imports[run.import].lines = IF run.here THEN run.lines ELSE <<>>
      /\ imports[run.import].sent = 0
  BY <1>1 DEF RecoveryInv, OwnImport
<1>3. /\ ServiceInv' /\ ImportIds' = ImportIds
      /\ \A j \in ImportIds : /\ imports'[j].lines = imports[j].lines
                              /\ imports'[j].sent = imports[j].sent
                              /\ imports'[j].state = IF j = run.import THEN "started"
                                                     ELSE imports[j].state
      /\ \A r : Happened(r) => Happened(r)'
  BY <1>1, <1>2, RunFacts, StartingKeeps
<1>4. /\ run' \in Runs
      /\ run'.step = "after" /\ run'.here = run.here /\ run'.whole = run.whole /\ run'.archive = run.archive
      /\ run'.rest = run.rest /\ run'.lost = run.lost /\ run'.lines = run.lines
      /\ run'.saw = run.saw /\ run'.after = run.after /\ run'.import = run.import /\ run'.late = run.late
  BY <1>1 DEF RecoveryInv, Runs, RunSteps
<1>5. RecoveryTypeOK' /\ RunReads'
  BY <1>1, <1>3, <1>4 DEF RecoveryInv, RecoveryTypeOK, RunReads, Restoring, ServiceInv, RunSteps
<1>6. ExportCovers'
  BY <1>1, <1>4 DEF RecoveryInv, ExportCovers, Restoring
<1>7. OwnImport'
  <2>1. /\ imports'[run.import].sent = 0
        /\ imports'[run.import].lines = imports[run.import].lines
    BY <1>2, <1>3
  <2>. QED  BY <1>2, <1>3, <1>4, <2>1 DEF OwnImport, Restoring
<1>8. TargetQuiet'
  <2>1. \A j \in ImportIds \ {run.import} : Arriving(j)' = Arriving(j)
    <3>1. \A j \in ImportIds \ {run.import} :
             /\ imports'[j].lines = imports[j].lines /\ imports'[j].sent = imports[j].sent
             /\ imports'[j].state = imports[j].state
      BY <1>3
    <3>. QED  BY <3>1 DEF Arriving
  <2>2. Imported(bView)' = Imported(bView)
    BY <1>1 DEF Imported
  <2>3. ASSUME ~run.late
        PROVE  Imported(bView) = {} /\ \A j \in ImportIds : Arriving(j) = {}
    BY <1>1, <2>3 DEF RecoveryInv, TargetQuiet, StillArriving
  <2>4. ASSUME ~run.late
        PROVE  /\ Imported(bView)' = {}
               /\ \A j \in ImportIds \ {run.import} : Arriving(j)' = {}
    BY <2>1, <2>2, <2>3, <2>4
  <2>5. ASSUME NEW t \in run.after
        PROVE  FALSE
    BY <1>1, <2>5 DEF RecoveryInv, RunReads, Restoring
  <2>. QED  BY <1>3, <1>4, <2>4, <2>5 DEF TargetQuiet, Restoring
<1>9. DeltaHonest'
  BY <1>4 DEF DeltaHonest
<1>. QED  BY <1>3, <1>4, <1>5, <1>6, <1>7, <1>8, <1>9 DEF RecoveryInv

LEMMA SnapshotPreserves ==
    ASSUME RecoveryInv, SnapshotAfter
    PROVE  RecoveryInv'
<1>. DEFINE page == Range(SnapshotPage(run.after))
            rest == SnapshotRest(run.after)
            step == IF ReadsOn(run.after) THEN "after" ELSE "map"
<1>0. /\ ServiceInv' /\ ImportIds' = ImportIds /\ imports' = imports
      /\ aView' = aView /\ bView' = bView /\ \A r : Happened(r)' = Happened(r)
      /\ Imported(bView)' = Imported(bView) /\ \A i : Arriving(i)' = Arriving(i)
  BY RunFacts, ServiceStays DEF SnapshotAfter
<1>1. /\ run.step = "after" /\ runs' = runs
      /\ run' = [run EXCEPT !.after = run.after \cup page, !.rest = rest, !.step = step]
  BY DEF SnapshotAfter
<1>2. /\ page \subseteq Range(bView) /\ rest \subseteq Range(bView)
      /\ \A r \in Range(bView) : r \in Rows /\ Happened(r)
      /\ run.after \subseteq Rows
  <2>1. run.after \in SUBSET Rows
    BY RunFacts
  <2>. QED  BY <2>1, SnapshotSees
<1>3. \A t \in page : Len(t) = 1 \/ t \in Imported(bView)
  <2>2. \A t \in Range(bView) : t \in Rows /\ Len(t) \in Nat \ {0}
    BY RunFacts, ViewFacts
  <2>3. \A n \in Nat \ {0} : n = 1 \/ n > 1
    OBVIOUS
  <2>. QED  BY <1>2, <2>2, <2>3 DEF Imported
<1>b. step \in {"after", "map"}
  OBVIOUS
<1>. HIDE DEF page, rest, step
<1>4. /\ run' \in Runs
      /\ run'.step = step /\ run'.here = run.here /\ run'.whole = run.whole
      /\ run'.archive = run.archive
      /\ run'.rest = rest /\ run'.lost = run.lost /\ run'.lines = run.lines
      /\ run'.saw = run.saw /\ run'.import = run.import /\ run'.late = run.late
      /\ run'.after = run.after \cup page
  BY <1>1, <1>2, <1>b DEF RecoveryInv, Runs, RunSteps
<1>5. RecoveryTypeOK' /\ RunReads'
  BY <1>0, <1>1, <1>2, <1>4, <1>b
     DEF RecoveryInv, RecoveryTypeOK, RunReads, Restoring, ServiceInv, RunSteps
<1>6. ExportCovers' /\ OwnImport'
  BY <1>0, <1>1, <1>4, <1>b DEF RecoveryInv, ExportCovers, OwnImport, Restoring
<1>7. TargetQuiet'
  BY <1>0, <1>1, <1>3, <1>4, <1>b DEF RecoveryInv, TargetQuiet, Restoring
<1>8. DeltaHonest'
  BY <1>4, <1>b DEF DeltaHonest
<1>. QED  BY <1>0, <1>4, <1>5, <1>6, <1>7, <1>8 DEF RecoveryInv

LEMMA RecoveryStarts == ServiceInit(FirstView) /\ RecoveryInit => RecoveryInv
<1>. SUFFICES ASSUME ServiceInit(FirstView), RecoveryInit PROVE RecoveryInv
  OBVIOUS
<1>1. FirstMessages \in Nat /\ FirstView = [m \in 1..FirstMessages |-> <<m>>]
  BY RunAssumption, ServiceAssumption DEF FirstView
<1>2. \A m \in 1..FirstMessages : <<m>> \in Rows
  BY <1>1 DEF Rows
<1>3. FirstView \in Seq(Rows) /\ DOMAIN FirstView = 1..FirstMessages
  <2>1. FirstView \in [1..FirstMessages -> Rows]
    BY <1>1, <1>2
  <2>. QED  BY <1>1, <2>1, IsASeq
<1>4. IsInjective(FirstView)
  BY <1>1, <1>3 DEF IsInjective
<1>5. Range(FirstView) = {<<m>> : m \in 1..FirstMessages}
  BY <1>1, <1>3 DEF Range
<1>6. Cardinality(Range(FirstView)) = FirstMessages
  <2>1. /\ FirstView \in Surjection(1..FirstMessages, Range(FirstView))
        /\ FirstView \in Injection(1..FirstMessages, Range(FirstView))
    <3>1. FirstView \in [1..FirstMessages -> Range(FirstView)]
      BY <1>3 DEF Range
    <3>. QED  BY <1>3, <1>4, <3>1 DEF Injection, Surjection, IsInjective, Range
  <2>2. IsFiniteSet(1..FirstMessages) /\ Cardinality(1..FirstMessages) = FirstMessages
    BY <1>1, FS_Interval
  <2>. QED  BY <2>1, <2>2, FS_Surjection, Zenon
<1>7. \A r \in Range(FirstView) : Len(r) = 1 /\ r # <<>>
  BY <1>5
<1>8. ServiceInv
  BY <1>3, <1>4, <1>5, <1>6, <1>7, ServiceInvInit
<1>9. run = NoRun /\ runs = 0 /\ run.step = "idle" /\ run.archive = <<>> /\ run.rest = {}
      /\ run.saw = {} /\ run.after = {} /\ run.import = 0 /\ run.late = FALSE
  BY DEF RecoveryInit, NoRun
<1>10. run \in Runs
  <2>1. {} \in SUBSET Rows /\ <<>> \in Seq(Rows)
    OBVIOUS
  <2>. QED  BY <1>9, <2>1 DEF NoRun, Runs, RunSteps
<1>11. IsInjective(run.archive) /\ Range(run.archive) = {}
  BY <1>9 DEF IsInjective, Range
<1>12. RecoveryTypeOK
  BY <1>8, <1>9, <1>11, RunAssumption DEF RecoveryTypeOK, ServiceInv, RunSteps
<1>. QED  BY <1>8, <1>9, <1>10, <1>11, <1>12 DEF RecoveryInv, RunReads, ExportCovers, OwnImport,
                                             TargetQuiet, DeltaHonest, Restoring

\* Every step of the chat and of the runs preserves the invariant.
LEMMA RecoveryStep ==
    RecoveryInv /\ [RecoveryNext \/ (ServiceNext /\ UNCHANGED runVars)]_recoveryVars => RecoveryInv'
<1>. SUFFICES ASSUME RecoveryInv,
                     [RecoveryNext \/ (ServiceNext /\ UNCHANGED runVars)]_recoveryVars
              PROVE  RecoveryInv'
  OBVIOUS
<1>1. CASE RecoveryNext
  BY <1>1, ReadingPreserves, ExportPreserves, PackagePreserves, ClearPreserves, InitPreserves,
     StartPreserves, SnapshotPreserves DEF RecoveryNext
<1>2. CASE ServiceNext /\ UNCHANGED runVars
  <2>1. CASE ImportArrives
    <3>1. PICK i \in ImportIds : Arrives(i)
      BY <2>1 DEF ImportArrives, Arrives, Arrival
    <3>. QED  BY <1>2, <3>1, ArrivalPreserves
  <2>2. CASE ImportReverted
    <3>1. PICK i \in ImportIds : Reverts(i)
      BY <2>2 DEF ImportReverted, Reverts, KeptOf
    <3>. QED  BY <1>2, <3>1, RevertingPreserves
  <2>3. CASE MessageWritten
    BY <1>2, <2>3, WritingPreserves
  <2>. QED  BY <1>2, <2>1, <2>2, <2>3 DEF ServiceNext
<1>3. CASE UNCHANGED recoveryVars
  <2>1. UNCHANGED serviceVars /\ UNCHANGED runVars
    BY <1>3 DEF recoveryVars
  <2>2. /\ ServiceInv' /\ ImportIds' = ImportIds /\ imports' = imports
        /\ aView' = aView /\ bView' = bView /\ \A r : Happened(r)' = Happened(r)
        /\ Imported(bView)' = Imported(bView) /\ \A i : Arriving(i)' = Arriving(i)
        /\ StillArriving' = StillArriving
    BY <2>1, RunFacts, ServiceStays
  <2>3. RecoveryTypeOK' /\ run' \in Runs /\ RunReads' /\ ExportCovers' /\ DeltaHonest'
    BY <2>1, <2>2, OthersChange
  <2>4. OwnImport' /\ TargetQuiet'
    BY <2>1, <2>2 DEF RecoveryInv, OwnImport, TargetQuiet, Restoring, runVars
  <2>. QED  BY <2>2, <2>3, <2>4 DEF RecoveryInv
<1>. QED  BY <1>1, <1>2, <1>3

\* Whatever the chat, the server and the operators of the runs do: the views,
\* the imports and the records of a run have their types (recovery/engine.py).
THEOREM RecoveryTypes == RecoverySpec => []RecoveryTypeOK
<1>1. RecoveryInv => RecoveryTypeOK
  BY DEF RecoveryInv
<1>. QED  BY RecoveryStarts, RecoveryStep, <1>1, PTL DEF RecoverySpec

LEMMA RecoveryInvariant == RecoverySpec => []RecoveryInv
  BY RecoveryStarts, RecoveryStep, PTL DEF RecoverySpec

\* However many messages, imports and runs there are, whatever the size of a
\* page and however many pages the snapshots take: what a run counts as new in
\* B's view came through its own import or was written meanwhile, unless an
\* earlier import was still arriving when the run cleared B's view
\* (snapshot_target, map_source_to_target, engine.py:169-198, 231-243).
THEOREM DeltaIsHonest == RecoverySpec => []DeltaHonest
<1>1. RecoveryInv => DeltaHonest
  BY DEF RecoveryInv
<1>. QED  BY RecoveryInvariant, <1>1, PTL

\* A copy that B sees or is about to see copies some row by some import.
LEMMA CopiesAreBrought ==
    ASSUME ServiceInv, NEW t \in Imported(bView) \cup UNION {Arriving(i) : i \in ImportIds}
    PROVE  \E q \in Rows, i \in ImportIds :
              /\ t = Append(q, i) /\ Front(t) = q /\ Last(t) = i
              /\ t \in Imported(bView) \/ t \in Arriving(i)
<1>1. ASSUME NEW i \in ImportIds, NEW k \in 1..Len(imports[i].lines),
             t = Append(imports[i].lines[k], i), t \in Imported(bView) \/ t \in Arriving(i)
      PROVE  \E q \in Rows, j \in ImportIds :
                /\ t = Append(q, j) /\ Front(t) = q /\ Last(t) = j
                /\ t \in Imported(bView) \/ t \in Arriving(j)
  <2>. DEFINE q == imports[i].lines[k]
  <2>1. q \in Rows /\ i \in Nat
    BY ImportFacts
  <2>. HIDE DEF q
  <2>2. Front(Append(q, i)) = q /\ Last(Append(q, i)) = i
    BY <2>1, CopyOfRow
  <2>3. t = Append(q, i)
    BY <1>1 DEF q
  <2>. QED  BY <1>1, <2>1, <2>2, <2>3
<1>2. CASE t \in Imported(bView)
  <2>1. t \in Range(bView) /\ Len(t) > 1
    BY <1>2 DEF Imported
  <2>2. Happened(t)
    BY <2>1, ViewFacts
  <2>3. Brought(t)
    <3>1. Len(t) = 1 => ~(Len(t) > 1)
      OBVIOUS
    <3>. QED  BY <2>1, <2>2, <3>1 DEF Happened, Written
  <2>4. PICK i \in ImportIds : \E k \in 1..imports[i].sent : t = Append(imports[i].lines[k], i)
    BY <2>3 DEF Brought
  <2>5. PICK k \in 1..imports[i].sent : t = Append(imports[i].lines[k], i)
    BY <2>4
  <2>6. k \in 1..Len(imports[i].lines)
    BY ImportFacts
  <2>. QED  BY <1>1, <1>2, <2>5, <2>6
<1>3. CASE t \in UNION {Arriving(i) : i \in ImportIds}
  <2>1. PICK i \in ImportIds : t \in Arriving(i)
    BY <1>3
  <2>2. PICK k \in (imports[i].sent + 1)..Len(imports[i].lines) : t = Append(imports[i].lines[k], i)
    BY <2>1 DEF Arriving
  <2>3. k \in 1..Len(imports[i].lines)
    BY ImportFacts
  <2>. QED  BY <1>1, <2>1, <2>2, <2>3
<1>. QED  BY <1>2, <1>3

\* However many messages, imports and runs there are: after a run, B sees one
\* copy at most of each row the run imported, unless an earlier import was
\* still arriving when the run cleared B's view (full_test, engine.py:304-315).
THEOREM OneCopyRestored == RecoverySpec => []RestoredOnce
<1>1. RecoveryInv => RestoredOnce
  <2>. SUFFICES ASSUME RecoveryInv, Restoring, ~run.late, NEW r \in Range(run.lines)
                PROVE  Cardinality(CopiesInTarget(r)) <= 1
    BY DEF RestoredOnce, Restoring
  <2>1. \A t \in CopiesInTarget(r) : t = Append(r, run.import)
    <3>. SUFFICES ASSUME NEW t \in CopiesInTarget(r) PROVE t = Append(r, run.import)
      OBVIOUS
    <3>0. /\ t \in Imported(bView) \cup UNION {Arriving(j) : j \in ImportIds}
          /\ Front(t) = r
      BY DEF CopiesInTarget
    <3>1. PICK q \in Rows, i \in ImportIds :
             /\ t = Append(q, i) /\ Front(t) = q /\ Last(t) = i
             /\ t \in Imported(bView) \/ t \in Arriving(i)
      BY <3>0, RunFacts, CopiesAreBrought
    <3>2. i = run.import
      BY <3>1 DEF RecoveryInv, TargetQuiet
    <3>. QED  BY <3>0, <3>1, <3>2
  <2>2. CopiesInTarget(r) \subseteq {Append(r, run.import)}
    BY <2>1
  <2>3. IsFiniteSet({Append(r, run.import)}) /\ Cardinality({Append(r, run.import)}) = 1
    BY FS_Singleton
  <2>. QED  BY <2>2, <2>3, FS_Subset
<1>. QED  BY RecoveryInvariant, <1>1, PTL

\* However many messages, imports and runs there are, and whatever the size of
\* a page: what B saw when a run began, whether a snapshot got to it or not, B
\* sees after it, as a copy that has arrived or is about to, if the server's
\* pages were as long as asked or A's view fitted one, the media could be
\* downloaded, A still sees the row, the import went into the chat that was
\* cleared and the server did not take it back (stream_all,
\* source_reader.py:46-92; build_import_package, importer.py:130-195).
THEOREM NoRowLost == RecoverySpec => []NothingLost
<1>1. RecoveryInv => NothingLost
  <2>. SUFFICES ASSUME RecoveryInv, Restoring, run.whole, run.here,
                       imports[run.import].state = "started", NEW r \in run.saw \ run.lost, r \in Range(aView)
                PROVE  \E t \in CopiesInTarget(r) : Last(t) = run.import
    BY DEF NothingLost, Restoring
  <2>. DEFINE i == run.import
              copy == Append(r, i)
  <2>1. r \in Range(run.lines)
    BY DEF RecoveryInv, ExportCovers
  <2>2. /\ i \in ImportIds /\ imports[i].lines = run.lines
        /\ \A k \in 1..imports[i].sent : Append(run.lines[k], i) \in Range(bView)
    BY DEF RecoveryInv, OwnImport
  <2>3. /\ i \in Nat /\ imports[i].sent \in Nat /\ Len(imports[i].lines) \in Nat
        /\ DOMAIN run.lines = 1..Len(run.lines)
    <3>1. ServiceInv
      BY RunFacts
    <3>. QED  BY <2>2, <3>1, ImportFacts
  <2>4. PICK k \in 1..Len(run.lines) : run.lines[k] = r
    BY <2>1, <2>3 DEF Range
  <2>5. r \in Rows /\ r # <<>>
    BY RunFacts, ViewFacts
  <2>6. Front(copy) = r /\ Last(copy) = i /\ Len(copy) = Len(r) + 1 /\ Len(r) \in Nat \ {0}
    <3>1. Front(copy) = r /\ Last(copy) = i /\ Len(copy) = Len(r) + 1
      BY <2>3, <2>5, CopyOfRow
    <3>2. Len(r) \in Nat \ {0}
      BY RunFacts, ViewFacts
    <3>. QED  BY <3>1, <3>2
  <2>7. CASE k \in 1..imports[i].sent
    <3>1. copy \in Range(bView) /\ Len(copy) > 1
      BY <2>2, <2>4, <2>6, <2>7
    <3>2. copy \in Imported(bView)
      BY <3>1 DEF Imported
    <3>3. copy \in CopiesInTarget(r)
      BY <2>6, <3>2 DEF CopiesInTarget
    <3>. QED  BY <2>6, <3>3
  <2>8. CASE k \notin 1..imports[i].sent
    <3>1. k \in (imports[i].sent + 1)..Len(imports[i].lines) /\ copy = Append(imports[i].lines[k], i)
      BY <2>2, <2>3, <2>4, <2>8
    <3>2. copy \in Arriving(i)
      BY <3>1 DEF Arriving
    <3>3. copy \in CopiesInTarget(r)
      BY <2>2, <2>6, <3>2 DEF CopiesInTarget
    <3>. QED  BY <2>6, <3>3
  <2>. QED  BY <2>7, <2>8
<1>. QED  BY RecoveryInvariant, <1>1, PTL

-----------------------------------------------------------------------------
(* The sampled recovery. *)

LEMMA SourceFacts ==
    ASSUME NEW S, S \subseteq Source
    PROVE  /\ SourceSize \in Nat /\ IsFiniteSet(S) /\ S \subseteq Nat
           /\ \A m \in S : m \in Nat \ {0} /\ m <= SourceSize
<1>1. SourceSize \in Nat /\ Source = 1..SourceSize
  BY PipelineAssumption DEF Source
<1>2. IsFiniteSet(1..SourceSize)
  BY <1>1, FS_Interval
<1>3. IsFiniteSet(S)
  BY <1>1, <1>2, FS_Subset
<1>4. \A m \in S : m \in 1..SourceSize
  BY <1>1
<1>5. \A m \in S : m \in Nat \ {0} /\ m <= SourceSize
  BY <1>1, <1>4
<1>. QED  BY <1>1, <1>3, <1>5

LEMMA PipelineFacts ==
    ASSUME PipelineInv
    PROVE  /\ ServiceInv /\ command \in Commands
           /\ posted \in Nat /\ posted <= SourceSize /\ SourceSize \in Nat
           /\ present \subseteq 1..posted /\ 1..posted \subseteq Source
           /\ catalog \in Seq(0..posted) /\ archive \in Seq(0..posted)
           /\ Range(catalog) \subseteq 0..posted /\ Range(archive) \subseteq 0..posted
           /\ DOMAIN catalog = 1..Len(catalog) /\ Len(catalog) \in Nat
           /\ DOMAIN archive = 1..Len(archive) /\ Len(archive) \in Nat
           /\ sample.picked \subseteq sample.ids /\ sample.ids \subseteq 1..posted
           /\ command.recs \in Seq(Source) /\ Range(command.recs) \subseteq 1..posted
           /\ Len(command.recs) \in Nat
<1>1. /\ ServiceInv /\ command \in Commands /\ SourceSize \in Nat
      /\ posted \in 0..SourceSize /\ present \subseteq 1..posted
      /\ catalog \in Seq(0..posted) /\ archive \in Seq(0..posted)
      /\ sample.picked \subseteq sample.ids /\ sample.ids \subseteq 1..posted
      /\ command.recs \in Seq(Source) /\ Range(command.recs) \subseteq 1..posted
  BY PipelineAssumption DEF PipelineInv, PipelineTypeOK, ArchiveGuards
<1>2. 1..posted \subseteq Source
  BY <1>1 DEF Source
<1>3. /\ DOMAIN catalog = 1..Len(catalog) /\ Len(catalog) \in Nat
      /\ DOMAIN archive = 1..Len(archive) /\ Len(archive) \in Nat
      /\ Len(command.recs) \in Nat
  BY <1>1, LenProperties
<1>4. Range(catalog) \subseteq 0..posted /\ Range(archive) \subseteq 0..posted
  BY <1>1, <1>3, ElementOfSeq DEF Range
<1>. QED  BY <1>1, <1>2, <1>3, <1>4

\* The numbers of a set, newest first.
LEMMA NewestFirstList ==
    ASSUME NEW S, S \subseteq Source
    PROVE  /\ NewestFirst(S) \in Seq(S) /\ Range(NewestFirst(S)) = S
           /\ IsInjective(NewestFirst(S))
           /\ \A j, k \in 1..Len(NewestFirst(S)) :
                 j < k => NewestFirst(S)[k] < NewestFirst(S)[j]
<1>. DEFINE up == Ascending(S)
            n == Cardinality(S)
<1>1. S \subseteq Nat /\ IsFiniteSet(S)
  BY SourceFacts
<1>2. /\ n \in Nat /\ up \in Seq(S) /\ Len(up) = n /\ Range(up) = S /\ IsInjective(up)
      /\ \A i, j \in 1..n : i < j => up[i] < up[j]
  BY <1>1, AscendingOrder, AscendingList
<1>. HIDE DEF up, n
<1>3. /\ Reverse(up) \in Seq(S) /\ Len(Reverse(up)) = n /\ Range(Reverse(up)) = S
      /\ IsInjective(Reverse(up))
  BY <1>2, ReversedSequence
<1>4. \A k \in 1..n : Reverse(up)[k] = up[(n - k) + 1] /\ (n - k) + 1 \in 1..n
  BY <1>2 DEF Reverse
<1>5. \A j, k \in 1..n : j < k => Reverse(up)[k] < Reverse(up)[j]
  <2>1. \A j, k \in 1..n : j < k => (n - k) + 1 < (n - j) + 1
    BY <1>2
  <2>. QED  BY <1>2, <1>4, <2>1
<1>6. NewestFirst(S) = Reverse(up)
  BY DEF NewestFirst, up
<1>. QED  BY <1>3, <1>5, <1>6

\* A page of the source chat leaves out none of those that are newer than the
\* last one in it.
LEMMA PageOfSource ==
    ASSUME NEW at, present \subseteq Source
    PROVE  /\ PageBelow(at) \in Seq(Source)
           /\ Range(PageBelow(at)) \subseteq {m \in present : m < at}
           /\ PageBelow(at) = <<>> => {m \in present : m < at} = {}
           /\ PageBelow(at) # <<>> =>
                 /\ Last(PageBelow(at)) \in Range(PageBelow(at))
                 /\ \A m \in present : m < at => m \in Range(PageBelow(at)) \/ m < Last(PageBelow(at))
<1>. DEFINE S == {m \in present : m < at}
            older == NewestFirst(S)
            n == IF ScanBatch < SourcePage THEN ScanBatch ELSE SourcePage
            page == PageBelow(at)
<1>1. S \subseteq Source /\ n \in Nat \ {0}
  BY PipelineAssumption
<1>. HIDE DEF n, S
<1>2. /\ older \in Seq(S) /\ Range(older) = S
      /\ \A j, k \in 1..Len(older) : j < k => older[k] < older[j]
  BY <1>1, NewestFirstList
<1>. HIDE DEF older
<1>3. DOMAIN older = 1..Len(older) /\ Len(older) \in Nat
  BY <1>2, LenProperties
<1>4. page = IF Len(older) <= n THEN older ELSE SubSeq(older, 1, n)
  BY DEF PageBelow, older, n, S
<1>. HIDE DEF page
<1>5. PICK len \in Nat : /\ len <= Len(older) /\ (len = 0 => older = <<>>)
                         /\ page \in Seq(S) /\ Len(page) = len
                         /\ \A k \in 1..len : page[k] = older[k]
  <2>1. CASE Len(older) <= n
    <3>1. page = older /\ (Len(older) = 0 => older = <<>>)
      BY <1>2, <1>4, <2>1, EmptySeq
    <3>2. /\ Len(older) \in Nat /\ Len(older) <= Len(older)
          /\ page \in Seq(S) /\ Len(page) = Len(older)
          /\ \A k \in 1..Len(older) : page[k] = older[k]
      BY <1>2, <1>3, <3>1
    <3>. QED  BY <3>1, <3>2
  <2>2. CASE ~(Len(older) <= n)
    <3>1. page = SubSeq(older, 1, n) /\ n <= Len(older) /\ n - 1 + 1 = n /\ 1 <= n + 1
      BY <1>1, <1>3, <1>4, <2>2
    <3>2. /\ SubSeq(older, 1, n) \in Seq(S) /\ Len(SubSeq(older, 1, n)) = n - 1 + 1
          /\ \A k \in 1..(n - 1 + 1) : SubSeq(older, 1, n)[k] = older[1 + k - 1]
      BY <1>1, <1>2, <3>1, SliceOfSequence
    <3>3. \A k \in 1..n : 1 + k - 1 = k
      BY <1>1
    <3>. QED  BY <1>1, <3>1, <3>2, <3>3
  <2>. QED  BY <2>1, <2>2
<1>6. DOMAIN page = 1..len
  BY <1>5, LenProperties
<1>7. page \in Seq(Source) /\ Range(page) \subseteq S
  <2>1. \A k \in 1..len : page[k] \in S
    BY <1>5, ElementOfSeq
  <2>2. page \in [1..len -> Source]
    BY <1>1, <1>5, <1>6, <2>1, LenProperties
  <2>. QED  BY <1>5, <1>6, <2>1, <2>2, IsASeq DEF Range
<1>8. page = <<>> => S = {}
  <2>1. page = <<>> => len = 0
    BY <1>5
  <2>2. older = <<>> => Range(older) = {}
    BY DEF Range
  <2>. QED  BY <1>2, <1>5, <2>1, <2>2
<1>9. ASSUME page # <<>>
      PROVE  /\ Last(page) \in Range(page)
             /\ \A m \in S : m \in Range(page) \/ m < Last(page)
  <2>1. len \in 1..Len(older) /\ Last(page) = page[len]
    <3>1. len # 0
      BY <1>5, <1>9, EmptySeq
    <3>. QED  BY <1>3, <1>5, <3>1 DEF Last
  <2>2. Last(page) \in Range(page) /\ Last(page) = older[len]
    BY <1>5, <1>6, <2>1 DEF Range
  <2>3. ASSUME NEW m \in S PROVE m \in Range(page) \/ m < Last(page)
    <3>1. PICK k \in 1..Len(older) : older[k] = m
      BY <1>2, <1>3 DEF Range
    <3>2. CASE k <= len
      <4>1. k \in 1..len /\ page[k] = m
        BY <1>5, <3>1, <3>2
      <4>. QED  BY <1>6, <4>1 DEF Range
    <3>3. CASE len < k
      <4>1. older[k] < older[len]
        BY <1>2, <2>1, <3>3
      <4>. QED  BY <2>2, <3>1, <4>1
    <3>. QED  BY <1>5, <3>2, <3>3
  <2>. QED  BY <2>2, <2>3
<1>10. \A m \in present : m < at => m \in S
  BY DEF S
<1>. QED  BY <1>7, <1>8, <1>9, <1>10 DEF page, S

\* The archive and the imports stay as they are, and no command is at work on
\* them.
LEMMA ArchiveIdle ==
    ASSUME PipelineInv, UNCHANGED serviceVars, archive' = archive,
           command'.step \in {"none", "scan", "pick", "fetch"},
           Range(command'.recs) \subseteq 1..posted'
    PROVE  ServiceInv' /\ ImportIds' = ImportIds /\ ArchiveGuards' /\ OneLoaded'
<1>1. ServiceInv' /\ ImportIds' = ImportIds /\ imports' = imports /\ aView' = aView
  BY PipelineFacts, ServiceStays
<1>2. Loaded' = Loaded
  BY <1>1 DEF Loaded
<1>3. OneLoaded'
  BY <1>1, <1>2 DEF PipelineInv, OneLoaded, Written
<1>4. ArchiveGuards'
  BY <1>2 DEF PipelineInv, ArchiveGuards, Goes
<1>. QED  BY <1>1, <1>3, <1>4

\* The source, the catalog and the sample stay as they are, and no command is
\* at work on them.
LEMMA CatalogIdle ==
    ASSUME PipelineInv, UNCHANGED <<posted, present, catalog, sample, rescanned>>,
           command'.step \notin {"scan", "pick"}
    PROVE  ScanCovers' /\ CatalogWhole' /\ NoneTwice' /\ ParentsSampled'
  BY DEF PipelineInv, ScanCovers, CatalogWhole, NoneTwice, ParentsSampled, Goes

\* A new command, or none.
LEMMA NoCommandTypes ==
    /\ NoCommand \in Commands /\ NoCommand.step = "none" /\ NoCommand.base = 0
    /\ NoCommand.seen = {} /\ NoCommand.recs = <<>> /\ NoCommand.import = 0
    /\ Range(NoCommand.recs) = {}
<1>1. /\ {} \in SUBSET Source /\ <<>> \in Seq(Source) /\ 0 \in 0..(SourceSize + 1)
  BY PipelineAssumption
<1>2. NoCommand \in Commands
  BY <1>1 DEF NoCommand, Commands, CommandSteps
<1>. QED  BY <1>2 DEF NoCommand, Range

LEMMA CommandFacts ==
    ASSUME PipelineInv
    PROVE  /\ command.step \in CommandSteps /\ command.seen \subseteq Source
           /\ command.base \in Nat /\ command.base <= Len(catalog)
           /\ command.at \in 0..(SourceSize + 1)
           /\ command.wanted \subseteq Source /\ command.files \subseteq Source
           /\ command.torn \subseteq Source /\ command.lines \in Seq(Source)
           /\ command.rows \in Nat /\ command.import \in Nat
           /\ command.import \in {0} \cup ImportIds /\ commands \in 0..MaxCommands
           /\ parts \subseteq Source
  BY DEF PipelineInv, PipelineTypeOK, Commands

LEMMA SampleStarts ==
    ASSUME PipelineInv, StartSample
    PROVE  PipelineInv'
<1>1. PICK resume \in BOOLEAN :
         /\ rescanned' = (rescanned \/ ~resume)
         /\ command' = [NoCommand EXCEPT !.step = "scan", !.base = Len(catalog),
                            !.at = SourceSize + 1, !.wanted = present,
                            !.seen = IF resume THEN Range(catalog) \ {Torn} ELSE {}]
  BY DEF StartSample
<1>2. /\ commands < MaxCommands /\ commands' = commands + 1 /\ UNCHANGED serviceVars
      /\ posted' = posted /\ present' = present /\ catalog' = catalog /\ sample' = sample
      /\ archive' = archive /\ parts' = parts
  BY DEF StartSample, dirVars
<1>. DEFINE seen == IF resume THEN Range(catalog) \ {Torn} ELSE {}
<1>3. /\ seen \subseteq 1..posted /\ present \subseteq 1..posted /\ 1..posted \subseteq Source
      /\ Len(catalog) \in Nat /\ SourceSize + 1 \in 0..(SourceSize + 1)
      /\ \A m \in 1..posted : ~(SourceSize + 1 <= m)
  <2>1. \A m \in (0..posted) \ {0} : m \in 1..posted
    BY PipelineFacts
  <2>2. seen \subseteq 1..posted
    BY <2>1, PipelineFacts DEF Torn
  <2>. QED  BY <2>2, PipelineFacts
<1>4. /\ command' \in Commands /\ command'.step = "scan" /\ command'.base = Len(catalog)
      /\ command'.at = SourceSize + 1 /\ command'.wanted = present /\ command'.seen = seen
      /\ command'.recs = <<>> /\ command'.import = 0
  <2>1. seen \in SUBSET Source /\ present \in SUBSET Source
    BY <1>3
  <2>. HIDE DEF seen
  <2>2. command' = [NoCommand EXCEPT !.step = "scan", !.base = Len(catalog),
                            !.at = SourceSize + 1, !.wanted = present, !.seen = seen]
    BY <1>1 DEF seen
  <2>. QED  BY <1>3, <2>1, <2>2, NoCommandTypes DEF Commands, CommandSteps
<1>5. /\ ServiceInv' /\ ImportIds' = ImportIds /\ ArchiveGuards' /\ OneLoaded'
  <2>1. Range(command'.recs) = {}
    BY <1>4 DEF Range
  <2>. QED  BY <1>2, <1>4, <2>1, ArchiveIdle
<1>6. ScanCovers'
  <2>1. seen \subseteq Range(catalog) \ {Torn}
    OBVIOUS
  <2>2. ~rescanned' => Range(catalog) \ {Torn} = seen
    BY <1>1
  <2>. HIDE DEF seen
  <2>3. /\ command'.seen \subseteq Range(catalog') \ {Torn}
        /\ ~rescanned' => Range(catalog') \ {Torn} = command'.seen
        /\ command'.wanted \subseteq 1..posted'
    BY <1>2, <1>3, <1>4, <2>1, <2>2
  <2>4. \A m \in present' : ~(command'.at <= m)
    BY <1>2, <1>3, <1>4
  <2>. QED  BY <2>3, <2>4 DEF ScanCovers
<1>7. CatalogWhole'
  BY <1>4 DEF CatalogWhole, Goes
<1>8. NoneTwice'
  BY <1>1, <1>2 DEF PipelineInv, NoneTwice
<1>9. ParentsSampled'
  BY <1>2 DEF PipelineInv, ParentsSampled
<1>10. PipelineTypeOK'
  <2>1. commands' \in 0..MaxCommands
    BY <1>2, CommandFacts, PipelineAssumption
  <2>. HIDE DEF seen
  <2>2. command'.seen \subseteq Source
    BY <1>3, <1>4
  <2>. QED  BY <1>2, <1>3, <1>4, <1>5, <2>1, <2>2
        DEF PipelineInv, PipelineTypeOK, ServiceInv, CommandSteps
<1>. QED  BY <1>4, <1>5, <1>6, <1>7, <1>8, <1>9, <1>10 DEF PipelineInv

\* A page that is catalogued: nothing twice, and nothing skipped.
LEMMA ScanPreserves ==
    ASSUME PipelineInv, ScanPage
    PROVE  PipelineInv'
<1>. DEFINE page == PageBelow(command.at)
            fresh == Range(page) \ command.seen
            new == NewestFirst(fresh)
            at == IF page = <<>> THEN command.at ELSE Last(page)
            step == IF page = <<>> THEN "pick" ELSE "scan"
            older == {m \in present : m < command.at}
            seen == command.seen \cup Range(page)
<1>1. /\ command.step = "scan" /\ catalog' = catalog \o new
      /\ command' = [command EXCEPT !.seen = seen, !.at = at, !.step = step]
      /\ UNCHANGED serviceVars
      /\ posted' = posted /\ present' = present /\ sample' = sample /\ archive' = archive
      /\ parts' = parts /\ commands' = commands /\ rescanned' = rescanned
  BY DEF ScanPage, Catalogued, Goes
<1>2. /\ page \in Seq(Source) /\ Range(page) \subseteq older
      /\ page = <<>> => older = {}
      /\ page # <<>> => /\ Last(page) \in Range(page)
                        /\ \A m \in older : m \in Range(page) \/ m < Last(page)
  <2>1. present \subseteq Source
    BY PipelineFacts
  <2>. QED  BY <2>1, PageOfSource
<1>3. /\ older \subseteq 1..posted /\ 1..posted \subseteq Source /\ SourceSize \in Nat
      /\ \A m \in present : m \in Nat /\ ~(m < 1) /\ m <= SourceSize
  BY PipelineFacts
<1>4. fresh \subseteq Source /\ fresh \subseteq 1..posted
  BY <1>2, <1>3
<1>. HIDE DEF page, fresh
<1>5. /\ new \in Seq(fresh) /\ Range(new) = fresh /\ IsInjective(new)
  BY <1>4, NewestFirstList
<1>6. new \in Seq(0..posted)
  <2>1. fresh \subseteq 0..posted
    BY <1>4, PipelineFacts
  <2>. HIDE DEF new
  <2>. QED  BY <1>5, <2>1, SequenceOver
<1>7. /\ catalog' \in Seq(0..posted) /\ Len(catalog') = Len(catalog) + Len(new)
      /\ Range(catalog') = Range(catalog) \cup fresh
      /\ \A k \in 1..Len(catalog) : catalog'[k] = catalog[k]
      /\ \A k \in 1..Len(new) : catalog'[Len(catalog) + k] = new[k]
      /\ Len(new) \in Nat /\ DOMAIN new = 1..Len(new)
      /\ DOMAIN catalog' = 1..(Len(catalog) + Len(new))
  <2>1. catalog \in Seq(0..posted)
    BY PipelineFacts
  <2>. HIDE DEF new
  <2>2. /\ catalog \o new \in Seq(0..posted) /\ Len(catalog \o new) = Len(catalog) + Len(new)
        /\ Range(catalog \o new) = Range(catalog) \cup Range(new)
        /\ \A k \in 1..Len(catalog) : (catalog \o new)[k] = catalog[k]
        /\ \A k \in 1..Len(new) : (catalog \o new)[Len(catalog) + k] = new[k]
    BY <1>6, <2>1, JoinedSequences
  <2>3. Len(new) \in Nat /\ DOMAIN new = 1..Len(new)
        /\ DOMAIN (catalog \o new) = 1..(Len(catalog) + Len(new))
    BY <1>6, <2>2, LenProperties
  <2>. QED  BY <1>1, <1>5, <2>2, <2>3
<1>8. /\ at \in 0..(SourceSize + 1) /\ seen \subseteq Source /\ step \in {"scan", "pick"}
  <2>1. page # <<>> => Last(page) \in 1..SourceSize
    BY <1>2, <1>3 DEF Source
  <2>2. 1..SourceSize \subseteq 0..(SourceSize + 1)
    BY <1>3
  <2>. QED  BY <1>2, <1>3, <2>1, <2>2, CommandFacts
<1>. HIDE DEF new, at, step
<1>9. /\ command' \in Commands /\ command'.step = step /\ command'.base = command.base
      /\ command'.at = at /\ command'.wanted = command.wanted /\ command'.seen = seen
      /\ command'.recs = command.recs /\ command'.import = command.import
  <2>1. command \in Commands
    BY PipelineFacts
  <2>. HIDE DEF seen
  <2>. QED  BY <1>1, <1>8, <2>1 DEF Commands, CommandSteps
<1>10. /\ ServiceInv' /\ ImportIds' = ImportIds /\ ArchiveGuards' /\ OneLoaded'
  BY <1>1, <1>8, <1>9, PipelineFacts, ArchiveIdle
<1>11. /\ command.seen \subseteq Range(catalog) \ {Torn}
       /\ ~rescanned => Range(catalog) \ {Torn} = command.seen
       /\ command.wanted \subseteq 1..posted
       /\ \A m \in command.wanted \cap present : command.at <= m => m \in command.seen
       /\ \A m \in present, i \in Range(catalog) :
             command.at <= m /\ m < i => m \in Range(catalog)
  BY <1>1 DEF PipelineInv, ScanCovers, Goes
<1>12. /\ seen \subseteq Range(catalog') \ {Torn}
       /\ ~rescanned => Range(catalog') \ {Torn} = seen
  <2>1. Torn \notin Range(page)
    BY <1>2, <1>3 DEF Torn
  <2>. QED  BY <1>7, <1>11, <2>1 DEF fresh
<1>13. \A m \in present : at <= m => command.at <= m \/ m \in Range(page)
  <2>. SUFFICES ASSUME NEW m \in present, at <= m, ~(command.at <= m) PROVE m \in Range(page)
    OBVIOUS
  <2>1. m \in Nat /\ command.at \in Nat
    BY <1>3, CommandFacts
  <2>2. m \in older
    BY <2>1
  <2>3. page # <<>>
    BY <1>2, <2>2
  <2>4. at = Last(page) /\ Last(page) \in Nat
    BY <1>2, <1>3, <2>3 DEF at
  <2>5. ~(m < Last(page))
    BY <2>1, <2>4
  <2>. QED  BY <1>2, <2>2, <2>3, <2>5
<1>14. \A m \in command.wanted \cap present : at <= m => m \in seen
  BY <1>11, <1>13
<1>15. \A m \in present, i \in Range(catalog') : at <= m /\ m < i => m \in Range(catalog')
  <2>. SUFFICES ASSUME NEW m \in present, NEW i \in Range(catalog'), at <= m, m < i
                PROVE  m \in Range(catalog')
    OBVIOUS
  <2>1. CASE m \in Range(page)
    BY <1>12, <2>1
  <2>2. CASE m \notin Range(page)
    <3>1. command.at <= m
      BY <1>13, <2>2
    <3>2. i \notin Range(page)
      <4>1. i \in Range(page) => i \in Nat /\ i < command.at
        BY <1>2, <1>3
      <4>. QED  BY <1>3, <3>1, <4>1, CommandFacts
    <3>3. i \in Range(catalog)
      BY <1>7, <3>2 DEF fresh
    <3>. QED  BY <1>7, <1>11, <3>1, <3>3
  <2>. QED  BY <2>1, <2>2
<1>16. ScanCovers'
  BY <1>1, <1>9, <1>11, <1>12, <1>14, <1>15 DEF ScanCovers
<1>17. CatalogWhole'
  <2>. SUFFICES ASSUME step = "pick" PROVE CatalogWhole'
    BY <1>9 DEF CatalogWhole, Goes
  <2>1. \A m \in present : at <= m
    <3>1. page = <<>> /\ older = {} /\ at = command.at
      BY <1>2 DEF step, at
    <3>. QED  BY <1>3, <3>1, CommandFacts
  <2>. QED  BY <1>1, <1>9, <1>11, <1>12, <1>14, <1>15, <2>1 DEF CatalogWhole
<1>18. NoneTwice'
  <2>. SUFFICES ASSUME ~rescanned, NEW j \in DOMAIN catalog', NEW k \in DOMAIN catalog',
                       catalog'[j] = catalog'[k], catalog'[j] # Torn
                PROVE  j = k
    BY <1>1 DEF NoneTwice
  <2>0. Len(catalog) \in Nat /\ DOMAIN catalog = 1..Len(catalog)
    BY PipelineFacts
  <2>1. \A i \in DOMAIN catalog' : \/ i \in 1..Len(catalog)
                                   \/ i - Len(catalog) \in 1..Len(new)
                                      /\ Len(catalog) + (i - Len(catalog)) = i
    BY <1>7, <2>0
  <2>2. \A i \in 1..Len(catalog) : catalog'[i] = catalog[i] /\ catalog'[i] \notin fresh \ {Torn}
    <3>1. Range(catalog) \ {Torn} = command.seen
      BY <1>11
    <3>. QED  BY <1>7, <2>0, <3>1 DEF fresh, Range
  <2>3. \A i \in 1..Len(new) : catalog'[Len(catalog) + i] = new[i] /\ new[i] \in fresh
    BY <1>5, <1>7 DEF Range
  <2>4. CASE j \in 1..Len(catalog) /\ k \in 1..Len(catalog)
    BY <2>0, <2>2, <2>4 DEF PipelineInv, NoneTwice
  <2>5. CASE j \in 1..Len(catalog) /\ k - Len(catalog) \in 1..Len(new)
                                   /\ Len(catalog) + (k - Len(catalog)) = k
    <3>1. catalog'[k] \in fresh
      BY <2>3, <2>5
    <3>. QED  BY <2>2, <2>5, <3>1
  <2>6. CASE k \in 1..Len(catalog) /\ j - Len(catalog) \in 1..Len(new)
                                   /\ Len(catalog) + (j - Len(catalog)) = j
    <3>1. catalog'[j] \in fresh
      BY <2>3, <2>6
    <3>. QED  BY <2>2, <2>6, <3>1
  <2>7. CASE /\ j - Len(catalog) \in 1..Len(new) /\ Len(catalog) + (j - Len(catalog)) = j
             /\ k - Len(catalog) \in 1..Len(new) /\ Len(catalog) + (k - Len(catalog)) = k
    <3>1. new[j - Len(catalog)] = new[k - Len(catalog)]
      BY <2>3, <2>7
    <3>2. j - Len(catalog) = k - Len(catalog)
      BY <1>5, <1>7, <2>7, <3>1 DEF IsInjective
    <3>. QED  BY <2>7, <3>2
  <2>. QED  BY <2>1, <2>4, <2>5, <2>6, <2>7
<1>19. ParentsSampled'
  <2>1. present \cup Range(catalog') = present \cup Range(catalog)
    BY <1>2, <1>7 DEF fresh
  <2>. QED  BY <1>1, <2>1 DEF PipelineInv, ParentsSampled
<1>20. PipelineTypeOK'
  <2>1. command.base <= Len(catalog')
    <3>1. Len(catalog) \in Nat
      BY PipelineFacts
    <3>. QED  BY <1>7, <3>1, CommandFacts
  <2>2. step \in CommandSteps
    BY <1>8 DEF CommandSteps
  <2>3. /\ posted' \in 0..SourceSize /\ present' \subseteq 1..posted'
        /\ catalog' \in Seq(0..posted') /\ archive' \in Seq(0..posted')
        /\ sample'.picked \subseteq sample'.ids /\ sample'.ids \subseteq 1..posted'
        /\ parts' \subseteq Source /\ commands' \in 0..MaxCommands
    BY <1>1, <1>7 DEF PipelineInv, PipelineTypeOK
  <2>4. /\ command'.step \in CommandSteps /\ command'.seen \subseteq Source
        /\ command'.base <= Len(catalog') /\ command'.recs \in Seq(Source)
        /\ command'.import \in {0} \cup ImportIds'
    <3>. HIDE DEF seen
    <3>. QED  BY <1>8, <1>9, <1>10, <2>1, <2>2, CommandFacts, PipelineFacts
  <2>. QED  BY <1>10, <2>3, <2>4 DEF PipelineTypeOK, ServiceInv
<1>. QED  BY <1>9, <1>10, <1>16, <1>17, <1>18, <1>19, <1>20 DEF PipelineInv

LEMMA PickPreserves ==
    ASSUME PipelineInv, PickSample
    PROVE  PipelineInv'
<1>1. /\ command.step = "pick" /\ command' = NoCommand /\ UNCHANGED serviceVars
      /\ posted' = posted /\ present' = present /\ catalog' = catalog /\ archive' = archive
      /\ parts' = parts /\ commands' = commands /\ rescanned' = rescanned
  BY DEF PickSample, Goes
<1>2. /\ ServiceInv' /\ ImportIds' = ImportIds /\ ArchiveGuards' /\ OneLoaded'
  BY <1>1, NoCommandTypes, ArchiveIdle
<1>3. /\ ParentsSampled'
      /\ sample'.picked \subseteq sample'.ids /\ sample'.ids \subseteq 1..posted
  <2>1. CASE sample' = sample
    BY <1>1, <2>1, PipelineFacts DEF PipelineInv, ParentsSampled
  <2>2. CASE sample' # sample
    <3>1. PICK picked \in SUBSET Range(catalog) : sample' = Sampled(picked)
      BY <2>2 DEF PickSample
    <3>2. Torn \notin Range(catalog)
      BY <2>2 DEF PickSample
    <3>3. Range(catalog) \subseteq 1..posted
      BY <3>2, PipelineFacts DEF Torn
    <3>4. /\ sample'.picked = picked
          /\ sample'.ids = picked \cup Mates(picked) \cup Parents(picked)
      BY <3>1 DEF Sampled, Closed
    <3>5. sample'.ids \subseteq Range(catalog)
      BY <3>4 DEF Mates, Parents
    <3>6. ASSUME NEW i \in picked, ReplyTo[i] \in present \cup Range(catalog), ReplyTo[i] # 0
          PROVE  ReplyTo[i] \in sample'.ids
      <4>1. i \in Source /\ i \in Nat /\ ReplyTo[i] \in Nat /\ ReplyTo[i] < i
        <5>1. i \in 1..posted /\ i \in Source
          BY <3>3, PipelineFacts
        <5>2. ReplyTo[i] \in 0..(i - 1)
          BY <5>1, PipelineAssumption
        <5>. QED  BY <5>1, <5>2
      <4>2. ReplyTo[i] \in Range(catalog)
        BY <1>1, <3>6, <4>1 DEF PipelineInv, CatalogWhole, Goes
      <4>3. ReplyTo[i] \in Parents(picked)
        BY <3>6, <4>2 DEF Parents, Torn
      <4>. QED  BY <3>4, <4>3
    <3>7. ParentsSampled'
      BY <1>1, <3>4, <3>6 DEF ParentsSampled
    <3>. QED  BY <3>3, <3>4, <3>5, <3>7
  <2>. QED  BY <2>1, <2>2
<1>4. ScanCovers' /\ CatalogWhole'
  BY <1>1, NoCommandTypes DEF ScanCovers, CatalogWhole, Goes
<1>5. NoneTwice'
  BY <1>1 DEF PipelineInv, NoneTwice
<1>6. PipelineTypeOK'
  <2>1. 0 <= Len(catalog) /\ <<>> \in Seq(Source)
    BY PipelineFacts
  <2>. QED  BY <1>1, <1>2, <1>3, <2>1, NoCommandTypes
        DEF PipelineInv, PipelineTypeOK, ServiceInv, CommandSteps
<1>. QED  BY <1>1, <1>2, <1>3, <1>4, <1>5, <1>6, NoCommandTypes DEF PipelineInv

\* A command that ends, or begins, and touches nothing.
EndsOrBegins == \/ command' = NoCommand
                \/ \E confirm \in BOOLEAN :
                      command' = [NoCommand EXCEPT !.step = "fetch", !.confirm = confirm]
LEMMA CommandIdle ==
    ASSUME PipelineInv, UNCHANGED <<serviceVars, posted, present, dirVars, rescanned>>,
           EndsOrBegins, commands' \in 0..MaxCommands
    PROVE  PipelineInv'
<1>1. /\ posted' = posted /\ present' = present /\ catalog' = catalog /\ sample' = sample
      /\ archive' = archive /\ parts' = parts /\ rescanned' = rescanned
      /\ UNCHANGED serviceVars
  BY DEF dirVars
<1>2. /\ command' \in Commands /\ command'.step \in {"none", "fetch"} /\ command'.base = 0
      /\ command'.seen = {} /\ command'.recs = <<>> /\ command'.import = 0
      /\ Range(command'.recs) = {}
  <2>1. CASE command' = NoCommand
    BY <2>1, NoCommandTypes
  <2>2. CASE command' # NoCommand
    <3>1. PICK confirm \in BOOLEAN :
             command' = [NoCommand EXCEPT !.step = "fetch", !.confirm = confirm]
      BY <2>2 DEF EndsOrBegins
    <3>2. /\ command' \in Commands /\ command'.step = "fetch" /\ command'.base = 0
          /\ command'.seen = {} /\ command'.recs = <<>> /\ command'.import = 0
      BY <3>1, NoCommandTypes DEF Commands, CommandSteps
    <3>3. Range(command'.recs) = {}
      BY <3>2 DEF Range
    <3>. QED  BY <3>2, <3>3
  <2>. QED  BY <2>1, <2>2
<1>3. /\ ServiceInv' /\ ImportIds' = ImportIds /\ ArchiveGuards' /\ OneLoaded'
  BY <1>1, <1>2, ArchiveIdle
<1>4. ScanCovers' /\ CatalogWhole' /\ NoneTwice' /\ ParentsSampled'
  BY <1>1, <1>2, CatalogIdle
<1>5. PipelineTypeOK'
  <2>1. 0 <= Len(catalog) /\ <<>> \in Seq(Source)
    BY PipelineFacts
  <2>. QED  BY <1>1, <1>2, <1>3, <2>1
        DEF PipelineInv, PipelineTypeOK, ServiceInv, CommandSteps
<1>. QED  BY <1>2, <1>3, <1>4, <1>5 DEF PipelineInv

LEMMA StartRecoverPreserves ==
    ASSUME PipelineInv, StartRecover \/ ReportSample
    PROVE  PipelineInv'
<1>1. commands' \in 0..MaxCommands
  <2>1. commands \in 0..MaxCommands /\ MaxCommands \in Nat
    BY CommandFacts, PipelineAssumption
  <2>2. commands' = commands \/ (commands < MaxCommands /\ commands' = commands + 1)
    BY DEF StartRecover, ReportSample
  <2>. QED  BY <2>1, <2>2
<1>2. EndsOrBegins
  BY DEF StartRecover, ReportSample, EndsOrBegins
<1>. QED  BY <1>1, <1>2, CommandIdle DEF StartRecover, ReportSample

\* The final ids are ids of the source chat.
LEMMA FinalInSource ==
    ASSUME PipelineInv
    PROVE  FinalIds \subseteq 1..posted
<1>1. \A m \in Range(catalog) \ {Torn} : m \in 1..posted
  <2>1. \A m \in (0..posted) \ {0} : m \in 1..posted
    BY PipelineFacts
  <2>. QED  BY <2>1, PipelineFacts DEF Torn
<1>2. Mates(sample.ids) \subseteq 1..posted /\ Parents(sample.ids) \subseteq 1..posted
  BY <1>1 DEF Mates, Parents
<1>. QED  BY <1>2, PipelineFacts DEF FinalIds, Closed

LEMMA FetchPreserves ==
    ASSUME PipelineInv, FetchRecords
    PROVE  PipelineInv'
<1>. DEFINE ids == FetchedIds(FinalIds)
            recs == Ascending(ids)
<1>1. PICK media \in Downloads(ids \cap MediaOnly) :
         /\ command' = [command EXCEPT !.step = "append", !.files = media.done,
                            !.recs = recs, !.torn = media.done \cap parts]
         /\ parts' = (parts \ media.done) \cup media.left
  BY DEF FetchRecords
<1>2. /\ command.step = "fetch" /\ UNCHANGED serviceVars
      /\ posted' = posted /\ present' = present /\ catalog' = catalog /\ sample' = sample
      /\ archive' = archive /\ commands' = commands /\ rescanned' = rescanned
  BY DEF FetchRecords, Goes
<1>3. ids \subseteq 1..posted /\ 1..posted \subseteq Source
  BY FinalInSource, PipelineFacts DEF FetchedIds
<1>4. recs \in Seq(ids) /\ Range(recs) = ids /\ IsInjective(recs)
  <2>1. ids \subseteq Source
    BY <1>3
  <2>2. ids \subseteq Nat /\ IsFiniteSet(ids)
    BY <2>1, SourceFacts
  <2>. QED  BY <2>2, AscendingList
<1>5. media.done \subseteq ids /\ media.left \subseteq ids
  BY DEF Downloads
<1>. HIDE DEF ids, recs
<1>6. recs \in Seq(Source)
  BY <1>3, <1>4, SequenceOver
<1>7. /\ command' \in Commands /\ command'.step = "append" /\ command'.base = command.base
      /\ command'.seen = command.seen /\ command'.recs = recs
      /\ command'.import = command.import
  <2>1. media.done \in SUBSET Source /\ media.done \cap parts \in SUBSET Source
    BY <1>3, <1>5
  <2>. QED  BY <1>1, <1>6, <2>1, PipelineFacts DEF Commands, CommandSteps
<1>8. /\ ServiceInv' /\ ImportIds' = ImportIds /\ imports' = imports /\ aView' = aView
  BY <1>2, PipelineFacts, ServiceStays
<1>9. Loaded' = Loaded
  BY <1>8 DEF Loaded
<1>10. OneLoaded'
  BY <1>8, <1>9 DEF PipelineInv, OneLoaded, Written
<1>11. ArchiveGuards'
  BY <1>2, <1>3, <1>4, <1>7, <1>9 DEF PipelineInv, ArchiveGuards, Goes
<1>12. ScanCovers' /\ CatalogWhole' /\ NoneTwice' /\ ParentsSampled'
  BY <1>2, <1>7, CatalogIdle
<1>13. PipelineTypeOK'
  <2>1. parts' \subseteq Source
    BY <1>1, <1>3, <1>5, CommandFacts
  <2>. QED  BY <1>2, <1>6, <1>7, <1>8, <2>1, CommandFacts
        DEF PipelineInv, PipelineTypeOK, ServiceInv, CommandSteps
<1>. QED  BY <1>7, <1>8, <1>10, <1>11, <1>12, <1>13 DEF PipelineInv

LEMMA AppendPreserves ==
    ASSUME PipelineInv, AppendRecords
    PROVE  PipelineInv'
<1>1. /\ command.step = "append" /\ UNCHANGED serviceVars
      /\ archive' = archive \o command.recs
      /\ command' = [command EXCEPT !.step = "package"]
      /\ posted' = posted /\ present' = present /\ catalog' = catalog /\ sample' = sample
      /\ parts' = parts /\ commands' = commands /\ rescanned' = rescanned
  BY DEF AppendRecords, ArchiveWith, Goes
<1>2. command.recs \in Seq(0..posted)
  <2>1. Range(command.recs) \subseteq 0..posted
    BY PipelineFacts
  <2>. QED  BY <2>1, PipelineFacts, SequenceOver
<1>3. /\ archive' \in Seq(0..posted) /\ Len(archive') = Len(archive) + Len(command.recs)
  BY <1>1, <1>2, PipelineFacts, JoinedSequences
<1>4. /\ command' \in Commands /\ command'.step = "package" /\ command'.base = command.base
      /\ command'.seen = command.seen /\ command'.recs = command.recs
      /\ command'.import = command.import
  BY <1>1, PipelineFacts DEF Commands, CommandSteps
<1>5. /\ ServiceInv' /\ ImportIds' = ImportIds /\ imports' = imports /\ aView' = aView
  BY <1>1, PipelineFacts, ServiceStays
<1>6. Loaded' = Loaded
  BY <1>5 DEF Loaded
<1>7. OneLoaded'
  BY <1>5, <1>6 DEF PipelineInv, OneLoaded, Written
<1>8. /\ Len(command.recs) <= Len(archive')
      /\ Loaded # {} => Len(command.recs) < Len(archive') /\ archive' # <<>>
      /\ Len(command.recs) = Len(archive') => archive' = command.recs
  <2>1. Len(archive) \in Nat /\ Len(command.recs) \in Nat
    BY PipelineFacts
  <2>2. Loaded # {} => Len(archive) # 0
    BY PipelineFacts, EmptySeq DEF PipelineInv, ArchiveGuards
  <2>3. archive' = <<>> => Len(archive') = 0
    OBVIOUS
  <2>4. Len(archive) = 0 => archive' = command.recs
    <3>1. Len(archive) = 0 => archive = <<>>
      BY PipelineFacts, EmptySeq
    <3>2. <<>> \o command.recs = command.recs
      BY PipelineFacts
    <3>. QED  BY <1>1, <3>1, <3>2
  <2>. QED  BY <1>3, <2>1, <2>2, <2>3, <2>4
<1>9. ArchiveGuards'
  <2>1. IsInjective(command.recs) /\ Range(command.recs) \subseteq 1..posted
    BY <1>1 DEF PipelineInv, ArchiveGuards
  <2>. QED  BY <1>1, <1>4, <1>6, <1>8, <2>1 DEF ArchiveGuards, Goes
<1>10. ScanCovers' /\ CatalogWhole' /\ NoneTwice' /\ ParentsSampled'
  BY <1>1, <1>4, CatalogIdle
<1>11. PipelineTypeOK'
  BY <1>1, <1>3, <1>4, <1>5, CommandFacts, PipelineFacts
  DEF PipelineInv, PipelineTypeOK, ServiceInv, CommandSteps
<1>. QED  BY <1>4, <1>5, <1>7, <1>9, <1>10, <1>11 DEF PipelineInv

\* Usable lines of the archive are messages of the source.
LEMMA PackagePreservesPipeline ==
    ASSUME PipelineInv, BuildSamplePackage
    PROVE  PipelineInv'
<1>1. /\ command.step = "package" /\ UNCHANGED serviceVars
      /\ archive' = archive /\ posted' = posted /\ present' = present /\ catalog' = catalog
      /\ sample' = sample /\ parts' = parts /\ commands' = commands /\ rescanned' = rescanned
  BY DEF BuildSamplePackage, dirVars, Goes
<1>2. CASE Unreadable
  <2>1. EndsOrBegins
    BY <1>2 DEF BuildSamplePackage, EndsOrBegins
  <2>2. UNCHANGED <<serviceVars, posted, present, dirVars, rescanned>> /\ commands' = commands
    BY DEF BuildSamplePackage
  <2>. QED  BY <2>1, <2>2, CommandIdle, CommandFacts
<1>3. CASE ~Unreadable
  <2>. DEFINE lines == ElementsAt(archive, Usable)
  <2>1. command' = [command EXCEPT !.step = "verify", !.rows = Len(archive), !.lines = lines]
    BY <1>3 DEF BuildSamplePackage, Usable
  <2>2. lines \in Seq(Source)
    <3>1. \A m \in Range(archive) : m \in Source
      <4>1. \A m \in (0..posted) \ {0} : m \in 1..posted
        BY PipelineFacts
      <4>. QED  BY <1>3, <4>1, PipelineFacts DEF Unreadable, Torn
    <3>2. Usable \subseteq DOMAIN archive
      BY DEF Usable
    <3>3. /\ lines \in Seq(0..posted) /\ Range(lines) = {archive[k] : k \in Usable}
      BY <3>2, PipelineFacts, PartOfSequence
    <3>4. Range(lines) \subseteq Source
      BY <3>1, <3>2, <3>3 DEF Range
    <3>. HIDE DEF lines
    <3>. QED  BY <3>3, <3>4, SequenceOver
  <2>. HIDE DEF lines
  <2>3. /\ command' \in Commands /\ command'.step = "verify" /\ command'.base = command.base
        /\ command'.seen = command.seen /\ command'.recs = command.recs
        /\ command'.import = command.import /\ command'.files = command.files
        /\ command'.lines = lines /\ command'.rows = Len(archive)
    BY <2>1, <2>2, PipelineFacts DEF Commands, CommandSteps
  <2>4. /\ ServiceInv' /\ ImportIds' = ImportIds /\ imports' = imports /\ aView' = aView
    BY <1>1, PipelineFacts, ServiceStays
  <2>5. Loaded' = Loaded
    BY <2>4 DEF Loaded
  <2>6. OneLoaded'
    BY <2>4, <2>5 DEF PipelineInv, OneLoaded, Written
  <2>7. Packaged'
    <3>1. Usable' = Usable
      BY <1>1, <2>3 DEF Usable
    <3>. QED  BY <1>1, <2>3, <3>1 DEF Packaged, lines
  <2>8. ArchiveGuards'
    BY <1>1, <2>3, <2>5, <2>7 DEF PipelineInv, ArchiveGuards, Goes
  <2>9. ScanCovers' /\ CatalogWhole' /\ NoneTwice' /\ ParentsSampled'
    BY <1>1, <2>3, CatalogIdle
  <2>10. PipelineTypeOK'
    BY <1>1, <2>3, <2>4, CommandFacts, PipelineFacts
    DEF PipelineInv, PipelineTypeOK, ServiceInv, CommandSteps
  <2>. QED  BY <2>3, <2>4, <2>6, <2>8, <2>9, <2>10 DEF PipelineInv
<1>. QED  BY <1>2, <1>3

\* A command goes on to its next step, and touches nothing.
VerifiedPackage == /\ command.step = "verify" /\ command.confirm
                   /\ command.rows = Len(command.recs) /\ command.torn = {}
LEMMA CommandAdvances ==
    ASSUME PipelineInv, NEW step \in {"check", "clear"},
           UNCHANGED <<serviceVars, posted, present, dirVars, commands, rescanned>>,
           command' = [command EXCEPT !.step = step],
           VerifiedPackage \/ command.step = "check"
    PROVE  PipelineInv'
<1>1. /\ archive' = archive /\ posted' = posted /\ present' = present /\ catalog' = catalog
      /\ sample' = sample /\ parts' = parts /\ commands' = commands /\ rescanned' = rescanned
      /\ UNCHANGED serviceVars
  BY DEF dirVars
<1>2. /\ command' \in Commands /\ command'.step = step /\ command'.base = command.base
      /\ command'.seen = command.seen /\ command'.recs = command.recs
      /\ command'.import = command.import /\ command'.files = command.files
      /\ command'.lines = command.lines /\ command'.rows = command.rows
      /\ command'.confirm = command.confirm /\ command'.torn = command.torn
  BY PipelineFacts DEF Commands, CommandSteps
<1>4. /\ ServiceInv' /\ ImportIds' = ImportIds /\ imports' = imports /\ aView' = aView
  BY <1>1, PipelineFacts, ServiceStays
<1>5. Loaded' = Loaded
  BY <1>4 DEF Loaded
<1>6. OneLoaded'
  BY <1>4, <1>5 DEF PipelineInv, OneLoaded, Written
<1>7. Packaged' <=> Packaged
  <2>1. Usable' = Usable
    BY <1>1, <1>2 DEF Usable
  <2>. QED  BY <1>1, <1>2, <2>1 DEF Packaged
<1>8. /\ archive = command.recs /\ Packaged /\ command.confirm /\ command.torn = {} /\ Loaded = {}
      /\ IsInjective(command.recs) /\ Range(command.recs) \subseteq 1..posted
  <2>1. CASE VerifiedPackage
    <3>1. command.rows = Len(archive) /\ Packaged
      BY <2>1 DEF PipelineInv, ArchiveGuards, Goes, VerifiedPackage
    <3>2. Len(command.recs) = Len(archive) /\ ~(Len(command.recs) < Len(archive))
      BY <2>1, <3>1, PipelineFacts DEF VerifiedPackage
    <3>. QED  BY <2>1, <3>1, <3>2 DEF PipelineInv, ArchiveGuards, VerifiedPackage
  <2>2. CASE command.step = "check"
    BY <2>2 DEF PipelineInv, ArchiveGuards
  <2>. QED  BY <2>1, <2>2
<1>9. ArchiveGuards'
  BY <1>1, <1>2, <1>5, <1>7, <1>8 DEF ArchiveGuards, Goes
<1>10. ScanCovers' /\ CatalogWhole' /\ NoneTwice' /\ ParentsSampled'
  BY <1>1, <1>2, CatalogIdle
<1>11. PipelineTypeOK'
  BY <1>1, <1>2, <1>4, CommandFacts, PipelineFacts
  DEF PipelineInv, PipelineTypeOK, ServiceInv, CommandSteps
<1>. QED  BY <1>2, <1>4, <1>6, <1>9, <1>10, <1>11 DEF PipelineInv

LEMMA VerifyPreserves ==
    ASSUME PipelineInv, VerifyRoundtrip \/ CheckPeer
    PROVE  PipelineInv'
<1>0. /\ UNCHANGED <<serviceVars, posted, present, dirVars, rescanned>>
      /\ UNCHANGED <<serviceVars, posted, present, dirVars, commands, rescanned>>
      /\ commands' = commands /\ commands' \in 0..MaxCommands
  BY CommandFacts DEF VerifyRoundtrip, CheckPeer
<1>1. CASE VerifyRoundtrip
  <2>1. command.step = "verify"
    BY <1>1 DEF VerifyRoundtrip, Goes
  <2>2. CASE command.rows = Len(command.recs) /\ command.torn = {} /\ command.confirm
    <3>1. command' = [command EXCEPT !.step = "check"]
      BY <1>1, <2>2 DEF VerifyRoundtrip, Verified
    <3>2. VerifiedPackage
      BY <2>1, <2>2 DEF VerifiedPackage
    <3>. QED  BY <1>0, <3>1, <3>2, CommandAdvances
  <2>3. CASE ~(command.rows = Len(command.recs) /\ command.torn = {} /\ command.confirm)
    <3>1. EndsOrBegins
      BY <1>1, <2>3 DEF VerifyRoundtrip, Verified, EndsOrBegins
    <3>. QED  BY <1>0, <3>1, CommandIdle
  <2>. QED  BY <2>2, <2>3
<1>2. CASE CheckPeer
  <2>1. command.step = "check" /\ command' = [command EXCEPT !.step = "clear"]
    BY <1>2 DEF CheckPeer, Goes
  <2>. QED  BY <1>0, <2>1, CommandAdvances
<1>. QED  BY <1>1, <1>2

LEMMA SampleClearPreserves ==
    ASSUME PipelineInv, ClearSampleTarget
    PROVE  PipelineInv'
<1>1. /\ command.step = "clear" /\ bView' = <<>> /\ aView' = aView /\ imports' = imports
      /\ archive' = archive /\ posted' = posted /\ present' = present /\ catalog' = catalog
      /\ sample' = sample /\ parts' = parts /\ commands' = commands /\ rescanned' = rescanned
      /\ command' = [command EXCEPT !.step = "init"]
  BY DEF ClearSampleTarget, dirVars, Goes
<1>2. /\ command' \in Commands /\ command'.step = "init" /\ command'.base = command.base
      /\ command'.seen = command.seen /\ command'.recs = command.recs
      /\ command'.import = command.import /\ command'.files = command.files
      /\ command'.lines = command.lines
      /\ command'.confirm = command.confirm /\ command'.torn = command.torn
  BY <1>1, PipelineFacts DEF Commands, CommandSteps
<1>3. ServiceInv' /\ ImportIds' = ImportIds
  BY <1>1, PipelineFacts, ClearingKeeps DEF ImportIds
<1>4. Loaded' = Loaded
  BY <1>1, <1>3 DEF Loaded
<1>5. OneLoaded'
  BY <1>1, <1>3, <1>4 DEF PipelineInv, OneLoaded, Written
<1>6. Packaged' <=> Packaged
  <2>1. Usable' = Usable
    BY <1>1, <1>2 DEF Usable
  <2>. QED  BY <1>1, <1>2, <2>1 DEF Packaged
<1>7. ArchiveGuards'
  BY <1>1, <1>2, <1>4, <1>6 DEF PipelineInv, ArchiveGuards, Goes
<1>8. ScanCovers' /\ CatalogWhole' /\ NoneTwice' /\ ParentsSampled'
  BY <1>1, <1>2, CatalogIdle
<1>9. PipelineTypeOK'
  BY <1>1, <1>2, <1>3, CommandFacts, PipelineFacts
  DEF PipelineInv, PipelineTypeOK, ServiceInv, CommandSteps
<1>. QED  BY <1>2, <1>3, <1>5, <1>7, <1>8, <1>9 DEF PipelineInv

LEMMA SampleInitPreserves ==
    ASSUME PipelineInv, InitSampleImport
    PROVE  PipelineInv'
<1>. DEFINE lines == [k \in DOMAIN command.lines |-> SourceRow(command.lines[k])]
            id == Len(imports) + 1
<1>1. /\ command.step = "init" /\ Len(imports) < MaxImports
      /\ imports' = Opened(lines) /\ aView' = aView /\ bView' = bView
      /\ archive' = archive /\ posted' = posted /\ present' = present /\ catalog' = catalog
      /\ sample' = sample /\ parts' = parts /\ commands' = commands /\ rescanned' = rescanned
      /\ command' = [command EXCEPT !.step = "start", !.import = id]
  BY DEF InitSampleImport, dirVars, Goes
<1>2. /\ archive = command.recs /\ Packaged /\ command.confirm /\ command.torn = {}
      /\ Loaded = {} /\ IsInjective(command.recs)
      /\ Range(command.recs) \subseteq 1..posted
  BY <1>1 DEF PipelineInv, ArchiveGuards
<1>3. /\ IsInjective(command.lines) /\ command.lines \in Seq(Source)
      /\ DOMAIN command.lines = 1..Len(command.lines) /\ Len(command.lines) \in Nat
      /\ archive = <<>> => command.lines = <<>>
  <2>1. Usable \subseteq DOMAIN archive /\ archive \in Seq(0..posted) /\ IsInjective(archive)
    BY <1>2, PipelineFacts DEF Usable
  <2>2. /\ IsInjective(ElementsAt(archive, Usable)) /\ ElementsAt(archive, Usable) \in Seq(0..posted)
        /\ Len(ElementsAt(archive, Usable)) \in Nat
        /\ Len(ElementsAt(archive, Usable)) <= Len(archive)
    BY <2>1, PartOfSequence
  <2>3. archive = <<>> => Len(archive) = 0
    OBVIOUS
  <2>4. archive = <<>> => ElementsAt(archive, Usable) = <<>>
    BY <2>2, <2>3, EmptySeq
  <2>5. command.lines \in Seq(Source)
    BY CommandFacts
  <2>6. DOMAIN command.lines = 1..Len(command.lines) /\ Len(command.lines) \in Nat
    BY <2>5, LenProperties
  <2>. QED  BY <1>2, <2>2, <2>4, <2>5, <2>6 DEF Packaged
<1>4. \A m \in Source : SourceRow(m) \in Rows /\ SourceRow(m) # <<>> /\ Len(SourceRow(m)) = 1
  <2>. SUFFICES ASSUME NEW m \in Source
                PROVE  SourceRow(m) \in Rows /\ SourceRow(m) # <<>> /\ Len(SourceRow(m)) = 1
    OBVIOUS
  <2>1. MaxWritten + m \in Nat
    BY ServiceAssumption, PipelineAssumption DEF Source
  <2>. QED  BY <2>1 DEF SourceRow, Rows
<1>5. \A m, n \in Source : SourceRow(m) = SourceRow(n) => m = n
  <2>. SUFFICES ASSUME NEW m \in Source, NEW n \in Source, SourceRow(m) = SourceRow(n) PROVE m = n
    OBVIOUS
  <2>1. SourceRow(m)[1] = MaxWritten + m /\ SourceRow(n)[1] = MaxWritten + n
    BY DEF SourceRow
  <2>2. m \in Nat /\ n \in Nat /\ MaxWritten \in Nat
    BY ServiceAssumption, PipelineAssumption DEF Source
  <2>. QED  BY <2>1, <2>2
<1>6. \A k \in DOMAIN command.lines : command.lines[k] \in Source
  BY <1>3, ElementOfSeq
<1>7. /\ lines \in Seq(Rows) /\ IsInjective(lines) /\ <<>> \notin Range(lines)
      /\ Range(lines) \subseteq {SourceRow(m) : m \in Source}
      /\ command.lines = <<>> => lines = <<>>
  <2>1. lines \in [1..Len(command.lines) -> Rows]
    BY <1>3, <1>4, <1>6
  <2>2. lines \in Seq(Rows)
    BY <1>3, <2>1, IsASeq
  <2>3. IsInjective(lines)
    BY <1>3, <1>5, <1>6 DEF IsInjective
  <2>4. Range(lines) \subseteq {SourceRow(m) : m \in Source}
    BY <1>6 DEF Range
  <2>5. command.lines = <<>> => lines = <<>>
    <3>1. Len(lines) = Len(command.lines)
      BY <1>3, <2>1, <2>2, LenProperties
    <3>. HIDE DEF lines
    <3>. QED  BY <2>2, <3>1, EmptySeq
  <2>. QED  BY <1>4, <2>2, <2>3, <2>4, <2>5
<1>. HIDE DEF lines
<1>8. /\ ServiceInv'
      /\ ImportIds' = ImportIds \cup {id} /\ id \notin ImportIds
      /\ \A j \in ImportIds : imports'[j] = imports[j]
      /\ imports'[id] = [lines |-> lines, state |-> "open", sent |-> 0]
  BY <1>1, <1>7, PipelineFacts, OpeningKeeps
<1>9. id \in Nat
  BY PipelineFacts, LenProperties DEF ServiceInv, ServiceTypes
<1>. HIDE DEF id
<1>10. /\ command' \in Commands /\ command'.step = "start" /\ command'.base = command.base
       /\ command'.seen = command.seen /\ command'.recs = command.recs
       /\ command'.import = id /\ command'.files = command.files
       /\ command'.lines = command.lines
       /\ command'.confirm = command.confirm /\ command'.torn = command.torn
  BY <1>1, <1>9, PipelineFacts DEF Commands, CommandSteps
<1>11. Loaded' \subseteq {id} /\ (Loaded' # {} => lines # <<>>)
  <2>1. \A j \in ImportIds' : \/ j \in ImportIds /\ imports'[j].lines = <<>>
                              \/ j = id /\ imports'[j].lines = lines
    BY <1>2, <1>8 DEF Loaded
  <2>. QED  BY <2>1 DEF Loaded
<1>12. OneLoaded'
  <2>1. \A j \in ImportIds' : Range(imports'[j].lines) \subseteq {SourceRow(m) : m \in Source}
    BY <1>7, <1>8 DEF PipelineInv, OneLoaded
  <2>2. Written(aView)' = {}
    BY <1>1 DEF PipelineInv, OneLoaded, Written
  <2>. QED  BY <1>11, <2>1, <2>2 DEF OneLoaded
<1>13. Packaged'
  <2>1. Usable' = Usable
    BY <1>1, <1>10 DEF Usable
  <2>. QED  BY <1>1, <1>2, <1>10, <2>1 DEF Packaged
<1>14. ArchiveGuards'
  <2>1. Loaded' # {} => archive # <<>>
    BY <1>3, <1>7, <1>11
  <2>2. id \in ImportIds'
    BY <1>8
  <2>. QED  BY <1>1, <1>2, <1>10, <1>11, <1>13, <2>1, <2>2 DEF ArchiveGuards, Goes
<1>15. ScanCovers' /\ CatalogWhole' /\ NoneTwice' /\ ParentsSampled'
  BY <1>1, <1>10, CatalogIdle
<1>16. PipelineTypeOK'
  BY <1>1, <1>8, <1>10, CommandFacts, PipelineFacts
  DEF PipelineInv, PipelineTypeOK, ServiceInv, CommandSteps
<1>. QED  BY <1>8, <1>10, <1>12, <1>14, <1>15, <1>16 DEF PipelineInv

LEMMA SampleStartPreserves ==
    ASSUME PipelineInv, StartSampleImport
    PROVE  PipelineInv'
<1>1. /\ command.step = "start" /\ imports' = Started(command.import)
      /\ aView' = aView /\ bView' = bView
      /\ archive' = archive /\ posted' = posted /\ present' = present /\ catalog' = catalog
      /\ sample' = sample /\ parts' = parts /\ commands' = commands /\ rescanned' = rescanned
      /\ command' = [command EXCEPT !.step = "report"]
  BY DEF StartSampleImport, dirVars, Goes
<1>2. command.import \in ImportIds /\ Loaded \subseteq {command.import}
  BY <1>1 DEF PipelineInv, ArchiveGuards
<1>3. /\ ServiceInv' /\ ImportIds' = ImportIds
      /\ \A j \in ImportIds : imports'[j].lines = imports[j].lines
  BY <1>1, <1>2, PipelineFacts, StartingKeeps
<1>4. Loaded' = Loaded
  BY <1>3 DEF Loaded
<1>5. OneLoaded'
  <2>1. \A j \in ImportIds' : Range(imports'[j].lines) \subseteq {SourceRow(m) : m \in Source}
    BY <1>3 DEF PipelineInv, OneLoaded
  <2>2. Written(aView)' = {}
    BY <1>1 DEF PipelineInv, OneLoaded, Written
  <2>. QED  BY <1>4, <2>1, <2>2 DEF PipelineInv, OneLoaded
<1>6. /\ command' \in Commands /\ command'.step = "report" /\ command'.base = command.base
      /\ command'.seen = command.seen /\ command'.recs = command.recs
      /\ command'.import = command.import /\ command'.files = command.files
      /\ command'.lines = command.lines
      /\ command'.confirm = command.confirm /\ command'.torn = command.torn
  BY <1>1, PipelineFacts DEF Commands, CommandSteps
<1>7. Packaged' <=> Packaged
  <2>1. Usable' = Usable
    BY <1>1, <1>6 DEF Usable
  <2>. QED  BY <1>1, <1>6, <2>1 DEF Packaged
<1>8. ArchiveGuards'
  BY <1>1, <1>2, <1>3, <1>4, <1>6, <1>7 DEF PipelineInv, ArchiveGuards, Goes
<1>9. ScanCovers' /\ CatalogWhole' /\ NoneTwice' /\ ParentsSampled'
  BY <1>1, <1>6, CatalogIdle
<1>10. PipelineTypeOK'
  BY <1>1, <1>3, <1>6, CommandFacts, PipelineFacts
  DEF PipelineInv, PipelineTypeOK, ServiceInv, CommandSteps
<1>. QED  BY <1>3, <1>5, <1>6, <1>8, <1>9, <1>10 DEF PipelineInv

\* Another message of an import arrives, and no file of the run changes.
LEMMA SampleArrives ==
    ASSUME PipelineInv, NEW i \in ImportIds, Arrives(i), UNCHANGED pipelineVars
    PROVE  PipelineInv'
<1>1. /\ command' = command
      /\ archive' = archive /\ posted' = posted /\ present' = present /\ catalog' = catalog
      /\ sample' = sample /\ parts' = parts /\ commands' = commands /\ rescanned' = rescanned
  BY DEF pipelineVars
<1>2. /\ ServiceInv' /\ ImportIds' = ImportIds /\ Written(aView)' = Written(aView)
      /\ \A j \in ImportIds : imports'[j].lines = imports[j].lines
  BY PipelineFacts, ArrivalIsNew, ArrivalKeeps
<1>3. Loaded' = Loaded
  BY <1>2 DEF Loaded
<1>4. OneLoaded'
  BY <1>2, <1>3 DEF PipelineInv, OneLoaded
<1>5. Packaged' <=> Packaged
  BY <1>1 DEF Packaged, Usable
<1>6. ArchiveGuards'
  BY <1>1, <1>2, <1>3, <1>5 DEF PipelineInv, ArchiveGuards, Goes
<1>7. ScanCovers' /\ CatalogWhole' /\ NoneTwice' /\ ParentsSampled'
  BY <1>1 DEF PipelineInv, ScanCovers, CatalogWhole, NoneTwice, ParentsSampled, Goes
<1>8. PipelineTypeOK'
  BY <1>1, <1>2 DEF PipelineInv, PipelineTypeOK, ServiceInv
<1>. QED  BY <1>1, <1>2, <1>4, <1>6, <1>7, <1>8 DEF PipelineInv

\* The owners of the source chat post and delete.
LEMMA SourcePreserves ==
    ASSUME PipelineInv, SourceChanges
    PROVE  PipelineInv'
<1>1. /\ UNCHANGED serviceVars /\ catalog' = catalog /\ sample' = sample /\ archive' = archive
      /\ parts' = parts /\ command' = command /\ commands' = commands /\ rescanned' = rescanned
  BY DEF SourceChanges, dirVars
<1>2. /\ posted' \in Nat /\ posted <= posted' /\ posted' \in 0..SourceSize
      /\ present' \subseteq 1..posted'
      /\ \A m \in present' : m \in present \/ (m = posted + 1 /\ m \notin 1..posted)
  <2>1. CASE posted < SourceSize /\ posted' = posted + 1 /\ present' = present \cup {posted + 1}
    BY <2>1, PipelineFacts
  <2>2. CASE posted' = posted /\ \E m \in present : present' = present \ {m}
    BY <2>2, PipelineFacts
  <2>. QED  BY <2>1, <2>2 DEF SourceChanges
<1>3. /\ 1..posted \subseteq 1..posted' /\ 0..posted \subseteq 0..posted'
      /\ catalog \in Seq(0..posted') /\ archive \in Seq(0..posted')
  <2>1. 1..posted \subseteq 1..posted' /\ 0..posted \subseteq 0..posted'
    BY <1>2, PipelineFacts
  <2>. QED  BY <2>1, PipelineFacts, SequenceOver
<1>4. \A m \in present', i \in Range(catalog) \cup sample.ids :
         (m < i => m \in present) /\ (m \in 1..posted => m \in present)
  <2>1. \A i \in Range(catalog) \cup sample.ids : i \in Nat /\ i <= posted
    <3>1. \A i \in (0..posted) \cup (1..posted) : i \in Nat /\ i <= posted
      BY PipelineFacts
    <3>. QED  BY <3>1, PipelineFacts
  <2>2. \A i \in Range(catalog) \cup sample.ids : ~(posted + 1 < i)
    BY <2>1, PipelineFacts
  <2>. QED  BY <1>2, <2>2
<1>5. /\ ServiceInv' /\ ImportIds' = ImportIds /\ imports' = imports /\ aView' = aView
  BY <1>1, PipelineFacts, ServiceStays
<1>6. Loaded' = Loaded
  BY <1>5 DEF Loaded
<1>7. OneLoaded'
  BY <1>5, <1>6 DEF PipelineInv, OneLoaded, Written
<1>8. Packaged' <=> Packaged
  BY <1>1 DEF Packaged, Usable
<1>9. ArchiveGuards'
  <2>1. Range(command.recs) \subseteq 1..posted'
    BY <1>3, PipelineFacts
  <2>. QED  BY <1>1, <1>5, <1>6, <1>8, <2>1 DEF PipelineInv, ArchiveGuards, Goes
<1>a. \A m \in present' : m \in 1..posted => m \in present
  BY <1>2
<1>10. ScanCovers'
  <2>. SUFFICES ASSUME command.step = "scan" PROVE ScanCovers'
    BY <1>1 DEF ScanCovers, Goes
  <2>1. /\ command.seen \subseteq Range(catalog) \ {Torn}
        /\ ~rescanned => Range(catalog) \ {Torn} = command.seen
        /\ command.wanted \subseteq 1..posted
        /\ \A m \in command.wanted \cap present : command.at <= m => m \in command.seen
        /\ \A m \in present, i \in Range(catalog) :
              command.at <= m /\ m < i => m \in Range(catalog)
    BY DEF PipelineInv, ScanCovers, Goes
  <2>2. command.wanted \subseteq 1..posted'
    BY <1>3, <2>1
  <2>3. \A m \in command.wanted \cap present' : command.at <= m => m \in command.seen
    BY <1>a, <2>1
  <2>4. \A m \in present', i \in Range(catalog) :
              command.at <= m /\ m < i => m \in Range(catalog)
    BY <1>4, <2>1
  <2>. QED  BY <1>1, <2>1, <2>2, <2>3, <2>4 DEF ScanCovers
<1>11. CatalogWhole'
  <2>. SUFFICES ASSUME command.step = "pick" PROVE CatalogWhole'
    BY <1>1 DEF CatalogWhole, Goes
  <2>1. /\ command.wanted \cap present \subseteq Range(catalog)
        /\ command.wanted \subseteq 1..posted
        /\ \A m \in present, i \in Range(catalog) : m < i => m \in Range(catalog)
    BY DEF PipelineInv, CatalogWhole, Goes
  <2>2. command.wanted \subseteq 1..posted'
    BY <1>3, <2>1
  <2>3. command.wanted \cap present' \subseteq Range(catalog)
    BY <1>a, <2>1
  <2>4. \A m \in present', i \in Range(catalog) : m < i => m \in Range(catalog)
    BY <1>4, <2>1
  <2>. QED  BY <1>1, <2>2, <2>3, <2>4 DEF CatalogWhole
<1>12. NoneTwice'
  BY <1>1 DEF PipelineInv, NoneTwice
<1>13. ParentsSampled'
  <2>. SUFFICES ASSUME NEW i \in sample.picked, ReplyTo[i] \notin {0} \cup sample.ids
                PROVE  ReplyTo[i] \notin present' \cup Range(catalog)
    BY <1>1 DEF ParentsSampled
  <2>1. ReplyTo[i] \notin present \cup Range(catalog)
    BY DEF PipelineInv, ParentsSampled
  <2>2. i \in sample.ids /\ i \in 1..posted /\ i \in Source
    BY PipelineFacts
  <2>3. ReplyTo[i] \in 0..(i - 1)
    BY <2>2, PipelineAssumption
  <2>4. ReplyTo[i] < i
    BY <2>2, <2>3
  <2>. QED  BY <1>4, <2>1, <2>2, <2>4
<1>14. PipelineTypeOK'
  <2>1. sample.ids \subseteq 1..posted'
    BY <1>3, PipelineFacts
  <2>. QED  BY <1>1, <1>2, <1>3, <1>5, <2>1 DEF PipelineInv, PipelineTypeOK, ServiceInv
<1>. QED  BY <1>1, <1>5, <1>7, <1>9, <1>10, <1>11, <1>12, <1>13, <1>14 DEF PipelineInv

\* What is left of lines of which the first base are on disk for sure.
LEMMA CutFacts ==
    ASSUME NEW n \in Nat, NEW lines \in Seq(0..n), NEW base \in Nat, base <= Len(lines),
           NEW cut \in Cut(lines, base)
    PROVE  /\ cut \in Seq(0..n) /\ Len(cut) \in Nat /\ base <= Len(cut)
           /\ Range(cut) \subseteq Range(lines) \cup {Torn}
           /\ \A j \in DOMAIN cut : cut[j] = Torn \/ (j \in DOMAIN lines /\ cut[j] = lines[j])
<1>0. Len(lines) \in Nat /\ DOMAIN lines = 1..Len(lines) /\ Torn \in 0..n
  BY LenProperties DEF Torn
<1>1. PICK k \in base..Len(lines) : cut \in {SubSeq(lines, 1, k), Append(SubSeq(lines, 1, k), Torn)}
  <2>1. CASE cut \in {SubSeq(lines, 1, k) : k \in base..Len(lines)}
    BY <2>1
  <2>2. CASE cut \in {Append(SubSeq(lines, 1, k), Torn) : k \in base..(Len(lines) - 1)}
    <3>1. PICK k \in base..(Len(lines) - 1) : cut = Append(SubSeq(lines, 1, k), Torn)
      BY <2>2
    <3>2. k \in base..Len(lines)
      BY <1>0
    <3>. QED  BY <3>1, <3>2
  <2>. QED  BY <2>1, <2>2 DEF Cut
<1>. DEFINE kept == SubSeq(lines, 1, k)
<1>2. /\ kept \in Seq(0..n) /\ Len(kept) = k /\ k \in Nat /\ base <= k /\ k <= Len(lines)
      /\ Range(kept) \subseteq Range(lines)
      /\ \A j \in 1..k : kept[j] = lines[j]
      /\ DOMAIN kept = 1..k
  <2>1. k \in Nat /\ base <= k /\ k <= Len(lines) /\ 1 <= k + 1 /\ k - 1 + 1 = k
    BY <1>0
  <2>2. /\ kept \in Seq(0..n) /\ Len(kept) = k - 1 + 1
        /\ \A j \in 1..(k - 1 + 1) : kept[j] = lines[1 + j - 1]
        /\ Range(kept) \subseteq Range(lines)
    BY <2>1, SliceOfSequence
  <2>3. \A j \in 1..k : 1 + j - 1 = j
    BY <2>1
  <2>4. DOMAIN kept = 1..k
    <3>. HIDE DEF kept
    <3>. QED  BY <2>1, <2>2, LenProperties
  <2>. QED  BY <2>1, <2>2, <2>3, <2>4
<1>. HIDE DEF kept
<1>3. \A j \in 1..k : j \in DOMAIN lines
  BY <1>0, <1>2
<1>4. CASE cut = kept
  BY <1>2, <1>3, <1>4
<1>5. CASE cut = Append(kept, Torn)
  <2>1. /\ cut \in Seq(0..n) /\ Len(cut) = k + 1
        /\ \A j \in 1..k : cut[j] = kept[j]
        /\ cut[k + 1] = Torn
        /\ Range(cut) = Range(kept) \cup {Torn}
    BY <1>0, <1>2, <1>5, AppendedTo
  <2>2. DOMAIN cut = 1..(k + 1) /\ \A j \in 1..(k + 1) : j \in 1..k \/ j = k + 1
    BY <1>2, <2>1, LenProperties
  <2>. QED  BY <1>2, <1>3, <2>1, <2>2
<1>. QED  BY <1>1, <1>4, <1>5 DEF kept

\* A process that dies leaves its files cut short, and nothing that it had not
\* put there.
LEMMA DyingPreserves ==
    ASSUME PipelineInv, CommandDies
    PROVE  PipelineInv'
<1>1. /\ command' = NoCommand /\ UNCHANGED serviceVars
      /\ posted' = posted /\ present' = present
      /\ commands' = commands /\ rescanned' = rescanned
  BY DEF CommandDies
<1>2. /\ catalog' \in Seq(0..posted) /\ Len(catalog') \in Nat
      /\ Range(catalog') \subseteq Range(catalog) \cup {Torn}
      /\ \A j \in DOMAIN catalog' : catalog'[j] = Torn
                                    \/ (j \in DOMAIN catalog /\ catalog'[j] = catalog[j])
  <2>1. CASE catalog' = catalog
    BY <2>1, PipelineFacts
  <2>2. CASE catalog' \in Cut(catalog, command.base)
    <3>1. /\ catalog \in Seq(0..posted) /\ posted \in Nat
          /\ command.base \in Nat /\ command.base <= Len(catalog)
      BY PipelineFacts, CommandFacts
    <3>. QED  BY <2>2, <3>1, CutFacts
  <2>. QED  BY <2>1, <2>2 DEF CommandDies
<1>3. archive' \in Seq(0..posted) /\ (archive # <<>> => archive' # <<>>)
  <2>1. CASE archive' = archive
    BY <2>1, PipelineFacts
  <2>2. CASE archive' \in Cut(ArchiveWith(command.recs), Len(archive))
    <3>1. command.recs \in Seq(0..posted)
      <4>1. Range(command.recs) \subseteq 0..posted
        BY PipelineFacts
      <4>. QED  BY <4>1, PipelineFacts, SequenceOver
    <3>2. /\ archive \o command.recs \in Seq(0..posted)
          /\ Len(archive \o command.recs) = Len(archive) + Len(command.recs)
      BY <3>1, PipelineFacts, JoinedSequences
    <3>3. Len(archive) <= Len(archive \o command.recs) /\ Len(archive) \in Nat
      BY <3>2, PipelineFacts
    <3>. DEFINE joined == archive \o command.recs
    <3>4. archive' \in Cut(joined, Len(archive)) /\ joined \in Seq(0..posted)
          /\ Len(archive) <= Len(joined) /\ posted \in Nat
      BY <2>2, <3>2, <3>3, PipelineFacts DEF ArchiveWith
    <3>. HIDE DEF joined
    <3>5. archive' \in Seq(0..posted) /\ Len(archive') \in Nat /\ Len(archive) <= Len(archive')
      BY <3>3, <3>4, CutFacts
    <3>6. archive # <<>> => Len(archive) # 0
      BY PipelineFacts, EmptySeq
    <3>7. archive' = <<>> => Len(archive') = 0
      OBVIOUS
    <3>. QED  BY <3>3, <3>5, <3>6, <3>7
  <2>. QED  BY <2>1, <2>2 DEF CommandDies
<1>4. parts' \subseteq Source
  <2>1. FetchedIds(FinalIds) \subseteq Source
    BY FinalInSource, PipelineFacts DEF FetchedIds
  <2>2. parts' = parts \/ \E m \in FetchedIds(FinalIds) \cap MediaOnly : parts' = parts \cup {m}
    BY DEF CommandDies
  <2>. QED  BY <2>1, <2>2, CommandFacts
<1>5. sample' = sample \/ (sample'.picked = {} /\ sample'.ids = {})
  BY DEF CommandDies, NoSample
<1>6. /\ ServiceInv' /\ ImportIds' = ImportIds /\ imports' = imports /\ aView' = aView
  BY <1>1, PipelineFacts, ServiceStays
<1>7. Loaded' = Loaded
  BY <1>6 DEF Loaded
<1>8. OneLoaded'
  BY <1>6, <1>7 DEF PipelineInv, OneLoaded, Written
<1>9. ArchiveGuards'
  <2>1. Loaded # {} => archive' # <<>>
    BY <1>3 DEF PipelineInv, ArchiveGuards
  <2>. QED  BY <1>1, <1>7, <2>1, NoCommandTypes DEF ArchiveGuards, Goes
<1>10. ScanCovers' /\ CatalogWhole'
  BY <1>1, NoCommandTypes DEF ScanCovers, CatalogWhole, Goes
<1>11. NoneTwice'
  <2>. SUFFICES ASSUME ~rescanned, NEW j \in DOMAIN catalog', NEW k \in DOMAIN catalog',
                       catalog'[j] = catalog'[k], catalog'[j] # Torn
                PROVE  j = k
    BY <1>1 DEF NoneTwice
  <2>1. /\ j \in DOMAIN catalog /\ k \in DOMAIN catalog
        /\ catalog[j] = catalog[k] /\ catalog[j] # Torn
    BY <1>2
  <2>. QED  BY <2>1 DEF PipelineInv, NoneTwice
<1>12. ParentsSampled'
  <2>1. CASE sample' = sample
    <3>1. Range(catalog') \subseteq Range(catalog) \cup {0}
      BY <1>2 DEF Torn
    <3>. QED  BY <1>1, <2>1, <3>1 DEF PipelineInv, ParentsSampled
  <2>2. CASE sample' # sample
    BY <1>5, <2>2 DEF ParentsSampled
  <2>. QED  BY <2>1, <2>2
<1>13. PipelineTypeOK'
  <2>1. sample'.picked \subseteq sample'.ids /\ sample'.ids \subseteq 1..posted
    BY <1>5, PipelineFacts
  <2>2. 0 <= Len(catalog') /\ <<>> \in Seq(Source)
    BY <1>2
  <2>. QED  BY <1>1, <1>2, <1>3, <1>4, <1>6, <2>1, <2>2, NoCommandTypes
        DEF PipelineInv, PipelineTypeOK, ServiceInv, CommandSteps
<1>. QED  BY <1>1, <1>6, <1>8, <1>9, <1>10, <1>11, <1>12, <1>13, NoCommandTypes DEF PipelineInv

LEMMA PipelineStarts == ServiceInit(<<>>) /\ PipelineInit => PipelineInv
<1>. SUFFICES ASSUME ServiceInit(<<>>), PipelineInit PROVE PipelineInv
  OBVIOUS
<1>1. ServiceInv
  <2>1. <<>> \in Seq(Rows) /\ IsInjective(<<>>) /\ Range(<<>>) = {}
    BY DEF IsInjective, Range
  <2>2. Cardinality({}) = 0 /\ 1..0 = {}
    BY FS_EmptySet
  <2>3. Range(<<>>) = {<<m>> : m \in 1..Cardinality(Range(<<>>))}
    BY <2>1, <2>2
  <2>. QED  BY <2>1, <2>3, ServiceInvInit
<1>2. /\ posted = SourceAtFirst /\ present = 1..SourceAtFirst
      /\ catalog = <<>> /\ sample.picked = {} /\ sample.ids = {} /\ archive = <<>> /\ parts = {}
      /\ command = NoCommand /\ commands = 0 /\ rescanned = FALSE
      /\ aView = <<>> /\ imports = <<>> /\ ImportIds = {}
  BY DEF PipelineInit, NoSample, ServiceInit, ImportIds
<1>3. Loaded = {} /\ Written(aView) = {} /\ DOMAIN catalog = {}
  BY <1>2 DEF Loaded, Written, Range
<1>4. OneLoaded /\ ArchiveGuards
  BY <1>2, <1>3, NoCommandTypes DEF OneLoaded, ArchiveGuards, Goes
<1>5. ScanCovers /\ CatalogWhole /\ NoneTwice /\ ParentsSampled
  BY <1>2, <1>3, NoCommandTypes DEF ScanCovers, CatalogWhole, NoneTwice, ParentsSampled, Goes
<1>6. PipelineTypeOK
  <2>1. /\ posted \in 0..SourceSize /\ present \subseteq 1..posted
        /\ commands \in 0..MaxCommands /\ 0 <= Len(catalog)
    BY <1>2, PipelineAssumption
  <2>2. catalog \in Seq(0..posted) /\ archive \in Seq(0..posted) /\ <<>> \in Seq(Source)
    BY <1>2
  <2>. QED  BY <1>1, <1>2, <2>1, <2>2, NoCommandTypes DEF PipelineTypeOK, ServiceInv, CommandSteps
<1>. QED  BY <1>1, <1>2, <1>4, <1>5, <1>6, NoCommandTypes DEF PipelineInv

\* Every step of the commands, the source chat and the imports preserves the
\* invariant.
LEMMA PipelineStep ==
    PipelineInv /\ [PipelineNext \/ (ImportArrives /\ UNCHANGED pipelineVars)]_sampleVars
       => PipelineInv'
<1>. SUFFICES ASSUME PipelineInv,
                     [PipelineNext \/ (ImportArrives /\ UNCHANGED pipelineVars)]_sampleVars
              PROVE  PipelineInv'
  OBVIOUS
<1>1. CASE PipelineNext
  BY <1>1, SampleStarts, ScanPreserves, PickPreserves, StartRecoverPreserves, FetchPreserves,
     AppendPreserves, PackagePreservesPipeline, VerifyPreserves, SampleClearPreserves,
     SampleInitPreserves, SampleStartPreserves, DyingPreserves, SourcePreserves
  DEF PipelineNext
<1>2. CASE ImportArrives /\ UNCHANGED pipelineVars
  <2>1. PICK i \in ImportIds : Arrives(i)
    BY <1>2 DEF ImportArrives, Arrives, Arrival
  <2>. QED  BY <1>2, <2>1, SampleArrives
<1>3. CASE UNCHANGED sampleVars
  <2>1. /\ UNCHANGED serviceVars /\ command' = command
        /\ archive' = archive /\ posted' = posted /\ present' = present /\ catalog' = catalog
        /\ sample' = sample /\ parts' = parts /\ commands' = commands /\ rescanned' = rescanned
    BY <1>3 DEF sampleVars, pipelineVars
  <2>2. /\ ServiceInv' /\ ImportIds' = ImportIds /\ imports' = imports /\ aView' = aView
    BY <2>1, PipelineFacts, ServiceStays
  <2>3. Loaded' = Loaded
    BY <2>2 DEF Loaded
  <2>4. OneLoaded'
    BY <2>2, <2>3 DEF PipelineInv, OneLoaded, Written
  <2>5. Packaged' <=> Packaged
    BY <2>1 DEF Packaged, Usable
  <2>6. ArchiveGuards'
    BY <2>1, <2>2, <2>3, <2>5 DEF PipelineInv, ArchiveGuards, Goes
  <2>7. ScanCovers' /\ CatalogWhole' /\ NoneTwice' /\ ParentsSampled'
    BY <2>1 DEF PipelineInv, ScanCovers, CatalogWhole, NoneTwice, ParentsSampled, Goes
  <2>8. PipelineTypeOK'
    BY <2>1, <2>2 DEF PipelineInv, PipelineTypeOK, ServiceInv
  <2>. QED  BY <2>1, <2>2, <2>4, <2>6, <2>7, <2>8 DEF PipelineInv
<1>. QED  BY <1>1, <1>2, <1>3

LEMMA PipelineInvariant == PipelineSpec => []PipelineInv
  BY PipelineStarts, PipelineStep, PTL DEF PipelineSpec

\* Whatever the source chat, the sample and the operators of the commands do,
\* and wherever a command dies: the run's directory has the shape that the next
\* command relies on (recovery/pipeline.py).
THEOREM PipelineTypes == PipelineSpec => []PipelineTypeOK
<1>1. PipelineInv => PipelineTypeOK
  BY DEF PipelineInv
<1>. QED  BY PipelineInvariant, <1>1, PTL

\* For every source chat and every size of a page: the catalog a sample is
\* drawn from has every message that was there when its scan began and still
\* is, however many scans were cut short before it, and none twice unless a
\* scan was told not to resume (discover_catalog, pipeline.py:168-211).
THEOREM CatalogIsExact == PipelineSpec => []CatalogExact
<1>1. PipelineInv => CatalogExact
  <2>. SUFFICES ASSUME PipelineInv, Goes("pick"), Torn \notin Range(catalog)
                PROVE  /\ command.wanted \cap present \subseteq Range(catalog)
                       /\ ~rescanned => IsInjective(catalog)
    BY DEF CatalogExact
  <2>1. command.wanted \cap present \subseteq Range(catalog)
    BY DEF PipelineInv, CatalogWhole
  <2>2. \A k \in DOMAIN catalog : catalog[k] # Torn
    BY DEF Range
  <2>3. ~rescanned => IsInjective(catalog)
    BY <2>2 DEF PipelineInv, NoneTwice, IsInjective
  <2>. QED  BY <2>1, <2>3
<1>. QED  BY PipelineInvariant, <1>1, PTL

\* Wherever commands die and however often they are repeated: B's view is
\* cleared only for a package that has each final message that could be
\* fetched, with its media, in one line, with the bytes that were hashed, and
\* none else (lazy_materialize, verify_roundtrip, pipeline.py:406-476, 810-823).
THEOREM OnlyVerifiedCleared == PipelineSpec => []ClearedOnlyVerified
<1>1. PipelineInv => ClearedOnlyVerified
  <2>. SUFFICES ASSUME PipelineInv, command.step \in {"clear", "init", "start", "report"}
                PROVE  /\ command.confirm
                       /\ IsInjective(command.lines)
                       /\ Range(command.lines) =
                             {m \in Range(command.recs) : m \notin MediaOnly \/ m \in command.files}
                       /\ command.torn = {}
    BY DEF ClearedOnlyVerified
  <2>1. /\ archive = command.recs /\ command.confirm /\ command.torn = {}
        /\ IsInjective(command.recs) /\ command.lines = ElementsAt(archive, Usable)
    BY DEF PipelineInv, ArchiveGuards, Packaged
  <2>2. Usable \subseteq DOMAIN archive /\ archive \in Seq(0..posted)
    BY PipelineFacts DEF Usable
  <2>3. /\ Range(ElementsAt(archive, Usable)) = {archive[k] : k \in Usable}
        /\ IsInjective(archive) => IsInjective(ElementsAt(archive, Usable))
    BY <2>2, PartOfSequence
  <2>4. {archive[k] : k \in Usable} =
           {m \in Range(archive) : m \notin MediaOnly \/ m \in command.files}
    BY DEF Usable, Range
  <2>. QED  BY <2>1, <2>3, <2>4
<1>. QED  BY PipelineInvariant, <1>1, PTL

\* However often the commands of a run are repeated after a failure: no source
\* message is handed to two imports, nor twice to one, so that the target has
\* one copy of each at most (run_full_recovery, pipeline.py:781-861).
THEOREM OnceImported == PipelineSpec => []ImportedOnce
<1>1. PipelineInv => ImportedOnce
  <2>. SUFFICES ASSUME PipelineInv, NEW m \in Source
                PROVE  /\ Cardinality({i \in ImportIds :
                                         SourceRow(m) \in Range(imports[i].lines)}) <= 1
                       /\ Cardinality({r \in Imported(bView) : r[1] = MaxWritten + m}) <= 1
    BY DEF ImportedOnce
  <2>0. /\ \A i, j \in Loaded : i = j
        /\ \A i \in ImportIds : Range(imports[i].lines) \subseteq {SourceRow(n) : n \in Source}
        /\ Written(aView) = {}
    BY DEF PipelineInv, OneLoaded
  <2>1. \A S : (\A x, y \in S : x = y) => Cardinality(S) <= 1
    <3>. SUFFICES ASSUME NEW S, \A x, y \in S : x = y PROVE Cardinality(S) <= 1
      OBVIOUS
    <3>1. CASE S = {}
      BY <3>1, FS_EmptySet
    <3>2. CASE S # {}
      <4>1. PICK x \in S : TRUE
        BY <3>2
      <4>2. S = {x}
        BY <4>1
      <4>3. Cardinality({x}) = 1
        BY FS_Singleton
      <4>4. Cardinality(S) = 1
        BY <4>2, <4>3
      <4>. QED  BY <4>4
    <3>. QED  BY <3>1, <3>2
  <2>2. \A i \in ImportIds : SourceRow(m) \in Range(imports[i].lines) => i \in Loaded
    BY DEF Loaded, Range
  <2>3. ASSUME NEW r \in Imported(bView), r[1] = MaxWritten + m
        PROVE  \E i \in Loaded : r = Append(SourceRow(m), i)
    <3>1. r \in Range(bView) /\ Len(r) > 1
      BY <2>3 DEF Imported
    <3>2. Brought(r)
      <4>1. Happened(r)
        BY <3>1, PipelineFacts, ViewFacts
      <4>. QED  BY <2>0, <4>1 DEF Happened
    <3>3. PICK i \in ImportIds : \E k \in 1..imports[i].sent : r = Append(imports[i].lines[k], i)
      BY <3>2 DEF Brought
    <3>4. PICK k \in 1..imports[i].sent : r = Append(imports[i].lines[k], i)
      BY <3>3
    <3>5. /\ DOMAIN imports[i].lines = 1..Len(imports[i].lines) /\ k \in DOMAIN imports[i].lines
          /\ i \in Nat
      BY PipelineFacts, ImportFacts
    <3>6. imports[i].lines[k] \in Range(imports[i].lines) /\ i \in Loaded
      BY <3>5 DEF Range, Loaded
    <3>7. PICK n \in Source : imports[i].lines[k] = SourceRow(n)
      BY <2>0, <3>6
    <3>8. r[1] = MaxWritten + n
      <4>1. MaxWritten + n \in Nat
        BY ServiceAssumption, PipelineAssumption DEF Source
      <4>2. <<MaxWritten + n>> \in Rows
        BY <4>1 DEF Rows
      <4>3. Append(<<MaxWritten + n>>, i)[1] = MaxWritten + n
        BY <3>5, <4>1
      <4>. QED  BY <3>4, <3>7, <4>3 DEF SourceRow
    <3>9. n = m
      <4>1. MaxWritten \in Nat /\ n \in Nat /\ m \in Nat
        BY ServiceAssumption, PipelineAssumption DEF Source
      <4>. QED  BY <2>3, <3>8, <4>1
    <3>. QED  BY <3>4, <3>6, <3>7, <3>9
  <2>4. Cardinality({i \in ImportIds : SourceRow(m) \in Range(imports[i].lines)}) <= 1
    BY <2>0, <2>1, <2>2
  <2>5. \A q, r \in {r \in Imported(bView) : r[1] = MaxWritten + m} : q = r
    BY <2>0, <2>3
  <2>. QED  BY <2>1, <2>4, <2>5
<1>. QED  BY PipelineInvariant, <1>1, PTL

\* Though the catalog may have grown since the sample was drawn, the final ids
\* have the albums of the picked messages and of those they answer without a
\* gap, and each message that a picked one or an album member drawn with it
\* answers (apply_closures, closures_from_catalog, pipeline.py:302-317,
\* 388-403).
THEOREM AlbumsAreWhole == PipelineSpec => []AlbumsWhole
<1>1. PipelineInv => AlbumsWhole
  <2>. DEFINE asked == sample.picked \cup Parents(sample.picked)
              drawn == sample.picked \cup (Mates(sample.picked) \cap sample.ids)
  <2>. SUFFICES ASSUME PipelineInv
                PROVE  asked \cup Mates(asked) \subseteq FinalIds /\ Parents(drawn) \subseteq FinalIds
    BY DEF AlbumsWhole
  <2>1. sample.picked \subseteq sample.ids
    BY PipelineFacts
  <2>2. Parents(sample.picked) \subseteq sample.ids
    <3>. SUFFICES ASSUME NEW i \in sample.picked, ReplyTo[i] \in Range(catalog) \ {Torn}
                  PROVE  ReplyTo[i] \in sample.ids
      BY DEF Parents
    <3>. QED  BY DEF PipelineInv, ParentsSampled, Torn
  <2>3. asked \subseteq sample.ids /\ drawn \subseteq sample.ids
    BY <2>1, <2>2
  <2>. HIDE DEF asked, drawn
  <2>4. Mates(asked) \subseteq Mates(sample.ids) /\ Parents(drawn) \subseteq Parents(sample.ids)
    BY <2>3 DEF Mates, Parents
  <2>. QED  BY <2>3, <2>4 DEF FinalIds, Closed
<1>. QED  BY PipelineInvariant, <1>1, PTL
=============================================================================
