--------------------------- MODULE MessageMapper ----------------------------
(***************************************************************************)
(* Which imported message is the twin of which source message              *)
(* (recovery/mapper.py), and what the fidelity report says of a pair       *)
(* (recovery/verifier.py).  The mapper is greedy: it takes the source      *)
(* records in order, and each takes the first free candidate that fits.    *)
(*                                                                         *)
(* A behaviour is one recovery: the source messages, what became of each   *)
(* in the target, and the mapping, one source record after the other.      *)
(* Times are in minutes; texts, files, ids and senders are numbers, 0 for  *)
(* none.  Of what the target looks like the code knows nothing for sure:   *)
(* the project's report marks sender, date, media and answer of an         *)
(* imported message PENDING-LIVE, so each of them may be lost here.        *)
(***************************************************************************)
EXTENDS Naturals, FiniteSets, FiniteSetsExt, Sequences, SequencesExt

CONSTANTS
    Sources,       \* how many source messages there are
    Minutes,       \* when they may have been sent
    Sender,        \* who sent each, 0 where the archive names no user
    Today,         \* when the import takes place
    Fates,         \* what an import may lose of a message, a set of sets
    Nearby,        \* how far a forward date may be off (3 minutes)
    Shift,         \* or be late by, and that far off (60 minutes)
    DateTolerance  \* how far apart dates of equal texts may be

\* That it arrives; the hour (a time zone with a summer time); the file; the
\* words (the text is reformatted); the date of the message; the header that
\* marks it imported and has the date of the original; the sender's name in
\* that header; the server's id of the file; whom it answers.
Losses == {"message", "hour", "file", "words", "date", "header", "name", "file id", "answer"}

ASSUME MapperAssumption ==
    /\ Sources \in Nat \ {0} /\ Minutes \subseteq Nat /\ Today \in Nat
    /\ Sender \in [1..Sources -> Nat] /\ Fates \subseteq SUBSET Losses
    /\ Nearby \in Nat /\ Shift \in Nat /\ DateTolerance \in Nat

VARIABLES
    source,    \* the archived records, in the archive's order
    target,    \* the target's records, which are read newest first
    mapping,   \* the target id of each source id, 0 when it has none
    read       \* how many source records the mapper has been through

mapperVars == <<source, target, mapping, read>>

SourceIds == 1..Sources
Unset == 0
Common == Sources + 1         \* a text, or a file, that several messages have
OtherText(x) == x + Common    \* a text the import has reformatted
NewDoc(s) == s + Common       \* the id the server gives an uploaded file
OldId == 1                    \* a message the target had before the import
TargetId(s) == OldId + s      \* the messages arrive in the order of the file

Shapes == {"captioned", "sticker", "greeting"}
\* sha: of a file that was downloaded; doc: the server's id of it.
SourceRecord(s, minute, shape, parent) ==
    LET file == CASE shape = "captioned" -> s [] shape = "sticker" -> Common
                  [] shape = "greeting" -> Unset
    IN [id |-> s, date |-> minute, from |-> Sender[s], reply |-> parent,
        file |-> file, sha |-> file, doc |-> file,
        text |-> CASE shape = "captioned" -> s [] shape = "sticker" -> Unset
                   [] shape = "greeting" -> Common]
\* The target's files are not downloaded: no record of it has a hash.
TargetRecord(r, fate) ==
    LET Kept(what, value) == IF what \in fate THEN Unset ELSE value
    IN [id |-> TargetId(r.id),
        date |-> IF "date" \in fate THEN Today ELSE r.date,
        header |-> "header" \notin fate,
        fwd |-> IF "hour" \in fate THEN r.date + Shift ELSE r.date,
        name |-> Kept("name", r.from),
        file |-> Kept("file", r.file), sha |-> Unset,
        doc |-> Kept("file", IF "file id" \in fate /\ r.doc # Unset THEN NewDoc(r.id)
                             ELSE r.doc),
        text |-> IF "words" \in fate /\ r.text # Unset THEN OtherText(r.text) ELSE r.text,
        reply |-> Kept("answer", IF r.reply = Unset THEN Unset ELSE TargetId(r.reply))]
\* An older import of the first message.
OldRecord(r) == [TargetRecord(r, {}) EXCEPT !.id = OldId, !.reply = Unset]

-----------------------------------------------------------------------------
(* mapper.py *)

Within(a, b, d) == a <= b + d /\ b <= a + d
\* The first of the records, in the order they are read.
FirstId(records) == Max({t.id : t \in records})

SentWith(s, t) == \/ Within(t.fwd, s.date, Nearby)
                  \/ Within(t.fwd, s.date + Shift, Nearby)
FwdMatches_AnySender(s, t) == t.header /\ SentWith(s, t)             \* (mistake)
\* The forward date, and the sender where the source names one.
FwdMatches(s, t) == /\ t.header
                    /\ SentWith(s, t)
                    /\ s.from # Unset => t.name = s.from
TextMatches(s, t) == /\ s.text # Unset /\ s.text = t.text
                     /\ Within(s.date, t.date, DateTolerance)
                     /\ (s.file = Unset) = (t.file = Unset)
\* _match_source, then _sequence_fallback: by hash, by the id of the file, by
\* forward date, by text and date, by position.
Match(s, used) ==
    LET free == {t \in target : t.id # OldId /\ t.id \notin used}
        fits == << {t \in free : s.sha # Unset /\ t.sha = s.sha},
                   {t \in free : s.doc # Unset /\ t.doc = s.doc},
                   {t \in free : FwdMatches(s, t)},
                   {t \in free : TextMatches(s, t)},
                   free >>
        ways == {w \in DOMAIN fits : fits[w] # {}}
    IN IF ways = {} THEN Unset ELSE FirstId(fits[Min(ways)])

Mapped_Reuses(done, s) == [done EXCEPT ![s.id] = Match(s, {})]       \* (mistake)
\* A target that is taken is not taken again.
Mapped(done, s) == [done EXCEPT ![s.id] = Match(s, {done[i] : i \in SourceIds})]

-----------------------------------------------------------------------------
(* verifier.py: NoTarget stands for the empty record of an unmapped one. *)

NoTarget == [id |-> Unset, file |-> Unset, text |-> Unset, reply |-> Unset]
TargetOf(s) == IF mapping[s.id] = Unset THEN NoTarget
               ELSE CHOOSE t \in target : t.id = mapping[s.id]
TextClass(s, t) == CASE s.text = t.text -> "EXACT"
                     [] t.text = OtherText(s.text) -> "PARTIAL"
                     [] OTHER -> "FAILED"
CaptionClass(s, t) ==
    CASE s.file = Unset -> "NONE"
      [] s.file # Unset /\ (t.file = Unset \/ t.text = Unset) -> "CAPTION_LOST"
      [] s.file # Unset /\ t.file # Unset /\ t.text # Unset ->
            IF s.text = t.text THEN "CAPTION_ATTACHED" ELSE "CAPTION_SEPARATE"
ReplyClass(s, t) ==
    CASE s.reply = Unset -> "NONE"
      [] s.reply # Unset /\ t.reply = Unset -> "ARCHIVAL_ONLY"
      [] s.reply # Unset /\ t.reply # Unset ->
            IF mapping[s.reply] = t.reply THEN "REPLY_EXACT" ELSE "REPLY_PARTIAL"

-----------------------------------------------------------------------------
NothingMapped == [i \in SourceIds |-> Unset]
MapperTypeOK ==
    /\ Len(source) \in {0, Sources} /\ read \in 0..Len(source)
    /\ \A k \in DOMAIN source : source[k].id \in SourceIds
    /\ mapping \in [SourceIds -> {Unset} \cup {t.id : t \in target}]

MapperInit == source = <<>> /\ target = {} /\ mapping = NothingMapped /\ read = 0

\* A recovery: messages sent in the order of their ids, the last answering
\* the one before it, read oldest first or newest first.
Recover(order) ==
    /\ source = <<>>
    /\ \E minute \in [SourceIds -> Minutes], shape \in [SourceIds -> Shapes],
          fate \in [SourceIds -> Fates] :
          LET rec == [s \in SourceIds |->
                        SourceRecord(s, minute[s], shape[s],
                                     IF s = Sources THEN s - 1 ELSE Unset)]
              there == {s \in SourceIds : "message" \notin fate[s]}
          IN /\ \A s \in SourceIds \ {1} : minute[s - 1] <= minute[s]
             /\ source' = IF order = "oldest first" THEN rec ELSE Reverse(rec)
             /\ target' = {TargetRecord(rec[s], fate[s]) : s \in there} \cup {OldRecord(rec[1])}
    /\ UNCHANGED <<mapping, read>>

\* map_source_to_target, one turn of its loop; only the messages that are new
\* in the target are candidates.
MapSourceToTarget ==
    /\ read < Len(source)
    /\ mapping' = Mapped(mapping, source[read + 1])
    /\ read' = read + 1
    /\ UNCHANGED <<source, target>>

MapperNext ==
    \/ \E order \in {"oldest first", "newest first"} : Recover(order)
    \/ MapSourceToTarget

MapperSpec == MapperInit /\ [][MapperNext]_mapperVars

-----------------------------------------------------------------------------
Twin(s) == TargetId(s.id)
\* The message has arrived, marked as imported, with its sender's name.
Recognizable(s) ==
    \E t \in target : /\ t.id = Twin(s) /\ t.header
                      /\ s.from # Unset => t.name = s.from
SentApart(a, b) == /\ ~Within(a.date, b.date, Nearby)
                   /\ ~Within(a.date, b.date + Shift, Nearby)
                   /\ ~Within(b.date, a.date + Shift, Nearby)
\* Two messages that nothing the mapper looks at can mix up: different files,
\* and different senders or different times.
Apart(a, b) ==
    /\ a.file = b.file => a.file = Unset
    /\ (a.from # Unset /\ b.from # Unset /\ a.from # b.from) \/ SentApart(a, b)
AllApart == \A i, j \in DOMAIN source : i # j => Apart(source[i], source[j])
AllRecognizable == \A i \in DOMAIN source : Recognizable(source[i])

(* No two source messages are given one target, none an older message of   *)
(* the target, and one is left without a target only when no new message   *)
(* is left (map_source_to_target, mapper.py:79-110).                       *)
MappingInjective ==
    /\ \A i, j \in SourceIds : mapping[i] = mapping[j] => i = j \/ mapping[i] = Unset
    /\ OldId \notin Range(mapping)
    /\ (\E k \in 1..read : mapping[source[k].id] = Unset) =>
          \A t \in target : t.id \in Range(mapping) \cup {OldId}

\* What the report may claim of a pair.
Honest(s, t) ==
    /\ ReplyClass(s, t) = "REPLY_EXACT" => t.reply = TargetId(s.reply)
    /\ CaptionClass(s, t) = "CAPTION_ATTACHED" => t.file = s.file /\ t.text = s.text
    /\ TextClass(s, t) # "FAILED"

(* When every message has arrived, marked as imported and with its         *)
(* sender's name, and no two have the same file, or times within the       *)
(* mapper's tolerances of each other or of an hour's distance and not two  *)
(* different senders, each one is given its own twin, though files, words, *)
(* hours and dates were lost; and the report calls an answer exact only    *)
(* where the target's message answers the twin of what the source's        *)
(* answered, a caption attached only where file and text were kept, and no *)
(* text failed (_match_source, mapper.py:132-185; verifier.py:23-32,       *)
(* 116-144).                                                               *)
TwinsFound ==
    AllApart /\ AllRecognizable /\ read = Len(source) =>
        \A i \in DOMAIN source :
           /\ mapping[source[i].id] = Twin(source[i])
           /\ Honest(source[i], TargetOf(source[i]))
=============================================================================
