--------------------------- MODULE ImportService ----------------------------
(***************************************************************************)
(* Telegram as the recovery tools use it (recovery/importer.py,            *)
(* recovery/engine.py, recovery/pipeline.py): one chat of the accounts A   *)
(* and B, which each of them has a view of, and the history imports into   *)
(* it.  External to the repository: what these actions do is what its code *)
(* and its protocol notes rely on.                                         *)
(*                                                                         *)
(* A message is the sequence of what made it: <<m>> is the m-th message    *)
(* somebody wrote, Append(r, i) the copy of r that import i put there.     *)
(***************************************************************************)
EXTENDS Naturals, FiniteSets, Sequences, SequencesExt

CONSTANTS MaxWritten,   \* bound: messages that are written
          MaxImports    \* bound: imports that are opened

ASSUME ServiceAssumption == MaxWritten \in Nat /\ MaxImports \in Nat

VARIABLES
    aView,      \* A's view of the chat, oldest first
    bView,      \* B's view
    imports     \* the imports, by import_id

serviceVars == <<aView, bView, imports>>

\* The numbers of a finite set in ascending order, and the elements of s at
\* the indices I in the order of s: SetToSortSeq and SelectSeq, without the
\* recursion that puts these out of the provers' reach.
Ascending(S) ==
    [k \in 1..Cardinality(S) |-> CHOOSE x \in S : Cardinality({y \in S : y <= x}) = k]
ElementsAt(s, I) == [k \in 1..Cardinality(I) |-> s[Ascending(I)[k]]]

Written(view) == {r \in Range(view) : Len(r) = 1}
Imported(view) == {r \in Range(view) : Len(r) > 1}
ImportIds == DOMAIN imports
\* The copies an import has yet to put into the chat.
Arriving(i) == IF imports[i].state # "started" THEN {}
               ELSE {Append(imports[i].lines[k], i) :
                       k \in (imports[i].sent + 1)..Len(imports[i].lines)}

ServiceTypeOK ==
    /\ \A view \in {aView, bView} :
          /\ IsInjective(view)
          /\ \A r \in Range(view) : r \in Seq(Nat) /\ r # <<>>
    /\ Len(imports) <= MaxImports
    /\ \A i \in ImportIds :
          /\ imports[i].state \in {"open", "started", "reverted"}
          /\ imports[i].sent \in 0..Len(imports[i].lines)

ServiceInit(first) == aView = first /\ bView = first /\ imports = <<>>

\* initHistoryImport, with the lines of the chat file.
Opened(lines) == Append(imports, [lines |-> lines, state |-> "open", sent |-> 0])
\* startHistoryImport
Started(i) == [imports EXCEPT ![i].state = "started"]

\* The next message of an import that was started appears, on both sides.
ImportArrives ==
    \E i \in ImportIds :
       LET copy == Append(imports[i].lines[imports[i].sent + 1], i) IN
       /\ Arriving(i) # {}
       /\ imports' = [imports EXCEPT ![i].sent = @ + 1]
       /\ aView' = Append(aView, copy)
       /\ bView' = Append(bView, copy)

\* The server takes a whole import back.
ImportReverted ==
    \E i \in ImportIds :
       LET Kept(view) == ElementsAt(view, {k \in DOMAIN view :
                                             Len(view[k]) = 1 \/ Last(view[k]) # i}) IN
       /\ imports[i].state = "started"
       /\ imports' = [imports EXCEPT ![i].state = "reverted"]
       /\ aView' = Kept(aView)
       /\ bView' = Kept(bView)

\* A or B writes.
MessageWritten ==
    LET m == Cardinality(Written(aView)) + 1 IN
    /\ m <= MaxWritten
    /\ aView' = Append(aView, <<m>>)
    /\ bView' = Append(bView, <<m>>)
    /\ UNCHANGED imports

ServiceNext == ImportArrives \/ ImportReverted \/ MessageWritten
=============================================================================
