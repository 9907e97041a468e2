------------------------------ MODULE ChatCopy ------------------------------
(***************************************************************************)
(* What an export promises: a cursor goes through the chat from the newest *)
(* message to the oldest, and every message it passes is copied once.  The *)
(* copy may be left and taken up again at any time, is done only when the  *)
(* cursor has reached the end of the chat, and may be thrown away.         *)
(***************************************************************************)
EXTENDS Naturals

CONSTANTS MaxId, OldMessages

VARIABLES chat, copied, cursor, state

Init ==
    /\ chat = OldMessages
    /\ copied = {} /\ cursor = 0
    /\ state = "open"

BelowCursor == {m \in chat : cursor = 0 \/ m < cursor}

\* New messages are above all others.
Arrive ==
    /\ \E m \in 1..MaxId : (\A n \in chat : n < m) /\ chat' = chat \cup {m}
    /\ UNCHANGED <<copied, cursor, state>>

\* One more page: the messages from the cursor down to its new position.
CopyPage ==
    /\ state = "open"
    /\ \E low \in BelowCursor :
          /\ cursor' = low
          /\ copied' = copied \cup {m \in BelowCursor : m >= low}
          /\ copied \cap {m \in BelowCursor : m >= low} = {}
    /\ UNCHANGED <<chat, state>>

\* The same, when messages arrived after the page was fetched: they are above
\* the page and stay out of the copy.
CopyStalePage ==
    /\ state = "open" /\ cursor = 0
    /\ \E low, high \in chat :
          /\ low <= high
          /\ cursor' = low
          /\ copied' = {m \in chat : low <= m /\ m <= high}
    /\ copied = {}
    /\ UNCHANGED <<chat, state>>

\* Nothing is left below the cursor.  A chat that was empty is done before the
\* cursor has a position, even if its first message arrives meanwhile.
Finish ==
    /\ state = "open"
    /\ BelowCursor = {} \/ (cursor = 0 /\ OldMessages = {})
    /\ state' = "done"
    /\ UNCHANGED <<chat, copied, cursor>>

Reopen ==
    /\ state = "done" /\ state' = "open"
    /\ UNCHANGED <<chat, copied, cursor>>

Discard ==
    /\ state' = "gone" /\ copied' = {} /\ cursor' = 0
    /\ UNCHANGED chat

Next == Arrive \/ CopyPage \/ CopyStalePage \/ Finish \/ Reopen \/ Discard

Spec == Init /\ [][Next]_<<chat, copied, cursor, state>>
=============================================================================
