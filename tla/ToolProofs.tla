----------------------------- MODULE ToolProofs -----------------------------
(***************************************************************************)
(* What holds of AccountTool for every set of phones and every number of   *)
(* sign-ins, and of MessageMapper for every number of messages and every   *)
(* tolerance of its dates.                                                 *)
(***************************************************************************)
EXTENDS AccountTool, MessageMapper, FiniteSetTheorems, FunctionTheorems,
        SequenceTheorems, WellFoundedInduction, TLAPS

-----------------------------------------------------------------------------
(* The account tool. *)

\* A session is known once its sign-in has happened; a session that waits to
\* be written is in no other phone's file.
KnownSessions ==
    /\ authorized \subseteq 1..signIns
    /\ \A p \in Phones : sessionFiles[p] \in Sessions => sessionFiles[p] \in 1..signIns
    /\ \A p, q \in Phones :
          p # q /\ sessionFiles[p] \in Sessions => sessionFiles[p] # sessionFiles[q]
    /\ menu.step \in {"me", "open", "fill", "upsert"} =>
          /\ menu.session \in 1..signIns
          /\ \A q \in Phones : q # menu.phone => sessionFiles[q] # menu.session

\* The file that a choice is about to overwrite or remove holds no session
\* that Telegram accepts, other than the one in the choice's hands.
FileInHand ==
    LET file == sessionFiles[menu.phone] IN
    /\ menu.step \in {"me", "open", "logout"} /\ file \in authorized =>
          file = menu.session \/ file \in strays
    /\ menu.step = "fill" => file = EmptyFile
    /\ menu.step = "upsert" => file = menu.session
    /\ menu.step = "logout" /\ menu.session \in Sessions => file = menu.session
    /\ menu.step = "unlink" /\ file \in authorized => file \in strays
    /\ menu.step = "delete" => file = MissingFile
    /\ menu.step \in {"unlink", "delete"} => menu.session = NoSession

\* A phone without a row has no session in its file, unless a fault or the
\* write before the row's put it there.
RowlessFile ==
    \A p \in Phones : ~accounts[p].row /\ sessionFiles[p] \in authorized =>
        \/ sessionFiles[p] \in strays
        \/ menu.step = "upsert" /\ menu.phone = p

ToolInv == /\ ToolTypeOK /\ KnownSessions /\ FileInHand /\ RowlessFile
           /\ NoSessionLost /\ ShownHasSession

-----------------------------------------------------------------------------
\* The marks of a file without a session are not sessions, nor each other.
LEMMA FileMarks ==
    /\ EmptyFile \notin Sessions /\ CutFile \notin Sessions /\ MissingFile \notin Sessions
    /\ EmptyFile # MissingFile /\ CutFile # MissingFile /\ EmptyFile # CutFile
    /\ NoSession \notin Sessions
    /\ {EmptyFile, CutFile, MissingFile} \subseteq FileStates
    /\ FileStates \ {EmptyFile, CutFile, MissingFile} \subseteq Sessions
BY ToolAssumption DEF EmptyFile, CutFile, MissingFile, Sessions, NoSession, FileStates

\* The menu between two choices.
LEMMA IdleType ==
    /\ Idle \in MenuChoices
    /\ Idle.phone \in Phones /\ Idle.step = "idle" /\ Idle.session = NoSession
BY ToolAssumption DEF Idle, MenuChoices

\* What a choice is entered with makes a choice.
LEMMA EnterType ==
    ASSUME NEW step \in {"me", "open", "fill", "upsert", "logout", "unlink", "delete"},
           NEW p \in Phones, NEW s \in Sessions \cup {NoSession}, Enter(step, p, s)
    PROVE  menu' \in MenuChoices /\ menu'.step = step /\ menu'.phone = p /\ menu'.session = s
BY DEF Enter, MenuChoices

\* Nothing has happened: no session, no file, no row.
LEMMA ToolInvInit == ToolInit => ToolInv
<1>. SUFFICES ASSUME ToolInit PROVE ToolInv
  OBVIOUS
<1>. USE FileMarks, IdleType, ToolAssumption
<1>1. ToolTypeOK
  BY DEF ToolInit, ToolTypeOK, NoAccount, FileStates
<1>2. KnownSessions /\ FileInHand /\ RowlessFile /\ NoSessionLost
  BY DEF ToolInit, KnownSessions, FileInHand, RowlessFile, NoSessionLost
<1>3. ShownHasSession
  BY DEF ToolInit, ShownHasSession, NoAccount
<1>. QED  BY <1>1, <1>2, <1>3 DEF ToolInv

\* The session reused is the one in the file that will be rewritten.
LEMMA ReuseSessionKeeps ==
    ASSUME ToolInv, NEW p \in Phones, ReuseSession(p)
    PROVE  ToolInv'
<1>. USE FileMarks, IdleType, ToolAssumption DEF ReuseSession, Enter, MenuChoices, SavedSession
<1>1. ToolTypeOK'
  BY DEF ToolInv, ToolTypeOK
<1>2. KnownSessions'
  BY DEF ToolInv, ToolTypeOK, KnownSessions
<1>3. FileInHand'
  BY DEF ToolInv, FileInHand, RowlessFile
<1>4. RowlessFile'
  BY DEF ToolInv, RowlessFile
<1>5. NoSessionLost'
  BY DEF ToolInv, NoSessionLost
<1>6. ShownHasSession'
  BY DEF ToolInv, ShownHasSession, Rewriting
<1>. QED  BY <1>1, <1>2, <1>3, <1>4, <1>5, <1>6 DEF ToolInv

\* A new session is in no file yet; the file it will replace has a live
\* session only as a stray, as its phone has no row or a session that ended.
LEMMA SignInKeeps ==
    ASSUME ToolInv, NEW p \in Phones, SignIn(p)
    PROVE  ToolInv'
<1>. USE FileMarks, IdleType, ToolAssumption DEF SignIn, Enter, MenuChoices, SavedSession
<1>1. ToolTypeOK'
  BY DEF ToolInv, ToolTypeOK, Sessions
<1>2. KnownSessions'
  BY DEF ToolInv, ToolTypeOK, KnownSessions, Sessions
<1>3. FileInHand'
  BY DEF ToolInv, FileInHand, RowlessFile
<1>4. RowlessFile'
  BY DEF ToolInv, ToolTypeOK, KnownSessions, RowlessFile, Sessions
<1>5. NoSessionLost'
  BY DEF ToolInv, NoSessionLost
<1>6. ShownHasSession'
  BY DEF ToolInv, ShownHasSession, Rewriting
<1>. QED  BY <1>1, <1>2, <1>3, <1>4, <1>5, <1>6 DEF ToolInv

\* An account is shown as authorized only if its file answered.
LEMMA TestSessionKeeps ==
    ASSUME ToolInv, NEW p \in Phones, TestSession(p)
    PROVE  ToolInv'
<1>. USE FileMarks, IdleType, ToolAssumption DEF MenuChoices
<1>a. PICK valid \in CheckedSession(p) :
         accounts' = [accounts EXCEPT ![p] = [row |-> TRUE, valid |-> valid, user |-> FALSE]]
  BY DEF TestSession
<1>b. /\ valid \in BOOLEAN
      /\ valid => sessionFiles[p] \in authorized
  BY DEF CheckedSession
<1>c. /\ UNCHANGED <<sessionFiles, authorized, signIns, menu, strays, interrupted>>
      /\ menu.step = "idle" /\ accounts[p].row
  BY DEF TestSession
<1>0. /\ accounts' = [accounts EXCEPT ![p] = [row |-> TRUE, valid |-> valid, user |-> FALSE]]
      /\ valid \in BOOLEAN
      /\ valid => sessionFiles[p] \in authorized
      /\ UNCHANGED <<sessionFiles, authorized, signIns, menu, strays, interrupted>>
      /\ menu.step = "idle" /\ accounts[p].row
  BY <1>a, <1>b, <1>c
<1>1. ToolTypeOK'
  <2>1. accounts' \in [Phones -> [row : BOOLEAN, valid : BOOLEAN, user : BOOLEAN]]
    BY <1>0 DEF ToolInv, ToolTypeOK
  <2>. QED  BY <1>0, <2>1 DEF ToolInv, ToolTypeOK
<1>2. KnownSessions'
  BY <1>0 DEF ToolInv, KnownSessions
<1>3. FileInHand'
  BY <1>0 DEF FileInHand
<1>4. RowlessFile'
  BY <1>0 DEF ToolInv, RowlessFile
<1>5. NoSessionLost'
  BY <1>0 DEF ToolInv, NoSessionLost
<1>6. ShownHasSession'
  <2>. SUFFICES ASSUME NEW q \in Phones, accounts'[q].valid
                PROVE  \/ q \in interrupted
                       \/ /\ sessionFiles[q] \in Sessions
                          /\ \A r \in Phones \ {q} : sessionFiles[r] # sessionFiles[q]
    BY <1>0 DEF ShownHasSession
  <2>1. CASE q = p
    <3>1. sessionFiles[p] \in authorized
      BY <1>0, <2>1 DEF ToolInv, ToolTypeOK
    <3>. QED  BY <2>1, <3>1 DEF ToolInv, ToolTypeOK, KnownSessions
  <2>2. CASE q # p
    <3>1. accounts[q].valid /\ ~Rewriting(q)
      BY <1>0, <2>2 DEF Rewriting
    <3>. QED  BY <3>1 DEF ToolInv, ShownHasSession
  <2>. QED  BY <2>1, <2>2
<1>. QED  BY <1>1, <1>2, <1>3, <1>4, <1>5, <1>6 DEF ToolInv

\* The session to log out is the one in the file to be removed.
LEMMA StartRemovalKeeps ==
    ASSUME ToolInv, NEW p \in Phones, StartRemoval(p)
    PROVE  ToolInv'
<1>. USE FileMarks, IdleType, ToolAssumption DEF StartRemoval, Enter, MenuChoices
<1>1. ToolTypeOK'
  BY DEF ToolInv, ToolTypeOK
<1>2. KnownSessions'
  BY DEF ToolInv, KnownSessions
<1>3. FileInHand'
  <2>1. CASE sessionFiles[p] = MissingFile
    BY <2>1 DEF FileInHand
  <2>2. CASE sessionFiles[p] # MissingFile
    <3>1. /\ menu'.step = "logout" /\ menu'.phone = p
          /\ sessionFiles[p] \in Sessions => menu'.session = sessionFiles[p]
          /\ menu'.session \in Sessions => menu'.session = sessionFiles[p]
      BY <2>2
    <3>. QED  BY <3>1 DEF ToolInv, ToolTypeOK, FileInHand
  <2>. QED  BY <2>1, <2>2
<1>4. RowlessFile'
  BY DEF ToolInv, RowlessFile
<1>5. NoSessionLost'
  BY DEF ToolInv, NoSessionLost
<1>6. ShownHasSession'
  BY DEF ToolInv, ShownHasSession, Rewriting
<1>. QED  BY <1>1, <1>2, <1>3, <1>4, <1>5, <1>6 DEF ToolInv

\* A sign-in that is given up leaves its session in its file or as a stray.
LEMMA GetMeKeeps ==
    ASSUME ToolInv, GetMe
    PROVE  ToolInv'
<1>. USE FileMarks, IdleType, ToolAssumption DEF GetMe, Enter, MenuChoices
<1>1. ToolTypeOK'
  <2>1. menu.session \in Sessions /\ menu.phone \in Phones
    BY DEF ToolInv, ToolTypeOK, KnownSessions, Sessions
  <2>2. menu' \in MenuChoices
    BY <2>1
  <2>3. strays' \subseteq Sessions
    BY <2>1 DEF ToolInv, ToolTypeOK
  <2>. QED  BY <2>2, <2>3 DEF ToolInv, ToolTypeOK
<1>2. KnownSessions'
  BY DEF ToolInv, KnownSessions
<1>3. FileInHand'
  BY DEF ToolInv, FileInHand
<1>4. RowlessFile'
  BY DEF ToolInv, RowlessFile
<1>5. NoSessionLost'
  BY DEF ToolInv, ToolTypeOK, NoSessionLost
<1>6. ShownHasSession'
  BY DEF ToolInv, ShownHasSession, Rewriting
<1>. QED  BY <1>1, <1>2, <1>3, <1>4, <1>5, <1>6 DEF ToolInv

\* The file that is emptied held the session in hand, or none that lives.
LEMMA OpenFileKeeps ==
    ASSUME ToolInv, OpenFile
    PROVE  ToolInv'
<1>. USE FileMarks, IdleType, ToolAssumption DEF OpenFile, Enter, MenuChoices
<1>1. ToolTypeOK'
  BY DEF ToolInv, ToolTypeOK
<1>2. KnownSessions'
  BY DEF ToolInv, KnownSessions
<1>3. FileInHand'
  BY DEF ToolInv, ToolTypeOK, FileInHand
<1>4. RowlessFile'
  BY DEF ToolInv, ToolTypeOK, RowlessFile
<1>5. NoSessionLost'
  BY DEF ToolInv, FileInHand, NoSessionLost
<1>6. ShownHasSession'
  BY DEF ToolInv, ShownHasSession, Rewriting
<1>. QED  BY <1>1, <1>2, <1>3, <1>4, <1>5, <1>6 DEF ToolInv

\* The session in hand is in no other file, and now in its own.
LEMMA FillFileKeeps ==
    ASSUME ToolInv, FillFile
    PROVE  ToolInv'
<1>. USE FileMarks, IdleType, ToolAssumption DEF FillFile, Enter, MenuChoices
<1>1. ToolTypeOK'
  BY DEF ToolInv, ToolTypeOK, KnownSessions, FileStates, NoSession
<1>2. KnownSessions'
  BY DEF ToolInv, KnownSessions
<1>3. FileInHand'
  BY DEF ToolInv, ToolTypeOK, FileInHand
<1>4. RowlessFile'
  BY DEF ToolInv, RowlessFile
<1>5. NoSessionLost'
  BY DEF ToolInv, ToolTypeOK, FileInHand, NoSessionLost
<1>6. ShownHasSession'
  BY DEF ToolInv, ToolTypeOK, KnownSessions, ShownHasSession, Rewriting, Sessions
<1>. QED  BY <1>1, <1>2, <1>3, <1>4, <1>5, <1>6 DEF ToolInv

\* The row is written for a file that has the session.
LEMMA UpsertKeeps ==
    ASSUME ToolInv, Upsert
    PROVE  ToolInv'
<1>. USE FileMarks, IdleType, ToolAssumption DEF Upsert, Enter, MenuChoices
<1>1. ToolTypeOK'
  BY DEF ToolInv, ToolTypeOK
<1>2. KnownSessions'
  BY DEF ToolInv, KnownSessions
<1>3. FileInHand'
  BY DEF FileInHand
<1>4. RowlessFile'
  BY DEF ToolInv, ToolTypeOK, RowlessFile
<1>5. NoSessionLost'
  BY DEF ToolInv, ToolTypeOK, FileInHand, NoSessionLost
<1>6. ShownHasSession'
  BY DEF ToolInv, ToolTypeOK, KnownSessions, FileInHand, ShownHasSession, Rewriting, Sessions
<1>. QED  BY <1>1, <1>2, <1>3, <1>4, <1>5, <1>6 DEF ToolInv

\* A logout ends the session, or makes it a stray.
LEMMA LogOutKeeps ==
    ASSUME ToolInv, LogOut
    PROVE  ToolInv'
<1>. USE FileMarks, IdleType, ToolAssumption DEF LogOut, Enter, MenuChoices
<1>1. ToolTypeOK'
  BY DEF ToolInv, ToolTypeOK
<1>2. KnownSessions'
  BY DEF ToolInv, KnownSessions
<1>3. FileInHand'
  BY DEF ToolInv, FileInHand
<1>4. RowlessFile'
  BY DEF ToolInv, RowlessFile
<1>5. NoSessionLost'
  BY DEF ToolInv, NoSessionLost
<1>6. ShownHasSession'
  BY DEF ToolInv, ShownHasSession, Rewriting
<1>. QED  BY <1>1, <1>2, <1>3, <1>4, <1>5, <1>6 DEF ToolInv

\* The file that is removed holds no live session but strays.
LEMMA UnlinkKeeps ==
    ASSUME ToolInv, Unlink
    PROVE  ToolInv'
<1>. USE FileMarks, IdleType, ToolAssumption DEF Unlink, Enter, MenuChoices
<1>1. ToolTypeOK'
  BY DEF ToolInv, ToolTypeOK
<1>2. KnownSessions'
  BY DEF ToolInv, KnownSessions
<1>3. FileInHand'
  BY DEF ToolInv, ToolTypeOK, FileInHand
<1>4. RowlessFile'
  BY DEF ToolInv, ToolTypeOK, RowlessFile
<1>5. NoSessionLost'
  BY DEF ToolInv, FileInHand, NoSessionLost
<1>6. ShownHasSession'
  BY DEF ToolInv, ShownHasSession, Rewriting
<1>. QED  BY <1>1, <1>2, <1>3, <1>4, <1>5, <1>6 DEF ToolInv

\* The row goes when its file has gone.
LEMMA DeleteRowKeeps ==
    ASSUME ToolInv, DeleteRow
    PROVE  ToolInv'
<1>. USE FileMarks, IdleType, ToolAssumption DEF DeleteRow, Enter, MenuChoices, NoAccount
<1>1. ToolTypeOK'
  BY DEF ToolInv, ToolTypeOK
<1>2. KnownSessions'
  BY DEF ToolInv, KnownSessions
<1>3. FileInHand'
  BY DEF FileInHand
<1>4. RowlessFile'
  <2>1. sessionFiles[menu.phone] \notin authorized
    BY DEF ToolInv, ToolTypeOK, FileInHand
  <2>2. \A q \in Phones \ {menu.phone} : accounts'[q] = accounts[q]
    OBVIOUS
  <2>. QED  BY <2>1, <2>2 DEF ToolInv, RowlessFile
<1>5. NoSessionLost'
  BY DEF ToolInv, ToolTypeOK, FileInHand, NoSessionLost
<1>6. ShownHasSession'
  BY DEF ToolInv, ToolTypeOK, ShownHasSession, Rewriting
<1>. QED  BY <1>1, <1>2, <1>3, <1>4, <1>5, <1>6 DEF ToolInv

\* A session less on the server asks less of the files.
LEMMA RevokeKeeps ==
    ASSUME ToolInv, Revoke
    PROVE  ToolInv'
<1>. USE FileMarks, IdleType, ToolAssumption DEF Revoke, Enter, MenuChoices
<1>1. ToolTypeOK'
  BY DEF ToolInv, ToolTypeOK
<1>2. KnownSessions'
  BY DEF ToolInv, KnownSessions
<1>3. FileInHand'
  BY DEF ToolInv, FileInHand
<1>4. RowlessFile'
  BY DEF ToolInv, RowlessFile
<1>5. NoSessionLost'
  BY DEF ToolInv, NoSessionLost
<1>6. ShownHasSession'
  BY DEF ToolInv, ShownHasSession, Rewriting
<1>. QED  BY <1>1, <1>2, <1>3, <1>4, <1>5, <1>6 DEF ToolInv

\* The session in hand becomes a stray, and its phone is remembered.
LEMMA ToolDiesKeeps ==
    ASSUME ToolInv, ToolDies
    PROVE  ToolInv'
<1>. USE FileMarks, IdleType, ToolAssumption DEF ToolDies, Enter, MenuChoices
<1>1. ToolTypeOK'
  <2>0. menu.step \in {"me", "open", "fill", "upsert"} => menu.session \in Sessions
    BY DEF ToolInv, ToolTypeOK, KnownSessions, Sessions
  <2>1. menu.phone \in Phones /\ strays' \subseteq Sessions
    BY <2>0 DEF ToolInv, ToolTypeOK
  <2>2. sessionFiles' \in [Phones -> FileStates]
    BY <2>1 DEF ToolInv, ToolTypeOK
  <2>. QED  BY <2>1, <2>2 DEF ToolInv, ToolTypeOK
<1>2. KnownSessions'
  BY DEF ToolInv, ToolTypeOK, KnownSessions
<1>3. FileInHand'
  BY DEF FileInHand
<1>4. RowlessFile'
  BY DEF ToolInv, ToolTypeOK, FileInHand, RowlessFile
<1>5. NoSessionLost'
  BY DEF ToolInv, ToolTypeOK, FileInHand, NoSessionLost
<1>6. ShownHasSession'
  BY DEF ToolInv, ToolTypeOK, ShownHasSession, Rewriting
<1>. QED  BY <1>1, <1>2, <1>3, <1>4, <1>5, <1>6 DEF ToolInv
-----------------------------------------------------------------------------
\* Every step of the tool keeps the invariant.
LEMMA ToolInvNext == ToolInv /\ [ToolNext]_toolVars => ToolInv'
<1>. SUFFICES ASSUME ToolInv, [ToolNext]_toolVars PROVE ToolInv'
  OBVIOUS
<1>1. CASE \E p \in Phones : \/ ReuseSession(p) \/ SignIn(p)
                             \/ TestSession(p) \/ StartRemoval(p)
  BY <1>1, ReuseSessionKeeps, SignInKeeps, TestSessionKeeps, StartRemovalKeeps
<1>2. CASE GetMe \/ OpenFile \/ FillFile \/ Upsert
  BY <1>2, GetMeKeeps, OpenFileKeeps, FillFileKeeps, UpsertKeeps
<1>3. CASE LogOut \/ Unlink \/ DeleteRow
  BY <1>3, LogOutKeeps, UnlinkKeeps, DeleteRowKeeps
<1>4. CASE Revoke \/ ToolDies
  BY <1>4, RevokeKeeps, ToolDiesKeeps
<1>5. CASE UNCHANGED toolVars
  BY <1>5 DEF toolVars, ToolInv, ToolTypeOK, KnownSessions, FileInHand, RowlessFile,
              NoSessionLost, ShownHasSession, Rewriting
<1>. QED  BY <1>1, <1>2, <1>3, <1>4, <1>5 DEF ToolNext

\* The tool's state has its types in every behaviour, and the invariant that
\* carries the theorems below holds throughout (login_accounts.py).
THEOREM ToolInvariant == ToolSpec => []ToolInv
<1>. QED  BY ToolInvInit, ToolInvNext, PTL DEF ToolSpec

\* A session that Telegram accepts stays in its phone's file or in the hands
\* of the choice at work, whoever signs in, is tested or is removed, and
\* wherever the tool dies, unless a call failed in the middle
\* (_add_or_reauth, _remove_account).
THEOREM SessionsKept == ToolSpec => []NoSessionLost
<1>1. ToolInv => NoSessionLost
  BY DEF ToolInv
<1>. QED  BY <1>1, ToolInvariant, PTL

\* An account that is shown as authorized has a session of its own
\* (the order of write_session_file and upsert_account).
THEOREM AccountsHonest == ToolSpec => []ShownHasSession
<1>1. ToolInv => ShownHasSession
  BY DEF ToolInv
<1>. QED  BY <1>1, ToolInvariant, PTL

-----------------------------------------------------------------------------
(* The mapper. *)

\* A list read backwards has the same members.
LEMMA ReversedSequence ==
    ASSUME NEW T, NEW s \in Seq(T)
    PROVE  /\ Reverse(s) \in Seq(T) /\ Len(Reverse(s)) = Len(s)
           /\ Range(Reverse(s)) = Range(s)
           /\ IsInjective(s) => IsInjective(Reverse(s))
<1>1. DOMAIN s = 1..Len(s) /\ Len(s) \in Nat /\ \A k \in 1..Len(s) : s[k] \in T
  BY LenProperties, ElementOfSeq
<1>2. \A k \in 1..Len(s) : (Len(s) - k) + 1 \in 1..Len(s) /\ (Len(s) - ((Len(s) - k) + 1)) + 1 = k
  BY <1>1
<1>3. /\ Reverse(s) = [k \in 1..Len(s) |-> s[(Len(s) - k) + 1]]
      /\ Reverse(s) \in [1..Len(s) -> T]
  BY <1>1, <1>2 DEF Reverse
<1>4. Reverse(s) \in Seq(T) /\ Len(Reverse(s)) = Len(s)
  BY <1>1, <1>3, IsASeq
<1>5. Range(Reverse(s)) = Range(s)
  <2>1. \A y \in Range(Reverse(s)) : y \in Range(s)
    BY <1>1, <1>2, <1>3 DEF Range
  <2>2. \A y \in Range(s) : y \in Range(Reverse(s))
    <3>. SUFFICES ASSUME NEW k \in 1..Len(s) PROVE s[k] \in Range(Reverse(s))
      BY <1>1 DEF Range
    <3>. DEFINE j == (Len(s) - k) + 1
    <3>1. j \in 1..Len(s) /\ (Len(s) - j) + 1 = k
      BY <1>2
    <3>2. Reverse(s)[j] = s[k]
      BY <1>3, <3>1
    <3>3. DOMAIN Reverse(s) = 1..Len(s)
      BY <1>3
    <3>. QED  BY <3>1, <3>2, <3>3 DEF Range
  <2>. QED  BY <2>1, <2>2
<1>6. ASSUME IsInjective(s) PROVE IsInjective(Reverse(s))
  <2>. SUFFICES ASSUME NEW j \in 1..Len(s), NEW k \in 1..Len(s), Reverse(s)[j] = Reverse(s)[k]
                PROVE  j = k
    BY <1>3 DEF IsInjective
  <2>1. s[(Len(s) - j) + 1] = s[(Len(s) - k) + 1]
    BY <1>3
  <2>2. (Len(s) - j) + 1 = (Len(s) - k) + 1
    BY <1>1, <1>2, <1>6, <2>1 DEF IsInjective
  <2>. QED  BY <1>1, <2>2
<1>. QED  BY <1>4, <1>5, <1>6

\* A non-empty set of numbers under a bound has a largest.
LEMMA LargestOf ==
    ASSUME NEW b \in Nat, NEW S \in SUBSET (1..b), S # {}
    PROVE  Max(S) \in S /\ \A y \in S : Max(S) >= y
<1>. DEFINE T == {b - x : x \in S}
<1>1. T \subseteq Nat /\ T # {}
  <2>1. \A x \in S : b - x \in Nat
    <3>. SUFFICES ASSUME NEW x \in S PROVE b - x \in Nat
      OBVIOUS
    <3>1. x \in 1..b
      OBVIOUS
    <3>. QED  BY <3>1
  <2>2. \E x \in S : b - x \in T
    OBVIOUS
  <2>. QED  BY <2>1, <2>2
<1>2. PICK m \in T : \A y \in T : ~ (<<y, m>> \in OpToRel(<, Nat))
  <2>. HIDE DEF T
  <2>. QED  BY <1>1, NatLessThanWellFounded, WFMin
<1>3. PICK x \in S : m = b - x
  BY <1>2
<1>4. \A y \in S : x >= y
  <2>. SUFFICES ASSUME NEW y \in S PROVE x >= y
    OBVIOUS
  <2>1. b - y \in T /\ b - y \in Nat /\ m \in Nat
    BY <1>1, <1>2
  <2>2. ~ (<<b - y, m>> \in OpToRel(<, Nat))
    BY <1>2, <2>1
  <2>3. ~ (b - y < m)
    BY <2>1, <2>2 DEF OpToRel
  <2>4. x \in 1..b /\ y \in 1..b
    BY <1>3
  <2>. QED  BY <1>3, <2>3, <2>4
<1>. QED  BY <1>3, <1>4 DEF Max

\* The least number of a way that fits.
LEMMA LeastWay ==
    ASSUME NEW W \in SUBSET (1..5), W # {}
    PROVE  Min(W) \in W /\ \A y \in W : Min(W) <= y
<1>1. \E x \in W : \A y \in W : x <= y
  <2>1. CASE 1 \in W
    BY <2>1
  <2>2. CASE 1 \notin W /\ 2 \in W
    BY <2>2
  <2>3. CASE 1 \notin W /\ 2 \notin W /\ 3 \in W
    BY <2>3
  <2>4. CASE 1 \notin W /\ 2 \notin W /\ 3 \notin W /\ 4 \in W
    BY <2>4
  <2>5. CASE 1 \notin W /\ 2 \notin W /\ 3 \notin W /\ 4 \notin W
    <3>1. \A y \in W : y = 5
      BY <2>5
    <3>2. 5 \in W
      BY <3>1
    <3>. QED  BY <3>1, <3>2
  <2>. QED  BY <2>1, <2>2, <2>3, <2>4, <2>5
<1>. QED  BY <1>1 DEF Min

\* The ids a target record may have.
TargetIds == 1..(Sources + 1)

\* The free candidates of a record, and those of them that fit one way.
Free(used) == {t \in target : t.id # OldId /\ t.id \notin used}
Fitting(s, used, w) ==
    CASE w = 1 -> {t \in Free(used) : s.sha # Unset /\ t.sha = s.sha}
      [] w = 2 -> {t \in Free(used) : s.doc # Unset /\ t.doc = s.doc}
      [] w = 3 -> {t \in Free(used) : FwdMatches(s, t)}
      [] w = 4 -> {t \in Free(used) : TextMatches(s, t)}
      [] w = 5 -> Free(used)

LEMMA FirstOf ==
    ASSUME NEW R, R # {}, \A t \in R : t.id \in TargetIds
    PROVE  \E t \in R : FirstId(R) = t.id
<1>. DEFINE S == {t.id : t \in R}
<1>1. S \in SUBSET (1..(Sources + 1)) /\ S # {}
  BY DEF TargetIds
<1>2. Sources + 1 \in Nat
  BY MapperAssumption
<1>3. Max(S) \in S
  <2>. HIDE DEF S
  <2>. QED  BY <1>1, <1>2, LargestOf
<1>. QED  BY <1>3 DEF FirstId

\* A record is given a free candidate that fits the first way that any does.
LEMMA MatchFits ==
    ASSUME NEW s, NEW used, \A t \in target : t.id \in TargetIds
    PROVE  /\ Free(used) = {} => Match(s, used) = Unset
           /\ Free(used) # {} =>
                \E w \in 1..5 : /\ \E t \in Fitting(s, used, w) : Match(s, used) = t.id
                                /\ \A v \in 1..5 : v < w => Fitting(s, used, v) = {}
<1>. DEFINE free == {t \in target : t.id # OldId /\ t.id \notin used}
            fits == << {t \in free : s.sha # Unset /\ t.sha = s.sha},
                       {t \in free : s.doc # Unset /\ t.doc = s.doc},
                       {t \in free : FwdMatches(s, t)},
                       {t \in free : TextMatches(s, t)},
                       free >>
            ways == {w \in DOMAIN fits : fits[w] # {}}
<1>1. Match(s, used) = IF ways = {} THEN Unset ELSE FirstId(fits[Min(ways)])
  BY DEF Match
<1>2. free = Free(used)
  BY DEF Free
<1>. HIDE DEF free
<1>3. /\ DOMAIN fits = 1..5
      /\ \A w \in 1..5 : fits[w] = Fitting(s, used, w) /\ fits[w] \subseteq Free(used)
  <2>1. DOMAIN fits = 1..5
    OBVIOUS
  <2>2. /\ fits[1] = Fitting(s, used, 1) /\ fits[2] = Fitting(s, used, 2)
        /\ fits[3] = Fitting(s, used, 3) /\ fits[4] = Fitting(s, used, 4)
        /\ fits[5] = Fitting(s, used, 5)
    BY <1>2 DEF Fitting
  <2>3. /\ fits[1] \subseteq Free(used) /\ fits[2] \subseteq Free(used)
        /\ fits[3] \subseteq Free(used) /\ fits[4] \subseteq Free(used)
        /\ fits[5] \subseteq Free(used)
    BY <1>2
  <2>. HIDE DEF fits
  <2>4. \A w \in 1..5 : w = 1 \/ w = 2 \/ w = 3 \/ w = 4 \/ w = 5
    OBVIOUS
  <2>. QED  BY <2>1, <2>2, <2>3, <2>4
<1>4. fits[5] = free
  OBVIOUS
<1>. HIDE DEF fits
<1>5. ways \in SUBSET (1..5)
  BY <1>3
<1>6. ASSUME Free(used) = {} PROVE Match(s, used) = Unset
  <2>1. ways = {}
    BY <1>3, <1>6
  <2>. QED  BY <1>1, <2>1
<1>7. ASSUME Free(used) # {}
      PROVE  \E w \in 1..5 : /\ \E t \in Fitting(s, used, w) : Match(s, used) = t.id
                             /\ \A v \in 1..5 : v < w => Fitting(s, used, v) = {}
  <2>1. ways # {}
    BY <1>2, <1>3, <1>4, <1>7
  <2>. HIDE DEF ways
  <2>2. Min(ways) \in ways /\ \A y \in ways : Min(ways) <= y
    BY <1>5, <2>1, LeastWay
  <2>. DEFINE w == Min(ways)
  <2>3. w \in 1..5 /\ fits[w] # {} /\ fits[w] = Fitting(s, used, w)
    BY <1>3, <1>5, <2>2 DEF ways
  <2>4. \E t \in fits[w] : FirstId(fits[w]) = t.id
    <3>1. \A t \in fits[w] : t.id \in TargetIds
      BY <1>3, <2>3 DEF Free
    <3>. QED  BY <2>3, <3>1, FirstOf
  <2>5. Match(s, used) = FirstId(fits[w])
    BY <1>1, <2>1 DEF ways
  <2>6. \A v \in 1..5 : v < w => Fitting(s, used, v) = {}
    <3>. SUFFICES ASSUME NEW v \in 1..5, v < w PROVE Fitting(s, used, v) = {}
      OBVIOUS
    <3>1. v \notin ways
      <4>1. v \in ways => w <= v
        BY <2>2
      <4>2. ~(w <= v)
        BY <2>3
      <4>. QED  BY <4>1, <4>2
    <3>2. fits[v] = {}
      BY <1>3, <3>1 DEF ways
    <3>. QED  BY <1>3, <3>2
  <2>. QED  BY <2>3, <2>4, <2>5, <2>6
<1>. QED  BY <1>6, <1>7

-----------------------------------------------------------------------------
(* The invariant of a mapping. *)

Archived(r) == \E s \in SourceIds, minute \in Minutes, shape \in Shapes,
                  parent \in {Unset} \cup SourceIds : r = SourceRecord(s, minute, shape, parent)

\* The source records are different messages.
SourceKept ==
    /\ Len(source) \in {0, Sources} /\ DOMAIN source = 1..Len(source)
    /\ read \in 0..Len(source)
    /\ \A k \in DOMAIN source : Archived(source[k])
    /\ \A i, j \in DOMAIN source : source[i].id = source[j].id => i = j

\* A target record is older than the import, or what the import made of one
\* source record.
TargetKept ==
    /\ \A t \in target : \/ t.id = OldId
                         \/ \E k \in DOMAIN source : \E fate \in Fates :
                               t = TargetRecord(source[k], fate)
    /\ \A t, u \in target : t.id = u.id => t = u

\* Only records that the loop has been through are mapped.
MappedOnce ==
    /\ mapping \in [SourceIds -> {Unset} \cup {t.id : t \in target}]
    /\ \A k \in DOMAIN source : k > read => mapping[source[k].id] = Unset
    /\ \A i \in SourceIds : mapping[i] # Unset =>
          \E k \in DOMAIN source : k <= read /\ source[k].id = i
    /\ Len(source) = 0 => mapping = NothingMapped

\* While every record the loop has been through has its twin, the twins of the
\* others are free.
TwinsSoFar ==
    AllApart /\ AllRecognizable =>
        \A k \in DOMAIN source : k <= read => mapping[source[k].id] = Twin(source[k])

MapperInv == SourceKept /\ TargetKept /\ MappedOnce /\ MappingInjective /\ TwinsSoFar

\* What a record says, and what a record of the target may say of it.
LEMMA RecordFacts ==
    ASSUME NEW r, Archived(r)
    PROVE  /\ r.id \in SourceIds /\ r.date \in Nat /\ r.from \in Nat
           /\ r.file \in {Unset, r.id, Common} /\ r.sha = r.file /\ r.doc = r.file
           /\ r.reply \in {Unset} \cup SourceIds
<1>1. PICK s \in SourceIds, minute \in Minutes, shape \in Shapes,
           parent \in {Unset} \cup SourceIds : r = SourceRecord(s, minute, shape, parent)
  BY DEF Archived
<1>2. r.id = s /\ r.date = minute /\ r.from = Sender[s] /\ r.reply = parent
  BY <1>1 DEF SourceRecord
<1>3. r.file \in {Unset, s, Common} /\ r.sha = r.file /\ r.doc = r.file
  BY <1>1 DEF SourceRecord, Shapes
<1>4. minute \in Nat /\ Sender[s] \in Nat
  BY MapperAssumption DEF SourceIds
<1>. QED  BY <1>2, <1>3, <1>4

LEMMA TargetFacts ==
    ASSUME NEW r, Archived(r), NEW fate \in Fates, NEW t, t = TargetRecord(r, fate)
    PROVE  /\ t.id = OldId + r.id /\ t.id \in TargetIds /\ t.id # OldId /\ t.id # Unset
           /\ t.fwd = r.date \/ t.fwd = r.date + Shift
           /\ t.sha = Unset /\ t.doc \in {Unset, r.file, NewDoc(r.id)}
<1>1. r.id \in SourceIds /\ r.date \in Nat /\ r.doc = r.file
  BY RecordFacts
<1>2. /\ t.id = OldId + r.id
      /\ t.fwd = r.date \/ t.fwd = r.date + Shift
      /\ t.sha = Unset /\ t.doc \in {Unset, r.file, NewDoc(r.id)}
  BY <1>1 DEF TargetRecord, TargetId
<1>3. r.id \in Nat /\ r.id >= 1 /\ r.id <= Sources /\ Sources \in Nat
  BY <1>1, MapperAssumption DEF SourceIds
<1>4. OldId + r.id \in TargetIds /\ OldId + r.id # OldId /\ OldId + r.id # Unset
  BY <1>3 DEF OldId, Unset, TargetIds
<1>. QED  BY <1>2, <1>4

LEMMA MapperFacts ==
    ASSUME MapperInv
    PROVE  /\ \A t \in target : t.id \in TargetIds /\ t.id # Unset
           /\ \A t \in target : t.id # OldId =>
                 \E k \in DOMAIN source : \E fate \in Fates : t = TargetRecord(source[k], fate)
<1>. SUFFICES ASSUME NEW t \in target
              PROVE  /\ t.id \in TargetIds /\ t.id # Unset
                     /\ t.id # OldId =>
                          \E k \in DOMAIN source : \E fate \in Fates : t = TargetRecord(source[k], fate)
  OBVIOUS
<1>1. CASE t.id = OldId
  BY <1>1, MapperAssumption DEF OldId, Unset, TargetIds
<1>2. CASE t.id # OldId
  <2>1. PICK k \in DOMAIN source : \E fate \in Fates : t = TargetRecord(source[k], fate)
    BY <1>2 DEF MapperInv, TargetKept
  <2>2. Archived(source[k])
    BY DEF MapperInv, SourceKept
  <2>. QED  BY <2>1, <2>2, TargetFacts
<1>. QED  BY <1>1, <1>2

LEMMA MapperStarts == MapperInit => MapperInv
<1>. SUFFICES ASSUME MapperInit PROVE MapperInv
  OBVIOUS
<1>1. /\ source = <<>> /\ target = {} /\ mapping = NothingMapped /\ read = 0
      /\ Len(source) = 0 /\ DOMAIN source = {} /\ DOMAIN source = 1..Len(source)
      /\ NothingMapped \in [SourceIds -> {Unset}] /\ \A i \in SourceIds : NothingMapped[i] = Unset
  BY DEF MapperInit, NothingMapped
<1>2. SourceKept /\ TargetKept /\ TwinsSoFar
  BY <1>1 DEF SourceKept, TargetKept, TwinsSoFar
<1>3. MappedOnce
  BY <1>1 DEF MappedOnce
<1>4. MappingInjective
  <2>1. OldId \notin Range(mapping)
    BY <1>1 DEF Range, OldId, Unset
  <2>2. 1..read = {}
    BY <1>1
  <2>. QED  BY <1>1, <2>1, <2>2 DEF MappingInjective
<1>. QED  BY <1>2, <1>3, <1>4 DEF MapperInv

\* A list has each archived record once.
EachOnce(list, rec) ==
    /\ Len(list) = Sources /\ DOMAIN list = 1..Len(list)
    /\ \A k \in DOMAIN list : Archived(list[k])
    /\ \A i, j \in DOMAIN list : list[i].id = list[j].id => i = j
    /\ \A s \in SourceIds : \E k \in DOMAIN list : list[k] = rec[s]

\* Read in either order, the archive has each record once.
LEMMA RecoveredSource ==
    ASSUME NEW T, NEW rec \in [SourceIds -> T],
           \A s \in SourceIds : Archived(rec[s]),
           \A s \in SourceIds : rec[s].id = s,
           NEW list \in {rec, Reverse(rec)}
    PROVE  EachOnce(list, rec)
<1>1. Sources \in Nat /\ SourceIds = 1..Sources
  BY MapperAssumption DEF SourceIds
<1>2. DOMAIN rec = 1..Sources /\ rec \in [1..Sources -> T]
  BY <1>1
<1>3. rec \in Seq(T) /\ Len(rec) = Sources
  <2>1. rec \in Seq(T)
    BY <1>1, <1>2, IsASeq
  <2>. QED  BY <1>1, <1>2, <2>1, LenProperties
<1>4. IsInjective(rec)
  BY <1>1, <1>2 DEF IsInjective
<1>5. /\ list \in Seq(T) /\ Len(list) = Sources /\ Range(list) = Range(rec) /\ IsInjective(list)
  <2>1. /\ Reverse(rec) \in Seq(T) /\ Len(Reverse(rec)) = Len(rec)
        /\ Range(Reverse(rec)) = Range(rec) /\ IsInjective(Reverse(rec))
    BY <1>3, <1>4, ReversedSequence
  <2>. QED  BY <1>3, <1>4, <2>1
<1>6. DOMAIN list = 1..Len(list) /\ \A k \in DOMAIN list : \E s \in SourceIds : list[k] = rec[s]
  <2>1. DOMAIN list = 1..Len(list)
    BY <1>5, LenProperties
  <2>2. \A k \in DOMAIN list : list[k] \in Range(rec)
    BY <1>5 DEF Range
  <2>. QED  BY <1>1, <1>2, <2>1, <2>2 DEF Range
<1>7. \A k \in DOMAIN list : Archived(list[k])
  BY <1>6
<1>8. \A i, j \in DOMAIN list : list[i].id = list[j].id => i = j
  <2>. SUFFICES ASSUME NEW i \in DOMAIN list, NEW j \in DOMAIN list, list[i].id = list[j].id
                PROVE  i = j
    OBVIOUS
  <2>1. PICK a \in SourceIds : list[i] = rec[a]
    BY <1>6
  <2>2. PICK b \in SourceIds : list[j] = rec[b]
    BY <1>6
  <2>3. a = b
    BY <2>1, <2>2
  <2>. QED  BY <1>5, <2>1, <2>2, <2>3 DEF IsInjective
<1>9. \A s \in SourceIds : \E k \in DOMAIN list : list[k] = rec[s]
  <2>. SUFFICES ASSUME NEW s \in SourceIds PROVE \E k \in DOMAIN list : list[k] = rec[s]
    OBVIOUS
  <2>1. rec[s] \in Range(rec)
    BY <1>1, <1>2 DEF Range
  <2>2. rec[s] \in Range(list)
    BY <1>5, <2>1
  <2>. QED  BY <2>2 DEF Range
<1>. QED  BY <1>5, <1>6, <1>7, <1>8, <1>9 DEF EachOnce

\* A recovery begins: its records are archived, and the target holds the
\* records of those that arrived, and an older one.
LEMMA RecoverPreserves ==
    ASSUME MapperInv, NEW order, Recover(order)
    PROVE  MapperInv'
<1>1. PICK minute \in [SourceIds -> Minutes], shape \in [SourceIds -> Shapes],
           fate \in [SourceIds -> Fates] :
             LET rec == [s \in SourceIds |->
                           SourceRecord(s, minute[s], shape[s],
                                        IF s = Sources THEN s - 1 ELSE Unset)]
                 there == {s \in SourceIds : "message" \notin fate[s]}
             IN /\ source' = IF order = "oldest first" THEN rec ELSE Reverse(rec)
                /\ target' = {TargetRecord(rec[s], fate[s]) : s \in there} \cup {OldRecord(rec[1])}
  BY DEF Recover
<1>. DEFINE rec == [s \in SourceIds |->
                      SourceRecord(s, minute[s], shape[s], IF s = Sources THEN s - 1 ELSE Unset)]
            there == {s \in SourceIds : "message" \notin fate[s]}
<1>2. /\ source = <<>> /\ mapping' = mapping /\ read' = read
  BY DEF Recover
<1>3. /\ source' \in {rec, Reverse(rec)}
      /\ target' = {TargetRecord(rec[s], fate[s]) : s \in there} \cup {OldRecord(rec[1])}
  BY <1>1
<1>b. there \subseteq SourceIds
  OBVIOUS
<1>. HIDE DEF there
<1>4. rec \in [SourceIds -> {rec[s] : s \in SourceIds}]
  OBVIOUS
<1>5. \A s \in SourceIds : Archived(rec[s]) /\ rec[s].id = s
  <2>. SUFFICES ASSUME NEW s \in SourceIds PROVE Archived(rec[s]) /\ rec[s].id = s
    OBVIOUS
  <2>1. (IF s = Sources THEN s - 1 ELSE Unset) \in {Unset} \cup SourceIds
    <3>1. s \in Nat /\ s >= 1 /\ s <= Sources /\ Sources \in Nat
      BY MapperAssumption DEF SourceIds
    <3>2. s - 1 = 0 \/ s - 1 \in 1..Sources
      BY <3>1
    <3>. QED  BY <3>2 DEF SourceIds, Unset
  <2>2. minute[s] \in Minutes /\ shape[s] \in Shapes
    OBVIOUS
  <2>3. rec[s] = SourceRecord(s, minute[s], shape[s], IF s = Sources THEN s - 1 ELSE Unset)
    OBVIOUS
  <2>4. Archived(rec[s])
    BY <2>1, <2>2, <2>3 DEF Archived
  <2>5. rec[s].id = s
    BY <2>3 DEF SourceRecord
  <2>. QED  BY <2>4, <2>5
<1>. HIDE DEF rec
<1>6. /\ Len(source') = Sources /\ DOMAIN source' = 1..Len(source')
      /\ \A k \in DOMAIN source' : Archived(source'[k])
      /\ \A i, j \in DOMAIN source' : source'[i].id = source'[j].id => i = j
      /\ \A s \in SourceIds : \E k \in DOMAIN source' : source'[k] = rec[s]
  <2>. DEFINE T == {rec[s] : s \in SourceIds}
  <2>. HIDE DEF T
  <2>1. rec \in [SourceIds -> T]
    BY <1>4 DEF T
  <2>2. \A s \in SourceIds : Archived(rec[s])
    BY <1>5
  <2>3. \A s \in SourceIds : rec[s].id = s
    BY <1>5
  <2>4. source' \in {rec, Reverse(rec)}
    BY <1>3
  <2>5. EachOnce(source', rec)
    BY <2>1, <2>2, <2>3, <2>4, RecoveredSource
  <2>. QED  BY <2>5 DEF EachOnce
<1>7. read = 0 /\ mapping = NothingMapped /\ Sources \in Nat /\ 1 \in SourceIds
  <2>1. Len(source) = 0
    BY <1>2
  <2>2. read \in 0..0
    BY <2>1 DEF MapperInv, SourceKept
  <2>3. mapping = NothingMapped
    BY <2>1 DEF MapperInv, MappedOnce
  <2>4. 1 \in SourceIds /\ Sources \in Nat
    BY MapperAssumption DEF SourceIds
  <2>. QED  BY <2>2, <2>3, <2>4
<1>8. SourceKept'
  <2>1. read' \in 0..Len(source')
    BY <1>2, <1>6, <1>7
  <2>. QED  BY <1>6, <2>1 DEF SourceKept
<1>9. OldRecord(rec[1]).id = OldId
  BY DEF OldRecord, TargetRecord
<1>a. \A s \in SourceIds : s \in Nat /\ s # 0
  BY MapperAssumption DEF SourceIds
<1>10. \A s \in there : TargetRecord(rec[s], fate[s]).id = OldId + s
  BY <1>5, <1>b DEF TargetRecord, TargetId
<1>11. TargetKept'
  <2>1. ASSUME NEW t \in target'
        PROVE  \/ t.id = OldId
               \/ \E k \in DOMAIN source' : \E f \in Fates : t = TargetRecord(source'[k], f)
    <3>1. CASE t = OldRecord(rec[1])
      BY <1>9, <3>1
    <3>2. CASE \E s \in there : t = TargetRecord(rec[s], fate[s])
      <4>1. PICK s \in there : t = TargetRecord(rec[s], fate[s])
        BY <3>2
      <4>2. PICK k \in DOMAIN source' : source'[k] = rec[s]
        BY <1>6, <1>b
      <4>3. fate[s] \in Fates
        BY <1>b
      <4>. QED  BY <4>1, <4>2, <4>3
    <3>. QED  BY <1>3, <3>1, <3>2
  <2>2. ASSUME NEW t \in target', NEW u \in target', t.id = u.id PROVE t = u
    <3>1. \A s \in there : OldId + s # OldId
      BY <1>a, <1>b DEF OldId
    <3>2. CASE t = OldRecord(rec[1]) /\ u = OldRecord(rec[1])
      BY <3>2
    <3>3. CASE t = OldRecord(rec[1]) /\ \E s \in there : u = TargetRecord(rec[s], fate[s])
      BY <1>9, <1>10, <2>2, <3>1, <3>3
    <3>4. CASE u = OldRecord(rec[1]) /\ \E s \in there : t = TargetRecord(rec[s], fate[s])
      BY <1>9, <1>10, <2>2, <3>1, <3>4
    <3>5. CASE /\ \E s \in there : t = TargetRecord(rec[s], fate[s])
               /\ \E s \in there : u = TargetRecord(rec[s], fate[s])
      <4>1. PICK a \in there : t = TargetRecord(rec[a], fate[a])
        BY <3>5
      <4>2. PICK b \in there : u = TargetRecord(rec[b], fate[b])
        BY <3>5
      <4>3. OldId + a = OldId + b
        BY <1>10, <2>2, <4>1, <4>2
      <4>4. a = b
        <5>1. a \in Nat /\ b \in Nat
          BY <1>a, <1>b
        <5>. QED  BY <4>3, <5>1 DEF OldId
      <4>. QED  BY <4>1, <4>2, <4>4
    <3>. QED  BY <1>3, <3>2, <3>3, <3>4, <3>5
  <2>. QED  BY <2>1, <2>2 DEF TargetKept
<1>12. \A i \in SourceIds : mapping'[i] = Unset
  BY <1>2, <1>7 DEF NothingMapped
<1>13. MappedOnce'
  <2>1. mapping' \in [SourceIds -> {Unset} \cup {t.id : t \in target'}]
    BY <1>2, <1>7 DEF NothingMapped
  <2>2. \A k \in DOMAIN source' : source'[k].id \in SourceIds
    BY <1>6, RecordFacts
  <2>3. Len(source') # 0
    BY <1>6, MapperAssumption
  <2>. QED  BY <1>12, <2>1, <2>2, <2>3 DEF MappedOnce
<1>14. 1..read' = {} /\ \A k \in DOMAIN source' : ~(k <= read')
  <2>1. read' = 0
    BY <1>2, <1>7
  <2>2. \A k \in 1..Len(source') : ~(k <= 0)
    BY <1>6, <1>7
  <2>. QED  BY <1>6, <2>1, <2>2
<1>15. MappingInjective'
  <2>1. OldId \notin Range(mapping')
    <3>1. DOMAIN mapping' = SourceIds
      BY <1>2, <1>7 DEF NothingMapped
    <3>. QED  BY <1>12, <3>1 DEF Range, OldId, Unset
  <2>. QED  BY <1>12, <1>14, <2>1 DEF MappingInjective
<1>16. TwinsSoFar'
  BY <1>14 DEF TwinsSoFar
<1>. QED  BY <1>8, <1>11, <1>13, <1>15, <1>16 DEF MapperInv

LEMMA LoopFacts ==
    ASSUME MapperInv, MapSourceToTarget
    PROVE  /\ source' = source /\ target' = target /\ read' = read + 1
           /\ read \in 0..Len(source) /\ Len(source) \in Nat /\ DOMAIN source = 1..Len(source)
           /\ read < Len(source)
<1>1. Len(source) \in {0, Sources} /\ read \in 0..Len(source) /\ DOMAIN source = 1..Len(source)
  BY DEF MapperInv, SourceKept
<1>2. /\ source' = source /\ target' = target /\ read' = read + 1
      /\ read < Len(source)
  BY DEF MapSourceToTarget
<1>3. Len(source) \in Nat
  <2>1. Sources \in Nat
    BY MapperAssumption
  <2>2. Len(source) = 0 \/ Len(source) = Sources
    BY DEF MapperInv, SourceKept
  <2>. QED  BY <2>1, <2>2
<1>. QED  BY <1>1, <1>2, <1>3

\* One turn of the loop: the target id it chooses is no other record's, or no
\* candidate is free.
LEMMA TurnMaps ==
    ASSUME MapperInv, MapSourceToTarget
    PROVE  \E n \in DOMAIN source :
              LET s == source[n]
                  used == {mapping[i] : i \in SourceIds}
              IN /\ n = read + 1 /\ Archived(s) /\ mapping[s.id] = Unset
                 /\ mapping' = [mapping EXCEPT ![s.id] = Match(s, used)]
                 /\ \/ Free(used) = {} /\ Match(s, used) = Unset
                    \/ \E t \in Free(used) : Match(s, used) = t.id
<1>. DEFINE n == read + 1
            s == source[n]
            used == {mapping[i] : i \in SourceIds}
<1>1. read \in 0..Len(source) /\ Len(source) \in Nat /\ DOMAIN source = 1..Len(source) /\ read < Len(source)
  BY LoopFacts
<1>2. n \in DOMAIN source /\ n > read
  BY <1>1
<1>3. Archived(s) /\ mapping[s.id] = Unset
  <2>. HIDE DEF n
  <2>. QED  BY <1>2 DEF MapperInv, SourceKept, MappedOnce
<1>4. mapping' = [mapping EXCEPT ![s.id] = Match(s, used)]
  BY DEF MapSourceToTarget, Mapped
<1>5. \/ Free(used) = {} /\ Match(s, used) = Unset
      \/ \E t \in Free(used) : Match(s, used) = t.id
  <2>. HIDE DEF s, used
  <2>1. \A t \in target : t.id \in TargetIds
    BY MapperFacts
  <2>2. /\ Free(used) = {} => Match(s, used) = Unset
        /\ Free(used) # {} =>
             \E w \in 1..5 : /\ \E t \in Fitting(s, used, w) : Match(s, used) = t.id
                             /\ \A v \in 1..5 : v < w => Fitting(s, used, v) = {}
    BY <2>1, MatchFits
  <2>3. ASSUME NEW w \in 1..5 PROVE Fitting(s, used, w) \subseteq Free(used)
    <3>1. w = 1 \/ w = 2 \/ w = 3 \/ w = 4 \/ w = 5
      OBVIOUS
    <3>. QED  BY <3>1 DEF Fitting
  <2>. QED  BY <2>2, <2>3
<1>. HIDE DEF n
<1>. QED  BY <1>2, <1>3, <1>4, <1>5 DEF n

LEMMA MapPreserves ==
    ASSUME MapperInv, MapSourceToTarget
    PROVE  /\ SourceKept' /\ TargetKept' /\ MappedOnce' /\ MappingInjective'
<1>1. PICK n \in DOMAIN source :
              LET s == source[n]
                  used == {mapping[i] : i \in SourceIds}
              IN /\ n = read + 1 /\ Archived(s) /\ mapping[s.id] = Unset
                 /\ mapping' = [mapping EXCEPT ![s.id] = Match(s, used)]
                 /\ \/ Free(used) = {} /\ Match(s, used) = Unset
                    \/ \E t \in Free(used) : Match(s, used) = t.id
  BY TurnMaps
<1>. DEFINE s == source[n]
            used == {mapping[i] : i \in SourceIds}
            m == Match(s, used)
<1>2. /\ n = read + 1 /\ Archived(s) /\ mapping[s.id] = Unset
      /\ mapping' = [mapping EXCEPT ![s.id] = m]
      /\ \/ Free(used) = {} /\ m = Unset
         \/ \E t \in Free(used) : m = t.id
  BY <1>1
<1>3. /\ source' = source /\ target' = target /\ read' = read + 1
      /\ read \in 0..Len(source) /\ Len(source) \in Nat /\ DOMAIN source = 1..Len(source)
      /\ read < Len(source)
  BY LoopFacts
<1>4. s.id \in SourceIds
  BY <1>2, RecordFacts
<1>5. \A k \in DOMAIN source : k # n => source[k].id # s.id
  BY DEF MapperInv, SourceKept
<1>. HIDE DEF s, m
<1>6. /\ mapping \in [SourceIds -> {Unset} \cup {t.id : t \in target}]
      /\ \A i \in SourceIds : mapping'[i] = IF i = s.id THEN m ELSE mapping[i]
      /\ DOMAIN mapping' = SourceIds
  BY <1>2, <1>4 DEF MapperInv, MappedOnce
<1>7. m = Unset \/ \E t \in target : m = t.id /\ m # OldId /\ m \notin used
  BY <1>2 DEF Free
<1>8. SourceKept'
  <2>1. read + 1 \in 0..Len(source)
    BY <1>3
  <2>2. read' \in 0..Len(source')
    BY <1>3, <2>1
  <2>. QED  BY <1>3, <2>2 DEF MapperInv, SourceKept
<1>9. TargetKept'
  BY <1>3 DEF MapperInv, TargetKept
<1>10. MappedOnce'
  <2>1. m \in {Unset} \cup {t.id : t \in target}
    BY <1>7
  <2>2. mapping' \in [SourceIds -> {Unset} \cup {t.id : t \in target}]
    BY <1>2, <1>6, <2>1
  <2>3. ASSUME NEW k \in DOMAIN source, k > read' PROVE mapping'[source[k].id] = Unset
    <3>1. k > read /\ k # n
      BY <1>2, <1>3, <2>3
    <3>2. mapping[source[k].id] = Unset
      BY <3>1 DEF MapperInv, MappedOnce
    <3>3. source[k].id \in SourceIds
      BY RecordFacts DEF MapperInv, SourceKept
    <3>. QED  BY <1>5, <1>6, <3>1, <3>2, <3>3
  <2>4. Len(source) # 0
    BY <1>3
  <2>5. ASSUME NEW i \in SourceIds, mapping'[i] # Unset
        PROVE  \E k \in DOMAIN source : k <= read' /\ source[k].id = i
    <3>1. CASE i = s.id
      <4>1. n <= read' /\ source[n].id = i
        BY <1>2, <1>3, <3>1 DEF s
      <4>. QED  BY <4>1
    <3>2. CASE i # s.id
      <4>1. PICK k \in DOMAIN source : k <= read /\ source[k].id = i
        BY <1>6, <2>5, <3>2 DEF MapperInv, MappedOnce
      <4>2. k <= read'
        BY <1>3, <4>1
      <4>. QED  BY <4>1, <4>2
    <3>. QED  BY <3>1, <3>2
  <2>. QED  BY <1>3, <2>2, <2>3, <2>4, <2>5 DEF MappedOnce
<1>11. MappingInjective'
  <2>1. ASSUME NEW i \in SourceIds, NEW j \in SourceIds, mapping'[i] = mapping'[j]
        PROVE  i = j \/ mapping'[i] = Unset
    <3>1. \A a, b \in SourceIds : mapping[a] = mapping[b] => a = b \/ mapping[a] = Unset
      BY DEF MapperInv, MappingInjective
    <3>2. m = Unset \/ \A a \in SourceIds : mapping[a] # m
      BY <1>7
    <3>. QED  BY <1>6, <2>1, <3>1, <3>2
  <2>2. OldId \notin Range(mapping')
    <3>1. \A a \in SourceIds : mapping[a] # OldId
      BY <1>6 DEF MapperInv, MappingInjective, Range
    <3>2. m # OldId
      BY <1>7 DEF Unset, OldId
    <3>. QED  BY <1>6, <3>1, <3>2 DEF Range
  <2>3. ASSUME NEW k \in 1..read', mapping'[source'[k].id] = Unset, NEW t \in target'
        PROVE  t.id \in Range(mapping') \cup {OldId}
    <3>1. t \in target /\ t.id # Unset
      BY <1>3, MapperFacts
    <3>2. t.id \in used => t.id \in Range(mapping')
      <4>. SUFFICES ASSUME NEW i \in SourceIds, t.id = mapping[i] PROVE t.id \in Range(mapping')
        OBVIOUS
      <4>1. i # s.id
        BY <1>2, <3>1
      <4>. QED  BY <1>6, <4>1 DEF Range
    <3>3. t.id = OldId \/ t.id \in used
      <4>1. CASE k = n
        <5>1. m = Unset
          BY <1>3, <1>4, <1>6, <2>3, <4>1 DEF s
        <5>2. Free(used) = {}
          <6>. SUFFICES ASSUME NEW u \in Free(used) PROVE FALSE
            BY <1>2
          <6>1. \E v \in Free(used) : m = v.id
            BY <1>2
          <6>. QED  BY <5>1, <6>1, MapperFacts DEF Free
        <5>. QED  BY <3>1, <5>2 DEF Free
      <4>2. CASE k # n
        <5>1. k \in 1..read /\ k \in DOMAIN source
          BY <1>2, <1>3, <4>2
        <5>2. source[k].id \in SourceIds
          BY <5>1, RecordFacts DEF MapperInv, SourceKept
        <5>3. mapping[source[k].id] = Unset
          BY <1>3, <1>5, <1>6, <2>3, <4>2, <5>1, <5>2
        <5>4. t.id \in Range(mapping) \cup {OldId}
          BY <3>1, <5>1, <5>3 DEF MapperInv, MappingInjective
        <5>. QED  BY <1>6, <5>4 DEF Range
      <4>. QED  BY <4>1, <4>2
    <3>. QED  BY <3>2, <3>3
  <2>. QED  BY <2>1, <2>2, <2>3 DEF MappingInjective
<1>. QED  BY <1>8, <1>9, <1>10, <1>11

\* A record that the mapper cannot mix up with another message, and that has
\* its sender's name, fits the other neither by hash, nor by the id of its
\* file, nor by forward date.
LEMMA OthersDoNotFit ==
    ASSUME NEW s, Archived(s), NEW r, Archived(r), r.id # s.id, Apart(r, s),
           NEW fate \in Fates, NEW t, t = TargetRecord(r, fate),
           r.from # Unset => t.name = r.from
    PROVE  /\ s.sha # Unset => t.sha # s.sha
           /\ s.doc # Unset => t.doc # s.doc
           /\ ~FwdMatches(s, t)
<1>1. /\ s.date \in Nat /\ s.id \in SourceIds /\ s.file \in {Unset, s.id, Common}
      /\ s.sha = s.file /\ s.doc = s.file
      /\ r.date \in Nat /\ r.id \in SourceIds /\ r.file \in {Unset, r.id, Common}
  BY RecordFacts
<1>2. /\ t.fwd = r.date \/ t.fwd = r.date + Shift
      /\ t.sha = Unset /\ t.doc \in {Unset, r.file, NewDoc(r.id)}
  BY TargetFacts
<1>3. s.doc # Unset => t.doc # s.doc
  <2>1. \A a, b \in SourceIds : NewDoc(a) # b /\ NewDoc(a) # Common
    BY MapperAssumption DEF SourceIds, NewDoc, Common
  <2>2. r.file = s.file => r.file = Unset
    BY DEF Apart
  <2>. QED  BY <1>1, <1>2, <2>1, <2>2
<1>4. Nearby \in Nat /\ Shift \in Nat
  BY MapperAssumption
<1>5. CASE r.from # Unset /\ s.from # Unset /\ r.from # s.from
  BY <1>1, <1>2, <1>3, <1>5 DEF FwdMatches
<1>6. CASE SentApart(r, s)
  <2>1. CASE t.fwd = r.date
    <3>1. ~Within(r.date, s.date, Nearby) /\ ~Within(r.date, s.date + Shift, Nearby)
      BY <1>6 DEF SentApart
    <3>. QED  BY <1>1, <1>2, <1>3, <2>1, <3>1 DEF FwdMatches, SentWith
  <2>2. CASE t.fwd = r.date + Shift
    <3>1. ~Within(r.date + Shift, s.date, Nearby)
      BY <1>1, <1>4, <1>6 DEF SentApart, Within
    <3>2. ~Within(r.date + Shift, s.date + Shift, Nearby)
      BY <1>1, <1>4, <1>6 DEF SentApart, Within
    <3>. QED  BY <1>1, <1>2, <1>3, <2>2, <3>1, <3>2 DEF FwdMatches, SentWith
  <2>. QED  BY <1>2, <2>1, <2>2
<1>. QED  BY <1>5, <1>6 DEF Apart

\* With the header and its sender's name, whatever else the import loses, a
\* message's own record is among the forward dates that fit.
LEMMA OwnFits ==
    ASSUME NEW s, Archived(s), NEW fate \in Fates, NEW t, t = TargetRecord(s, fate),
           t.header, s.from # Unset => t.name = s.from
    PROVE  FwdMatches(s, t)
<1>1. s.date \in Nat /\ Nearby \in Nat /\ Shift \in Nat
  BY RecordFacts, MapperAssumption
<1>2. t.fwd = s.date \/ t.fwd = s.date + Shift
  BY TargetFacts
<1>3. /\ Within(s.date, s.date, Nearby)
      /\ Within(s.date + Shift, s.date + Shift, Nearby)
  BY <1>1 DEF Within
<1>4. SentWith(s, t)
  BY <1>2, <1>3 DEF SentWith
<1>. QED  BY <1>4 DEF FwdMatches

\* The record a target record was made of.
LEMMA MadeOf ==
    ASSUME MapperInv, NEW n \in DOMAIN source, NEW t \in target, t.id = Twin(source[n])
    PROVE  \E fate \in Fates : t = TargetRecord(source[n], fate)
<1>1. \A k \in DOMAIN source : Archived(source[k]) /\ source[k].id \in SourceIds
  BY RecordFacts DEF MapperInv, SourceKept
<1>2. \A i \in SourceIds : i \in Nat /\ i # 0
  BY MapperAssumption DEF SourceIds
<1>3. t.id # OldId
  BY <1>1, <1>2 DEF Twin, TargetId, OldId
<1>4. PICK k \in DOMAIN source : \E fate \in Fates : t = TargetRecord(source[k], fate)
  BY <1>3, MapperFacts
<1>5. t.id = OldId + source[k].id
  BY <1>1, <1>4, TargetFacts
<1>6. OldId + source[k].id = OldId + source[n].id
  BY <1>5 DEF Twin, TargetId
<1>7. source[k].id = source[n].id
  <2>. DEFINE a == source[k].id
              b == source[n].id
  <2>1. a \in Nat /\ b \in Nat /\ OldId + a = OldId + b
    BY <1>1, <1>2, <1>6
  <2>. HIDE DEF a, b
  <2>2. a = b
    BY <2>1 DEF OldId
  <2>. QED  BY <2>2 DEF a, b
<1>8. k = n
  BY <1>7 DEF MapperInv, SourceKept
<1>. QED  BY <1>4, <1>8

\* While the others have their own, a message whose twin has arrived gets it.
LEMMA TwinMatches ==
    ASSUME MapperInv, AllApart, AllRecognizable, NEW n \in DOMAIN source,
           NEW used, Twin(source[n]) \notin used
    PROVE  Match(source[n], used) = Twin(source[n])
<1>. DEFINE s == source[n]
<1>1. \A k \in DOMAIN source : Archived(source[k]) /\ (source[k].id = s.id => k = n)
  BY DEF MapperInv, SourceKept
<1>2. PICK own \in target :
         /\ own.id = Twin(s) /\ own.header
         /\ s.from # Unset => own.name = s.from
  BY DEF AllRecognizable, Recognizable
<1>3. PICK fate \in Fates : own = TargetRecord(s, fate)
  BY <1>2, MadeOf
<1>4. /\ own.id # OldId /\ own \in Free(used)
      /\ FwdMatches(s, own)
  <2>1. own.id # OldId
    BY <1>1, <1>3, TargetFacts
  <2>2. own \in Free(used)
    BY <1>2, <2>1 DEF Free
  <2>3. FwdMatches(s, own)
    BY <1>1, <1>2, <1>3, OwnFits
  <2>. QED  BY <2>1, <2>2, <2>3
<1>5. ASSUME NEW t \in Free(used), t # own
      PROVE  /\ s.sha # Unset => t.sha # s.sha
             /\ s.doc # Unset => t.doc # s.doc
             /\ ~FwdMatches(s, t)
  <2>1. t \in target /\ t.id # OldId
    BY DEF Free
  <2>2. PICK k \in DOMAIN source : \E f \in Fates : t = TargetRecord(source[k], f)
    BY <2>1, MapperFacts
  <2>3. PICK f \in Fates : t = TargetRecord(source[k], f)
    BY <2>2
  <2>4. k # n
    <3>. SUFFICES ASSUME k = n PROVE FALSE
      OBVIOUS
    <3>1. t.id = own.id
      BY <1>1, <1>3, <2>3, TargetFacts
    <3>. QED  BY <1>5, <2>1, <3>1 DEF MapperInv, TargetKept
  <2>5. Archived(source[k]) /\ source[k].id # s.id /\ Apart(source[k], s) /\ Archived(s)
    BY <1>1, <2>4 DEF AllApart
  <2>6. source[k].from # Unset => t.name = source[k].from
    <3>1. PICK u \in target :
             /\ u.id = Twin(source[k])
             /\ source[k].from # Unset => u.name = source[k].from
      BY DEF AllRecognizable, Recognizable
    <3>2. t.id = Twin(source[k])
      BY <2>3, <2>5, TargetFacts DEF Twin, TargetId
    <3>3. t = u
      BY <2>1, <3>1, <3>2 DEF MapperInv, TargetKept
    <3>. QED  BY <3>1, <3>3
  <2>. HIDE DEF s
  <2>. QED  BY <2>3, <2>5, <2>6, OthersDoNotFit
<1>. HIDE DEF s
<1>6. PICK w \in 1..5 : /\ \E t \in Fitting(s, used, w) : Match(s, used) = t.id
                        /\ \A v \in 1..5 : v < w => Fitting(s, used, v) = {}
  <2>1. \A t \in target : t.id \in TargetIds
    BY MapperFacts
  <2>2. Free(used) # {}
    BY <1>4
  <2>. QED  BY <2>1, <2>2, MatchFits
<1>7. w = 1 \/ w = 2 \/ w = 3
  <2>1. own \in Fitting(s, used, 3)
    BY <1>4 DEF Fitting
  <2>2. ~(3 < w)
    BY <1>6, <2>1
  <2>. QED  BY <2>2
<1>8. PICK t \in Fitting(s, used, w) : Match(s, used) = t.id
  BY <1>6
<1>9. t = own
  <2>1. CASE w = 1
    <3>1. t \in Free(used) /\ s.sha # Unset /\ t.sha = s.sha
      BY <1>8, <2>1 DEF Fitting
    <3>. QED  BY <1>5, <3>1
  <2>2. CASE w = 2
    <3>1. t \in Free(used) /\ s.doc # Unset /\ t.doc = s.doc
      BY <1>8, <2>2 DEF Fitting
    <3>. QED  BY <1>5, <3>1
  <2>3. CASE w = 3
    <3>1. t \in Free(used) /\ FwdMatches(s, t)
      BY <1>8, <2>3 DEF Fitting
    <3>. QED  BY <1>5, <3>1
  <2>. QED  BY <1>7, <2>1, <2>2, <2>3
<1>. QED  BY <1>2, <1>8, <1>9 DEF s

\* One turn of the loop gives the next record its twin.
LEMMA MapFindsTwin ==
    ASSUME MapperInv, MapSourceToTarget
    PROVE  TwinsSoFar'
<1>1. PICK n \in DOMAIN source :
              LET s == source[n]
                  used == {mapping[i] : i \in SourceIds}
              IN /\ n = read + 1 /\ Archived(s) /\ mapping[s.id] = Unset
                 /\ mapping' = [mapping EXCEPT ![s.id] = Match(s, used)]
                 /\ \/ Free(used) = {} /\ Match(s, used) = Unset
                    \/ \E t \in Free(used) : Match(s, used) = t.id
  BY TurnMaps
<1>. DEFINE s == source[n]
            used == {mapping[i] : i \in SourceIds}
<1>2. /\ n = read + 1 /\ Archived(s)
      /\ mapping' = [mapping EXCEPT ![s.id] = Match(s, used)]
  BY <1>1
<1>3. /\ source' = source /\ target' = target /\ read' = read + 1
      /\ read \in 0..Len(source) /\ Len(source) \in Nat /\ DOMAIN source = 1..Len(source)
  BY LoopFacts
<1>4. /\ \A k \in DOMAIN source : Archived(source[k]) /\ source[k].id \in SourceIds
      /\ \A j, k \in DOMAIN source : source[j].id = source[k].id => j = k
  BY RecordFacts DEF MapperInv, SourceKept
<1>5. \A i \in SourceIds : i \in Nat /\ i # 0
  BY MapperAssumption DEF SourceIds
<1>6. SUFFICES ASSUME AllApart, AllRecognizable
               PROVE  \A k \in DOMAIN source : k <= read' => mapping'[source[k].id] = Twin(source[k])
  BY <1>3 DEF TwinsSoFar, AllApart, AllRecognizable, Recognizable
<1>7. \A k \in DOMAIN source : k <= read => mapping[source[k].id] = Twin(source[k])
  BY <1>6 DEF MapperInv, TwinsSoFar
<1>8. \A j, k \in DOMAIN source : Twin(source[j]) = Twin(source[k]) => j = k
  <2>. SUFFICES ASSUME NEW j \in DOMAIN source, NEW k \in DOMAIN source,
                       Twin(source[j]) = Twin(source[k])
                PROVE  j = k
    OBVIOUS
  <2>. DEFINE a == source[j].id
              b == source[k].id
  <2>1. a \in Nat /\ b \in Nat /\ OldId + a = OldId + b
    BY <1>4, <1>5 DEF Twin, TargetId
  <2>. HIDE DEF a, b
  <2>2. a = b
    BY <2>1 DEF OldId
  <2>. QED  BY <1>4, <2>2 DEF a, b
<1>9. Twin(s) \notin used
  <2>. SUFFICES ASSUME NEW i \in SourceIds, mapping[i] = Twin(s) PROVE FALSE
    OBVIOUS
  <2>1. Twin(s) # Unset
    BY <1>4, <1>5 DEF Twin, TargetId, OldId, Unset
  <2>2. PICK k \in DOMAIN source : k <= read /\ source[k].id = i
    BY <2>1 DEF MapperInv, MappedOnce
  <2>3. Twin(source[k]) = Twin(s)
    BY <1>7, <2>2
  <2>4. k = n
    BY <1>8, <2>3
  <2>. QED  BY <1>2, <1>3, <2>2, <2>4
<1>10. Match(s, used) = Twin(s)
  <2>. HIDE DEF used
  <2>. QED  BY <1>6, <1>9, TwinMatches
<1>11. \A i \in SourceIds : mapping'[i] = IF i = s.id THEN Twin(s) ELSE mapping[i]
  BY <1>2, <1>10 DEF MapperInv, MappedOnce
<1>12. ASSUME NEW k \in DOMAIN source, k <= read'
       PROVE  mapping'[source[k].id] = Twin(source[k])
  <2>1. CASE k = n
    BY <1>4, <1>11, <2>1
  <2>2. CASE k # n
    <3>1. k <= read
      BY <1>2, <1>3, <1>12, <2>2
    <3>2. source[k].id # s.id /\ source[k].id \in SourceIds
      BY <1>4, <2>2
    <3>. QED  BY <1>7, <1>11, <3>1, <3>2
  <2>. QED  BY <2>1, <2>2
<1>. QED  BY <1>12

LEMMA MapperInvariant == MapperSpec => []MapperInv
<1>1. MapperInit => MapperInv
  BY MapperStarts
<1>2. MapperInv /\ [MapperNext]_mapperVars => MapperInv'
  <2>. SUFFICES ASSUME MapperInv, [MapperNext]_mapperVars PROVE MapperInv'
    OBVIOUS
  <2>1. CASE \E order \in {"oldest first", "newest first"} : Recover(order)
    BY <2>1, RecoverPreserves
  <2>2. CASE MapSourceToTarget
    BY <2>2, MapPreserves, MapFindsTwin DEF MapperInv
  <2>3. CASE UNCHANGED mapperVars
    BY <2>3 DEF mapperVars, MapperInv, SourceKept, TargetKept, MappedOnce, MappingInjective,
                TwinsSoFar, AllApart, AllRecognizable, Recognizable
  <2>. QED  BY <2>1, <2>2, <2>3 DEF MapperNext
<1>. QED  BY <1>1, <1>2, PTL DEF MapperSpec

\* The source records and the mapping have their types: source records have
\* ids of their own, and what is mapped is a record of the target.
THEOREM MapperTypes == MapperSpec => []MapperTypeOK
<1>1. MapperInv => MapperTypeOK
  <2>. SUFFICES ASSUME MapperInv PROVE MapperTypeOK
    OBVIOUS
  <2>1. \A k \in DOMAIN source : source[k].id \in SourceIds
    BY RecordFacts DEF MapperInv, SourceKept
  <2>. QED  BY <2>1 DEF MapperInv, SourceKept, MappedOnce, MapperTypeOK
<1>. QED  BY MapperInvariant, <1>1, PTL

\* However many messages there are and whatever the import lost: no two source
\* messages are given one target and none an older message, and one is left
\* without a target only when no new message is left (map_source_to_target,
\* mapper.py:79-110).
THEOREM OneTargetEach == MapperSpec => []MappingInjective
<1>1. MapperInv => MappingInjective
  BY DEF MapperInv
<1>. QED  BY MapperInvariant, <1>1, PTL

\* What the report says of a message and what the import made of it is true.
LEMMA ReportIsHonest ==
    ASSUME NEW s, NEW fate \in Fates, NEW t, t = TargetRecord(s, fate)
    PROVE  Honest(s, t)
<1>1. /\ t.file = IF "file" \in fate THEN Unset ELSE s.file
      /\ t.text = IF "words" \in fate /\ s.text # Unset THEN OtherText(s.text) ELSE s.text
      /\ t.reply = IF "answer" \in fate \/ s.reply = Unset THEN Unset ELSE TargetId(s.reply)
  BY DEF TargetRecord
<1>2. ReplyClass(s, t) = "REPLY_EXACT" => t.reply = TargetId(s.reply)
  BY <1>1 DEF ReplyClass
<1>3. CaptionClass(s, t) = "CAPTION_ATTACHED" => t.file = s.file /\ t.text = s.text
  BY <1>1 DEF CaptionClass
<1>4. TextClass(s, t) # "FAILED"
  BY <1>1 DEF TextClass
<1>. QED  BY <1>2, <1>3, <1>4 DEF Honest

\* However many messages there are, whoever sent them and whatever files,
\* words, hours, dates and answers the import lost: when all have arrived,
\* marked as imported and with their senders' names, which is not known of a
\* real import, and no two have the same file, or times the mapper may mix up
\* and not two different senders, each source message is given its own twin,
\* and the report of the pair claims nothing that is not so (_match_source,
\* mapper.py:132-185; verifier.py:23-32, 116-144).
THEOREM TwinsAreFound == MapperSpec => []TwinsFound
<1>1. MapperInv => TwinsFound
  <2>. SUFFICES ASSUME MapperInv, AllApart, AllRecognizable, read = Len(source),
                       NEW i \in DOMAIN source
                PROVE  mapping[source[i].id] = Twin(source[i]) /\ Honest(source[i], TargetOf(source[i]))
    BY DEF TwinsFound
  <2>1. i <= read
    <3>1. i \in 1..Len(source)
      BY DEF MapperInv, SourceKept
    <3>. QED  BY <3>1
  <2>2. mapping[source[i].id] = Twin(source[i])
    BY <2>1 DEF MapperInv, TwinsSoFar
  <2>3. \E t \in target : t.id = Twin(source[i])
    BY DEF AllRecognizable, Recognizable
  <2>4. Twin(source[i]) # Unset
    BY <2>3, MapperFacts
  <2>. DEFINE t == TargetOf(source[i])
  <2>5. t \in target /\ t.id = Twin(source[i])
    BY <2>2, <2>3, <2>4 DEF TargetOf
  <2>. HIDE DEF t
  <2>6. \E fate \in Fates : t = TargetRecord(source[i], fate)
    BY <2>5, MadeOf
  <2>7. Honest(source[i], t)
    BY <2>6, ReportIsHonest
  <2>. QED  BY <2>2, <2>7 DEF t
<1>. QED  BY MapperInvariant, <1>1, PTL
=============================================================================
