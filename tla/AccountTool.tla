---------------------------- MODULE AccountTool -----------------------------
(***************************************************************************)
(* The interactive account tool of the recovery side                       *)
(* (telegram_recovery_v2/src/recovery_v2/login_accounts.py): one process   *)
(* works off one menu choice at a time; Telegram, the accounts database    *)
(* and the session files keep their state when it dies.  A session is the  *)
(* number of the sign-in that made it.                                     *)
(***************************************************************************)
EXTENDS Naturals, FiniteSets

CONSTANTS
    Phones,       \* the phone numbers
    MaxSignIns    \* bound: sign-ins, over all phones

ASSUME ToolAssumption == Phones # {} /\ IsFiniteSet(Phones) /\ MaxSignIns \in Nat

VARIABLES
    accounts,     \* telegram_accounts, by phone
    sessionFiles, \* account_<phone>.session
    authorized,   \* the sessions Telegram knows
    signIns,      \* how many there have been
    menu,         \* the choice being worked off
    strays,       \* sessions that a fault took out of the tool's hands
    interrupted   \* phones in whose choice the process died

toolVars == <<accounts, sessionFiles, authorized, signIns, menu, strays, interrupted>>

Sessions == 1..MaxSignIns
NoSession == 0
\* A write opens the file empty; a death in it leaves it empty or cut.
EmptyFile == MaxSignIns + 1
CutFile == MaxSignIns + 2
MissingFile == MaxSignIns + 3
FileStates == Sessions \cup {EmptyFile, CutFile, MissingFile}
NoAccount == [row |-> FALSE, valid |-> FALSE, user |-> FALSE]
Idle == [step |-> "idle", phone |-> CHOOSE p \in Phones : TRUE, session |-> NoSession]
MenuChoices == [step : {"idle", "me", "open", "fill", "upsert", "logout", "unlink", "delete"},
                phone : Phones, session : Sessions \cup {NoSession}]

ToolTypeOK ==
    /\ accounts \in [Phones -> [row : BOOLEAN, valid : BOOLEAN, user : BOOLEAN]]
    /\ sessionFiles \in [Phones -> FileStates]
    /\ authorized \subseteq Sessions
    /\ signIns \in 0..MaxSignIns
    /\ menu \in MenuChoices
    /\ strays \subseteq Sessions /\ interrupted \subseteq Phones

ToolInit ==
    /\ accounts = [p \in Phones |-> NoAccount]
    /\ sessionFiles = [p \in Phones |-> MissingFile]
    /\ authorized = {} /\ signIns = 0 /\ strays = {}
    /\ interrupted = {} /\ menu = Idle

Enter(step, p, s) == menu' = [step |-> step, phone |-> p, session |-> s]
\* A row always has a session_path; the session in it, if one can be read.
SavedSession(p) == IF accounts[p].row THEN sessionFiles[p] ELSE MissingFile

-----------------------------------------------------------------------------
(* _add_or_reauth, perform_login. *)

\* The saved session still answers; a file cut short is a login failure.
ReuseSession(p) ==
    /\ menu.step = "idle"
    /\ SavedSession(p) \in authorized
    /\ Enter("me", p, SavedSession(p))
    /\ UNCHANGED <<accounts, sessionFiles, authorized, signIns, strays, interrupted>>

\* A code, and a password: the sign-in makes a session on the server.
SignIn(p) ==
    /\ menu.step = "idle" /\ signIns < MaxSignIns
    /\ SavedSession(p) \notin authorized \cup {CutFile}
    /\ signIns' = signIns + 1
    /\ authorized' = authorized \cup {signIns + 1}
    /\ Enter("me", p, signIns + 1)
    /\ UNCHANGED <<accounts, sessionFiles, strays, interrupted>>

GetMe_RecordsFirst ==                                                \* (mistake)
    /\ menu.step = "me"
    /\ Enter("open", menu.phone, menu.session)
    /\ accounts' = [accounts EXCEPT ![menu.phone] =
                      [row |-> TRUE, valid |-> TRUE, user |-> TRUE]]
    /\ UNCHANGED <<sessionFiles, authorized, signIns, strays, interrupted>>
\* get_me; when it fails, the session is disconnected and forgotten.
GetMe ==
    /\ menu.step = "me"
    /\ \/ /\ Enter("open", menu.phone, menu.session)
          /\ UNCHANGED strays
       \/ /\ menu' = Idle
          /\ strays' = IF sessionFiles[menu.phone] = menu.session THEN strays
                       ELSE strays \cup {menu.session}
    /\ UNCHANGED <<accounts, sessionFiles, authorized, signIns, interrupted>>

OpenFile ==
    /\ menu.step = "open"
    /\ sessionFiles' = [sessionFiles EXCEPT ![menu.phone] = EmptyFile]
    /\ Enter("fill", menu.phone, menu.session)
    /\ UNCHANGED <<accounts, authorized, signIns, strays, interrupted>>

FillFile ==
    /\ menu.step = "fill"
    /\ sessionFiles' = [sessionFiles EXCEPT ![menu.phone] = menu.session]
    /\ Enter("upsert", menu.phone, menu.session)
    /\ UNCHANGED <<accounts, authorized, signIns, strays, interrupted>>

Upsert ==
    /\ menu.step = "upsert"
    /\ accounts' = [accounts EXCEPT ![menu.phone] =
                      [row |-> TRUE, valid |-> TRUE, user |-> TRUE]]
    /\ menu' = Idle
    /\ UNCHANGED <<sessionFiles, authorized, signIns, strays, interrupted>>

-----------------------------------------------------------------------------
\* check_session: a network failure counts as invalid.
CheckedSession(p) == {valid \in BOOLEAN : valid => sessionFiles[p] \in authorized}

\* _test_session: the upsert drops the user either way.  A cut file raises out
\* of the menu.
TestSession(p) ==
    /\ menu.step = "idle" /\ accounts[p].row
    /\ sessionFiles[p] \notin {MissingFile, CutFile}
    /\ \E valid \in CheckedSession(p) :
          accounts' = [accounts EXCEPT ![p] = [row |-> TRUE, valid |-> valid, user |-> FALSE]]
    /\ UNCHANGED <<sessionFiles, authorized, signIns, menu, strays, interrupted>>

(* _remove_account *)
StartRemoval(p) ==
    /\ menu.step = "idle" /\ accounts[p].row
    /\ IF sessionFiles[p] = MissingFile THEN Enter("delete", p, NoSession)
       ELSE Enter("logout", p, IF sessionFiles[p] \in Sessions THEN sessionFiles[p]
                               ELSE NoSession)
    /\ UNCHANGED <<accounts, sessionFiles, authorized, signIns, strays, interrupted>>

LogOut_Disconnects ==                                                \* (mistake)
    /\ menu.step = "logout"
    /\ Enter("unlink", menu.phone, NoSession)
    /\ UNCHANGED <<accounts, sessionFiles, authorized, signIns, strays, interrupted>>
\* Best effort: what fails here is not tried again.
LogOut ==
    /\ menu.step = "logout"
    /\ \/ /\ authorized' = authorized \ {menu.session}
          /\ UNCHANGED strays
       \/ /\ strays' = strays \cup ({menu.session} \cap authorized)
          /\ UNCHANGED authorized
    /\ Enter("unlink", menu.phone, NoSession)
    /\ UNCHANGED <<accounts, sessionFiles, signIns, interrupted>>

Unlink ==
    /\ menu.step = "unlink"
    /\ sessionFiles' = [sessionFiles EXCEPT ![menu.phone] = MissingFile]
    /\ Enter("delete", menu.phone, NoSession)
    /\ UNCHANGED <<accounts, authorized, signIns, strays, interrupted>>

DeleteRow ==
    /\ menu.step = "delete"
    /\ accounts' = [accounts EXCEPT ![menu.phone] = NoAccount]
    /\ menu' = Idle
    /\ UNCHANGED <<sessionFiles, authorized, signIns, strays, interrupted>>

-----------------------------------------------------------------------------
\* The owner ends a session from another device.
Revoke ==
    /\ \E s \in authorized : authorized' = authorized \ {s}
    /\ UNCHANGED <<accounts, sessionFiles, signIns, menu, strays, interrupted>>

\* The process dies; a write may have put a part of the text on disk.
ToolDies ==
    /\ menu.step # "idle"
    /\ \/ UNCHANGED sessionFiles
       \/ /\ menu.step = "fill"
          /\ sessionFiles' = [sessionFiles EXCEPT ![menu.phone] = CutFile]
    /\ strays' = IF menu.step \in {"me", "open", "fill", "upsert"}
                 THEN strays \cup {menu.session} ELSE strays
    /\ interrupted' = interrupted \cup {menu.phone}
    /\ menu' = Idle
    /\ UNCHANGED <<accounts, authorized, signIns>>

ToolNext ==
    \/ \E p \in Phones : \/ ReuseSession(p) \/ SignIn(p)
                         \/ TestSession(p) \/ StartRemoval(p)
    \/ GetMe \/ OpenFile \/ FillFile \/ Upsert
    \/ LogOut \/ Unlink \/ DeleteRow
    \/ Revoke \/ ToolDies

ToolSpec == ToolInit /\ [][ToolNext]_toolVars

-----------------------------------------------------------------------------
(* A session that Telegram still accepts is in its phone's file or in the  *)
(* hands of the menu choice at work: an account that is removed, or signed *)
(* in again, leaves none behind, unless Telegram or the process failed in  *)
(* the middle (_add_or_reauth, login_accounts.py:352-380; _remove_account, *)
(* :457-469).                                                              *)
NoSessionLost ==
    \A s \in authorized : \/ \E p \in Phones : sessionFiles[p] = s
                          \/ menu.step # "idle" /\ menu.session = s
                          \/ s \in strays

Rewriting(p) == menu.phone = p /\ menu.step \in {"fill", "unlink", "delete"}

(* An account shown as authorized has a session file of its own that can   *)
(* be read, and no other account has the same one, unless the process died *)
(* in a choice about it (the order of the write and the upsert).           *)
ShownHasSession ==
    \A p \in Phones : accounts[p].valid /\ ~Rewriting(p) =>
        \/ p \in interrupted
        \/ sessionFiles[p] \in Sessions
           /\ \A q \in Phones \ {p} : sessionFiles[q] # sessionFiles[p]
=============================================================================
