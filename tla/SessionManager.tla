--------------------------- MODULE SessionManager ---------------------------
(***************************************************************************)
(* The SessionManager of one API process: login flows in progress, the     *)
(* pool of connected Telegram clients and the lock of each account         *)
(* (backend/app/services/session_manager.py), with the requests that use   *)
(* them (backend/app/api/accounts.py, accounts_exports.py).                *)
(*                                                                         *)
(* A request is a coroutine of one event loop: an action is the code from  *)
(* one suspension to the next.  self._lock guards no suspension and is     *)
(* therefore part of the actions it is taken in.  A client, a HeldLogin    *)
(* and a lock are named after the request that creates them, which creates *)
(* at most one of each.                                                    *)
(***************************************************************************)
EXTENDS Naturals, FiniteSets, Sequences, SequencesExt

CONSTANTS
    MaxCalls,     \* bound: the requests that arrive
    Accounts,     \* ids of telegram_sessions rows, never reused
    MaxSessions,  \* MAX_CONCURRENT_SESSIONS
    Ops           \* the operations they ask for

AllOps == {"create", "code", "2fa", "check", "search", "export", "delete"}

Calls == 1..MaxCalls     \* numbered as they arrive
None == 0                \* no client, no lock, no owner, no account

ASSUME AccountAssumption == None \notin Accounts /\ IsFiniteSet(Accounts)
ASSUME LimitAssumption == /\ MaxCalls \in Nat
                          /\ MaxSessions \in Nat \ {0}
ASSUME OpsAssumption == Ops \subseteq AllOps

VARIABLES
    row,       \* the telegram_sessions rows
    flows,     \* _flows: the held login's client, by account
    busy,      \* HeldLogin.busy: its owner, by client
    locks,     \* _account_locks: the lock, by account
    owner,     \* the owner of each account lock
    pool,      \* _pool: the client, by account
    recent,    \* the pooled accounts by last_used, oldest first
    evicted,   \* clients whose _disconnect_later task has yet to run
    conn,      \* the connection of each client
    call       \* the requests

loginVars == <<flows, busy>>
lockVars  == <<locks, owner>>
poolVars  == <<pool, recent, evicted>>
vars == <<row, loginVars, lockVars, poolVars, conn, call>>

Optional(S) == S \cup {None}
\* "absent": not created yet; "deleted": deleted.
AccountStatuses == {"absent", "new", "auth_pending_code", "auth_pending_2fa",
                    "active", "limited", "error", "deleted"}
Rows == [status : AccountStatuses, session : BOOLEAN]
AbsentRow == [status |-> "absent", session |-> FALSE]
Exists(r) == r.status \notin {"absent", "deleted"}

\* seen: the row as the request read it; new: as it will commit it.
Steps == {"new", "start", "connectLogin", "sendCode", "remember", "busyWait",
          "signIn", "pooling", "lockWait", "connect", "use", "purge", "commit",
          "done"}
CallRecords == [pc : Steps, op : AllOps, acct : Optional(Accounts),
                seen : Rows, new : Rows,
                lock : Optional(Calls), client : Optional(Calls)]
NewCall == [pc |-> "new", op |-> "create", acct |-> None, seen |-> AbsentRow,
            new |-> AbsentRow, lock |-> None, client |-> None]

TypeOK ==
    /\ row \in [Accounts -> Rows]
    /\ flows \in [Accounts -> Optional(Calls)]
    /\ busy \in [Calls -> Optional(Calls)]
    /\ locks \in [Accounts -> Optional(Calls)]
    /\ owner \in [Calls -> Optional(Calls)]
    /\ pool \in [Accounts -> Optional(Calls)]
    /\ recent \in Seq(Accounts)
    /\ evicted \subseteq Calls
    /\ conn \in [Calls -> {"none", "up", "down"}]
    /\ call \in [Calls -> CallRecords]
    /\ \A c \in Calls : call[c].pc # "new" => call[c].acct \in Accounts

\* The process has just started, over the rows an earlier one left.
StartRows == {AbsentRow,
              [status |-> "auth_pending_code", session |-> FALSE],
              [status |-> "active", session |-> TRUE]}
Init ==
    /\ row \in [Accounts -> StartRows]
    /\ flows = [a \in Accounts |-> None] /\ busy = [k \in Calls |-> None]
    /\ locks = [a \in Accounts |-> None] /\ owner = [k \in Calls |-> None]
    /\ pool = [a \in Accounts |-> None] /\ recent = <<>> /\ evicted = {}
    /\ conn = [k \in Calls |-> "none"]
    /\ call = [c \in Calls |-> NewCall]

-----------------------------------------------------------------------------
(* Steps of a request that several handlers share. *)

At(c, step) == call[c].pc = step
Goto(c, step) == call' = [call EXCEPT ![c].pc = step]
\* The request ends without a commit: a refusal, or an unhandled exception.
Answered(r) == [NewCall EXCEPT !.pc = "done", !.op = r.op, !.acct = r.acct]
Answer(c) == call' = [call EXCEPT ![c] = Answered(@)]

\* Commit the attributes the request has assigned a new value.
Commit(c, new) == call' = [call EXCEPT ![c].pc = "commit", ![c].new = new]
Status(c, s) == [call[c].seen EXCEPT !.status = s]

ReleaseBusy(k) == busy' = [busy EXCEPT ![k] = None]

\* acquire_client's release; a check_account holds no lock.
Unlocked(c) == IF call[c].lock = None THEN owner
               ELSE [owner EXCEPT ![call[c].lock] = None]

\* s without account a, which it holds at most once.
Without(s, a) == IF a \in Range(s)
                 THEN RemoveAt(s, CHOOSE i \in DOMAIN s : s[i] = a) ELSE s

\* _touch
Touched(s, a) == IF pool[a] = None THEN s ELSE Append(Without(s, a), a)

\* _evict_if_needed: the account whose client goes, if one must.
Pooled == {a \in Accounts : pool[a] # None}
Victims_NoLimit(a) == {}                                             \* (mistake)
Victims_Others(a) ==                                                 \* (mistake)
    IF Cardinality(Pooled) < MaxSessions THEN {} ELSE Accounts \ {a}
Victims(a) ==
    IF Cardinality(Pooled) < MaxSessions \/ a \in Pooled \/ recent = <<>>
    THEN {} ELSE {Head(recent)}

\* Put client k of account a into the pool; an earlier client of a is forgotten.
Insert(a, k) ==
    /\ pool' = [b \in Accounts |-> CASE b = a -> k
                                     [] b # a /\ b \in Victims(a) -> None
                                     [] OTHER -> pool[b]]
    /\ LET left == IF Victims(a) = {} THEN recent ELSE Tail(recent)
       IN  recent' = Append(Without(left, a), a)
    /\ evicted' = evicted \cup {pool[b] : b \in Victims(a)}

-----------------------------------------------------------------------------
(* A request arrives: its row is read or, by create_account, inserted. *)

Receive(c) ==
    /\ At(c, "new") /\ \A b \in 1..(c - 1) : ~At(b, "new")
    /\ \E op \in Ops, a \in Accounts :
          \/ /\ op = "create" /\ row[a] = AbsentRow
             /\ row' = [row EXCEPT ![a].status = "new"]
             /\ call' = [call EXCEPT ![c] = [NewCall EXCEPT !.pc = "connectLogin",
                   !.op = op, !.acct = a, !.seen = row'[a], !.new = row'[a]]]
          \/ /\ op # "create" /\ Exists(row[a])
             /\ call' = [call EXCEPT ![c] = [NewCall EXCEPT !.pc = "start",
                   !.op = op, !.acct = a, !.seen = row[a], !.new = row[a]]]
             /\ UNCHANGED row
    /\ UNCHANGED <<loginVars, lockVars, poolVars, conn>>

\* The attributes that changed since the row was read; nothing, on a row that
\* has been deleted meanwhile.
Written_WholeRow(c) == call[c].new                                   \* (mistake)
Written(c) ==
    LET seen == call[c].seen  new == call[c].new  now == row[call[c].acct]
    IN  [status  |-> IF new.status # seen.status THEN new.status ELSE now.status,
         session |-> IF new.session # seen.session THEN new.session ELSE now.session]
CommitRow(c) ==
    /\ At(c, "commit")
    /\ row' = IF Exists(row[call[c].acct])
              THEN [row EXCEPT ![call[c].acct] = Written(c)] ELSE row
    /\ Answer(c)
    /\ UNCHANGED <<loginVars, lockVars, poolVars, conn>>

-----------------------------------------------------------------------------
(* Login: start_login, submit_code, submit_2fa, _finalize. *)

\* submit_code and submit_2fa look for the held login.
StartSubmit(c) ==
    /\ At(c, "start") /\ call[c].op \in {"code", "2fa"}
    /\ LET k == flows[call[c].acct]
       IN  \/ /\ call[c].seen.status = "active"           \* already_logged_in
              /\ Answer(c)
           \/ /\ call[c].seen.status # "active" /\ k # None
              /\ call' = [call EXCEPT ![c].pc = "busyWait", ![c].client = k]
           \/ /\ call[c].seen.status # "active" /\ k = None
              /\ call[c].op = "2fa"                       \* flow_expired
              /\ Answer(c)
           \/ /\ call[c].seen.status # "active" /\ k = None
              /\ call[c].op = "code"                      \* API restarted mid-flow
              /\ Goto(c, "connectLogin")
    /\ UNCHANGED <<row, loginVars, lockVars, poolVars, conn>>

\* start_login: connect, and hold the client as the account's login.
ConnectLogin(c) ==
    /\ At(c, "connectLogin")
    /\ \/ /\ conn' = [conn EXCEPT ![c] = "up"]
          /\ flows' = [flows EXCEPT ![call[c].acct] = c]
          /\ busy' = [busy EXCEPT ![c] = c]
          /\ Goto(c, "sendCode")
       \/ Answer(c) /\ UNCHANGED <<conn, loginVars>>
    /\ UNCHANGED <<row, lockVars, poolVars>>

\* What create_account stores when start_login refuses; submit_code stores
\* only last_error.
Refused(c) == IF call[c].op = "create" THEN Status(c, "error") ELSE call[c].new

\* send_code_request: sent; refused because a 2FA password is needed, or by an
\* error start_login does not name (the held login stays); refused for good
\* (_abort_flow ends whatever login is held by now).
SendCode(c) ==
    /\ At(c, "sendCode")
    /\ ReleaseBusy(c)
    /\ LET k == flows[call[c].acct]
       IN  \/ /\ call' = [call EXCEPT ![c].pc = "remember",
                                      ![c].new.status = "auth_pending_code"]
              /\ UNCHANGED <<flows, conn>>
           \/ /\ Commit(c, Refused(c)) \/ Answer(c)
              /\ UNCHANGED <<flows, conn>>
           \/ /\ Commit(c, Refused(c))
              /\ flows' = [flows EXCEPT ![call[c].acct] = None]
              /\ conn' = IF k = None THEN conn ELSE [conn EXCEPT ![k] = "down"]
    /\ UNCHANGED <<row, lockVars, poolVars>>

\* _remember_flow has been awaited; submit_code takes what _flows holds now,
\* and fails with a KeyError when that is nothing.
Remember(c) ==
    /\ At(c, "remember")
    /\ LET k == flows[call[c].acct]
       IN  \/ call[c].op = "create" /\ Goto(c, "commit")
           \/ /\ call[c].op = "code" /\ k # None
              /\ call' = [call EXCEPT ![c].pc = "busyWait", ![c].client = k]
           \/ call[c].op = "code" /\ k = None /\ Answer(c)
    /\ UNCHANGED <<row, loginVars, lockVars, poolVars, conn>>

EnterBusy(c) ==
    /\ At(c, "busyWait")
    /\ busy[call[c].client] = None
    /\ busy' = [busy EXCEPT ![call[c].client] = c]
    /\ Goto(c, "signIn")
    /\ UNCHANGED <<row, flows, lockVars, poolVars, conn>>

\* sign_in: a password is needed next; refused, or failed; or done, and get_me
\* too: the session is saved and the flow forgotten.
SignIn(c) ==
    /\ At(c, "signIn")
    /\ \/ /\ call[c].op = "code" /\ conn[call[c].client] = "up"
          /\ Commit(c, [call[c].new EXCEPT !.status = "auth_pending_2fa"])
          /\ ReleaseBusy(call[c].client)
          /\ UNCHANGED flows
       \/ /\ Commit(c, call[c].new) \/ Answer(c)
          /\ ReleaseBusy(call[c].client)
          /\ UNCHANGED flows
       \/ /\ conn[call[c].client] = "up"
          /\ call' = [call EXCEPT ![c].pc = "pooling",
                                  ![c].new = [status |-> "active", session |-> TRUE]]
          /\ flows' = [flows EXCEPT ![call[c].acct] = None]
          /\ UNCHANGED busy
    /\ UNCHANGED <<row, lockVars, poolVars, conn>>

\* The last lines of _finalize, after the Redis key is deleted.
FinishLogin(c) ==
    /\ At(c, "pooling")
    /\ Insert(call[c].acct, call[c].client)
    /\ ReleaseBusy(call[c].client)
    /\ Goto(c, "commit")
    /\ UNCHANGED <<row, flows, lockVars, conn>>

-----------------------------------------------------------------------------
(* acquire_client, _acquire and the requests that use a pooled client. *)

\* search_chats and create_export: the lock of the account, made when missing.
LockFor_New(c) == c                                                  \* (mistake)
LockFor(c) == IF locks[call[c].acct] = None THEN c ELSE locks[call[c].acct]
GetLock(c) ==
    /\ At(c, "start") /\ call[c].op \in {"search", "export"}
    /\ \/ /\ call[c].seen.status # "active"               \* not_active
          /\ Answer(c)
          /\ UNCHANGED locks
       \/ /\ call[c].seen.status = "active"
          /\ call' = [call EXCEPT ![c].pc = "lockWait", ![c].lock = LockFor(c)]
          /\ locks' = [locks EXCEPT ![call[c].acct] = LockFor(c)]
    /\ UNCHANGED <<row, loginVars, owner, poolVars, conn>>

\* _acquire: the pooled client, or a new one to connect.
Lookup(c) ==
    LET a == call[c].acct
    IN  \/ /\ pool[a] # None
           /\ recent' = Touched(recent, a)
           /\ call' = [call EXCEPT ![c].pc = "use", ![c].client = pool[a]]
        \/ /\ pool[a] = None
           /\ Goto(c, "connect")
           /\ UNCHANGED recent

TakeLock(c) ==
    /\ At(c, "lockWait")
    /\ owner[call[c].lock] = None
    /\ owner' = [owner EXCEPT ![call[c].lock] = c]
    /\ Lookup(c)
    /\ UNCHANGED <<row, loginVars, locks, pool, evicted, conn>>

\* check_account takes no account lock.
StartCheck(c) ==
    /\ At(c, "start") /\ call[c].op = "check"
    /\ \/ /\ ~call[c].seen.session                        \* not_authenticated
          /\ Commit(c, Status(c, "error"))
          /\ UNCHANGED recent
       \/ call[c].seen.session /\ Lookup(c)
    /\ UNCHANGED <<row, loginVars, lockVars, pool, evicted, conn>>

\* An exception while connecting releases the lock.
AfterConnectError_Kept(c) == owner                                   \* (mistake)
AfterConnectError(c) == Unlocked(c)
Connect(c) ==
    /\ At(c, "connect")
    /\ \/ /\ conn' = [conn EXCEPT ![c] = "up"]
          /\ Insert(call[c].acct, c)
          /\ call' = [call EXCEPT ![c].pc = "use", ![c].client = c]
          /\ UNCHANGED owner
       \/ /\ owner' = AfterConnectError(c)
          /\ Answer(c)
          /\ UNCHANGED <<conn, poolVars>>
    /\ UNCHANGED <<row, loginVars, locks>>

\* search_chats releases the client whatever happens.
UseForSearch(c) ==
    /\ At(c, "use") /\ call[c].op = "search"
    /\ owner' = Unlocked(c)
    /\ recent' = Touched(recent, call[c].acct)
    /\ Answer(c)
    /\ UNCHANGED <<row, loginVars, locks, pool, evicted, conn>>

\* create_export releases it once the chat is resolved; an exception on the way
\* (chat_not_found) leaves the handler with the lock taken.
UseForExport(c) ==
    /\ At(c, "use") /\ call[c].op = "export"
    /\ \/ /\ conn[call[c].client] = "up"
          /\ owner' = Unlocked(c)
          /\ recent' = Touched(recent, call[c].acct)
       \/ UNCHANGED <<owner, recent>>
    /\ Answer(c)
    /\ UNCHANGED <<row, loginVars, locks, pool, evicted, conn>>

\* check_account: get_me answers, or raises.
UseForCheck(c) ==
    /\ At(c, "use") /\ call[c].op = "check"
    /\ recent' = Touched(recent, call[c].acct)
    /\ \/ /\ conn[call[c].client] = "up"
          /\ \E s \in {"active", "limited"} : Commit(c, Status(c, s))
       \/ Answer(c)
    /\ UNCHANGED <<row, loginVars, lockVars, pool, evicted, conn>>

-----------------------------------------------------------------------------
(* Deletion, eviction, restart. *)

\* drop: forget the account's login, lock and client; only the latter is
\* disconnected.
Drop(c) ==
    /\ At(c, "start") /\ call[c].op = "delete"
    /\ LET a == call[c].acct
       IN  /\ flows' = [flows EXCEPT ![a] = None]
           /\ locks' = [locks EXCEPT ![a] = None]
           /\ pool' = [pool EXCEPT ![a] = None]
           /\ recent' = Without(recent, a)
           /\ conn' = IF pool[a] = None THEN conn
                      ELSE [conn EXCEPT ![pool[a]] = "down"]
    /\ Goto(c, "purge")
    /\ UNCHANGED <<row, busy, owner, evicted>>

DeleteAccount(c) ==
    /\ At(c, "purge")
    /\ row' = [row EXCEPT ![call[c].acct] = [status |-> "deleted", session |-> FALSE]]
    /\ Answer(c)
    /\ UNCHANGED <<loginVars, lockVars, poolVars, conn>>

DisconnectLater(k) ==
    /\ k \in evicted
    /\ evicted' = evicted \ {k}
    /\ conn' = [conn EXCEPT ![k] = "down"]
    /\ UNCHANGED <<row, loginVars, lockVars, pool, recent, call>>

\* The process is restarted: requests, logins, locks and clients are gone.
Restart ==
    /\ flows' = [a \in Accounts |-> None] /\ busy' = [k \in Calls |-> None]
    /\ locks' = [a \in Accounts |-> None] /\ owner' = [k \in Calls |-> None]
    /\ pool' = [a \in Accounts |-> None] /\ recent' = <<>> /\ evicted' = {}
    /\ conn' = [k \in Calls |-> IF conn[k] = "up" THEN "down" ELSE conn[k]]
    /\ call' = [c \in Calls |-> IF At(c, "new") THEN call[c]
                                ELSE Answered(call[c])]
    /\ UNCHANGED row

-----------------------------------------------------------------------------
Handle(c) ==
    \/ CommitRow(c)
    \/ StartSubmit(c) \/ ConnectLogin(c) \/ SendCode(c) \/ Remember(c)
    \/ EnterBusy(c) \/ SignIn(c) \/ FinishLogin(c)
    \/ GetLock(c) \/ TakeLock(c) \/ StartCheck(c) \/ Connect(c)
    \/ UseForSearch(c) \/ UseForExport(c) \/ UseForCheck(c)
    \/ Drop(c) \/ DeleteAccount(c)

Next ==
    \/ \E c \in Calls : Receive(c) \/ Handle(c)
    \/ \E k \in Calls : DisconnectLater(k)
    \/ Restart

Spec == Init /\ [][Next]_vars

\* The event loop runs what can run, and Telegram answers or times out.
FairSpec == Spec /\ \A c \in Calls : WF_vars(Handle(c))

-----------------------------------------------------------------------------
\* The pool never exceeds MAX_CONCURRENT_SESSIONS, through logins, rehydrated
\* clients and evictions, and last_used orders exactly its accounts.
PoolBounded ==
    /\ Cardinality(Pooled) <= MaxSessions
    /\ Range(recent) = Pooled
    /\ Len(recent) = Cardinality(Pooled)

\* acquire_client: of the requests that work under an account's lock (search and
\* create_export) two are at work at once only when a delete of the account has
\* forgotten the first one's lock.  It is not about the client itself:
\* check_account uses that without the lock, next to either of them.
Holds(c) == /\ call[c].pc \in {"connect", "use"}
            /\ call[c].op \in {"search", "export"}
Forgotten(a) == \E d \in Calls : /\ call[d].op = "delete" /\ call[d].acct = a
                                 /\ call[d].pc \in {"purge", "done"}
Exclusive ==
    \A c, d \in Calls :
        /\ c # d /\ Holds(c) /\ Holds(d) /\ call[c].acct = call[d].acct
        => Forgotten(call[c].acct)

\* Nobody waits for good: the owner of an account's lock or of a held login is
\* a request that is neither waiting nor answered, unless it is a create_export
\* that was refused (see UseForExport).
Waits(c) == call[c].pc \in {"lockWait", "busyWait"}
LocksMove ==
    \A c, k \in Calls :
        /\ owner[k] = c => ~Waits(c) /\ (At(c, "done") => call[c].op = "export")
        /\ busy[k] = c => ~Waits(c) /\ ~At(c, "done")

\* Requests commit stale copies of the row over one another, but none of them
\* loses a saved session: only deleting the account does.
SessionKept ==
    [][\A a \in Accounts : row[a].session => \/ row'[a].session
                                             \/ row'[a].status = "deleted"]_vars

\* A request that waits for an account's client is served: every request that
\* acquires it releases it.
EventuallyServed == \A c \in Calls : At(c, "lockWait") ~> ~At(c, "lockWait")
=============================================================================
