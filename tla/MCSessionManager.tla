------------------------- MODULE MCSessionManager ---------------------------
(* SessionManager for TLC: which requests arrive.                          *)
EXTENDS SessionManager, TLC

LookupOps == {"search", "export"}
AccountSymmetry == Permutations(Accounts)

\* Nothing reads what an answered request asked for, unless it may have left a
\* lock taken or forgotten, nor the connection of a client that nobody knows.
Asked(c) == IF At(c, "done") /\ call[c].op \notin {"export", "delete"}
            THEN Answered(NewCall) ELSE call[c]
Known == evicted \cup {call[c].client : c \in Calls}
                 \cup {pool[a] : a \in Accounts} \cup {flows[a] : a \in Accounts}
LiveView == <<row, loginVars, lockVars, poolVars,
              [c \in Calls |-> Asked(c)],
              [k \in Calls |-> IF k \in Known THEN conn[k] ELSE "none"]>>
=============================================================================
