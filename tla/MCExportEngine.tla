-------------------------- MODULE MCExportEngine ----------------------------
(***************************************************************************)
(* ExportEngine for TLC: chats of a few messages and budgets for the       *)
(* events of the environment.                                              *)
(***************************************************************************)
EXTENDS ExportEngine

\* Ids with a hole, as in a group whose ids are shared with other chats.
MCOldMessages == {1, 3, 4}
MCMedia == {1, 4, 5}

NoEvents == [k \in EventKinds |-> 0]

\* One worker: tasks of the export run one after another, through losses.
SerialBudget == [NoEvents EXCEPT !["request"] = 2, !["workerLoss"] = 1,
    !["childLoss"] = 1, !["dbError"] = 1, !["mediaError"] = 1, !["newMessage"] = 1,
    !["brokerDown"] = 1]
\* Two workers: a resume while the old task still runs, or a redelivery.
OverlapBudget == [NoEvents EXCEPT !["request"] = 2,
    !["redelivery"] = 1]
\* The workfile and what is read from it decide nothing about the row, the
\* ledger or the tasks: runs that ask only about those leave them out.
RowView == <<chat, rowVars, ledgerVars, disk, queueVars, request, pc,
             [w \in Workers |-> [job[w] EXCEPT !.buf = <<>>]], budget>>

\* Whatever Telegram and the user do, with a worker lost or the row deleted.
FairBudget == [NoEvents EXCEPT !["request"] = 2, !["workerLoss"] = 1, !["dbError"] = 1]

\* One cause at a time, for the runs that end in a counterexample.
LossBudget == [NoEvents EXCEPT !["workerLoss"] = 1]
OneRequest == [NoEvents EXCEPT !["request"] = 1]
TwoRequests == [NoEvents EXCEPT !["request"] = 2]

WorkerSymmetry == Permutations(Workers)
=============================================================================
