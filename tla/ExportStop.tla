----------------------------- MODULE ExportStop -----------------------------
(***************************************************************************)
(* How much of a chat an export still copies after its user has paused or  *)
(* cancelled it: ExportEngine with a history variable that counts the      *)
(* messages committed while the stop request stands.                       *)
(***************************************************************************)
EXTENDS ExportEngine

VARIABLE late    \* messages committed since the stop request was committed

stopVars == <<vars, late>>

StopInit == Init /\ late = 0

StopNext ==
    /\ Next
    /\ late' = IF StopRequested /\ StopRequested'
               THEN late + Cardinality(ledger' \ ledger) ELSE 0

StopSpec == StopInit /\ [][StopNext]_stopVars

-----------------------------------------------------------------------------
\* The request is noticed at the next checkpoint, which the counter
\* fetched_since_checkpoint puts off by at most one page beyond
\* checkpoint_every (_run_with_client, _checkpoint, _should_stop).
StopBounded == late < CheckpointEvery + BatchSize
=============================================================================
