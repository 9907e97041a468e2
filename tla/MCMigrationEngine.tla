------------------------- MODULE MCMigrationEngine --------------------------
(* MigrationEngine for TLC: a history of three batches.                    *)
EXTENDS MigrationEngine

MCWindow == <<2>>
=============================================================================
