--------------------------- MODULE MCExportStop -----------------------------
(* ExportStop for TLC: one worker that nothing interrupts.                 *)
EXTENDS ExportStop

QuietBudget == [[k \in EventKinds |-> 0] EXCEPT !["request"] = 3, !["newMessage"] = 1]
=============================================================================
