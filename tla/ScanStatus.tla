------------------------------ MODULE ScanStatus ------------------------------
(***************************************************************************)
(* What may become of the status of a scan between its creation and its     *)
(* end.  ScanLifecycle shows what its executors and DELETE do to a row to   *)
(* be of this kind, and Console relies on no more than that.                *)
(***************************************************************************)

\* A scan that was cancelled is revived when the executor comes to it; one
\* whose start could not be recorded still ends.
Moves(from, to) ==
  \/ from = "pending" /\ to \in {"running", "cancelled", "completed", "failed"}
  \/ from = "running" /\ to \in {"completed", "failed"}
  \/ from = "cancelled" /\ to \in {"running", "completed", "failed"}
=============================================================================
