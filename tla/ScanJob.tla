------------------------------- MODULE ScanJob -------------------------------
(***************************************************************************)
(* What the API promises of a scan, seen by a client that polls it: a scan  *)
(* that was accepted is pending, then running, then ends once and for all;  *)
(* it ends completed exactly when its findings can be read.                 *)
(***************************************************************************)
CONSTANT Scan

VARIABLES
  state,      \* what GET /scan/{id} answers
  published   \* the findings of the scan can be read

vars == <<state, published>>

TypeOK ==
  /\ state \in [Scan -> {"absent", "pending", "running", "completed",
                         "failed", "cancelled"}]
  /\ published \in [Scan -> BOOLEAN]

Init ==
  /\ state = [s \in Scan |-> "absent"]
  /\ published = [s \in Scan |-> FALSE]

Move(s, from, to) ==
  /\ state[s] \in from
  /\ state' = [state EXCEPT ![s] = to]

Accept(s) == Move(s, {"absent"}, "pending") /\ UNCHANGED published
Begin(s)  == Move(s, {"pending"}, "running") /\ UNCHANGED published
Cancel(s) == Move(s, {"pending"}, "cancelled") /\ UNCHANGED published
Fail(s)   == Move(s, {"pending", "running"}, "failed") /\ UNCHANGED published

\* A scan whose start could not be recorded still completes.
Complete(s) ==
  /\ Move(s, {"pending", "running"}, "completed")
  /\ published' = [published EXCEPT ![s] = TRUE]

Next ==
  \E s \in Scan : Accept(s) \/ Begin(s) \/ Cancel(s) \/ Fail(s) \/ Complete(s)

Spec == Init /\ [][Next]_vars
=============================================================================
