--------------------------- MODULE MCScanLifecycle ---------------------------
(* Instances of ScanLifecycle for TLC: what may happen to which scan. *)
EXTENDS ScanLifecycle, TLC

CONSTANTS s1, s2

\* s1 meets everything but a slow broker, s2 is not even cancelled.
SafetyEvents ==
  s1 :> EventKind \ {"slowBroker"} @@ s2 :> EventKind \ {"slowBroker", "cancel"}

\* s1 meets failures it need not recover from, s2 every event it recovers from.
LivenessEvents ==
  s1 :> {"raise", "raiseLocal", "dbFault"}
  @@ s2 :> {"workerCrash", "slowBroker", "cancel", "raiseLocal"}

OnlyCancel == [s \in Scan |-> {"cancel"}]
OnlyRaise  == [s \in Scan |-> {"raise"}]
=============================================================================
