---------------------------- MODULE SlidingLimit ----------------------------
(***************************************************************************)
(* What a sliding-window rate limiter promises, for one window per key: a   *)
(* request is let through exactly when fewer than MaxRequests were let      *)
(* through during the period that ends now.  The whole history is kept.     *)
(***************************************************************************)
EXTENDS Integers, Sequences

CONSTANTS
  Key,          \* whatever has a window of its own
  MaxRequests,
  Span          \* the length of the period, in ticks

VARIABLES
  now,
  passed,   \* when each request of a key was let through, oldest first
  answer    \* what the last request of a key was answered

vars == <<now, passed, answer>>

\* Of the last MaxRequests requests let through, the oldest is still recent.
Full(k) ==
  LET n == Len(passed[k])
  IN n >= MaxRequests /\ passed[k][n - MaxRequests + 1] + Span >= now

Init ==
  /\ now = 0
  /\ passed = [k \in Key |-> <<>>]
  /\ answer = [k \in Key |-> "none"]

Tick == now' = now + 1 /\ UNCHANGED <<passed, answer>>

Pass(k) ==
  /\ ~Full(k)
  /\ passed' = [passed EXCEPT ![k] = Append(@, now)]
  /\ answer' = [answer EXCEPT ![k] = "passed"]
  /\ UNCHANGED now

Refuse(k) ==
  /\ Full(k)
  /\ answer' = [answer EXCEPT ![k] = "refused"]
  /\ UNCHANGED <<now, passed>>

\* The windows of some keys are lost.
Forget(keys) ==
  /\ passed' = [k \in Key |-> IF k \in keys THEN <<>> ELSE passed[k]]
  /\ answer' = [k \in Key |-> IF k \in keys THEN "none" ELSE answer[k]]
  /\ UNCHANGED now

Next ==
  \/ Tick
  \/ \E k \in Key : Pass(k) \/ Refuse(k)
  \/ \E keys \in SUBSET Key : Forget(keys)

Spec == Init /\ [][Next]_vars
=============================================================================
