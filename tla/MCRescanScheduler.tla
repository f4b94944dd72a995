-------------------------- MODULE MCRescanScheduler --------------------------
\* What happens to the targets and the processes of the instances.
EXTENDS RescanScheduler

\* Target 1: clients scan it, scans fail.  Target 2: neither; its scans may be
\* lost and its rescans refused.
TwoTargets == [t \in Target |-> IF t = 1 THEN {"fail", "manual", "toggle"}
                                        ELSE {"lose", "refuse", "toggle"}]
Restarts   == [p \in Process |-> {"fault", "stop"}]

Undisturbed == [t \in Target |-> {}]
Reliable    == [p \in Process |-> {}]
=============================================================================
