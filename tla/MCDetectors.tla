----------------------------- MODULE MCDetectors -----------------------------
\* An instance of Detectors and Assessment for TLC.
EXTENDS Assessment, TLC

MCParams   == "SQLi" :> 2 @@ "XSS" :> 3 @@ "DirTraversal" :> 2 @@ "HTTPMethods" :> 3
MCPayloads == "SQLi" :> 2 @@ "XSS" :> 2 @@ "DirTraversal" :> 3 @@ "HTTPMethods" :> 1
MCMajor    == {6, 7, 8}
MCMinor    == {3, 4, 5}

\* The lowest score is 0.1 instead of 3.1, so that few informational findings
\* beside it bring the risk down to nought.
MCHeaderRate == "csp" :> <<"HIGH", 72>> @@ "referrer" :> <<"LOW", 1>>
MCMethodRate == <<<<"MEDIUM", 58>>, <<"HIGH", 81>>, <<"MEDIUM", 61>>>>
MCPortRate   == <<"CRITICAL", 98>>
MCPortScans  ==
  {[dangerous |-> d, services |-> 1, alarms |-> a] : d \in 0 .. 1, a \in 0 .. 1}
  \union {[dangerous |-> 0, services |-> s, alarms |-> 0] : s \in {0, 2, 4}}
=============================================================================
