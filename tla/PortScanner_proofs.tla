-------------------------- MODULE PortScanner_proofs --------------------------
(***************************************************************************)
(* Theorems about PortScanner, for any ports and any number of retries.     *)
(***************************************************************************)
EXTENDS PortScanner, FiniteSetTheorems, TLAPS

LEMMA AttemptType == Attempt \subseteq Nat /\ Connect \notin Attempt /\ Attempt \subseteq Writer
  BY RetriesAssumption DEF Attempt, Connect, Writer

\* Where a failed attempt leads.
LEMMA NextAttempt ==
  ASSUME TypeOK, attempt <= MaxRetries
  PROVE  attempt + 1 \in Attempt
  BY RetriesAssumption DEF TypeOK, Attempt

LEMMA ListingTypes ==
  ASSUME TypeOK, NEW p \in Port, NEW w \in Writer, ListPort(p, w)
  PROVE  /\ open' \subseteq Port \X Writer
         /\ filtered' \subseteq Port \X Writer
         /\ Listed' = Listed \union {<<p, w>>}
  BY DEF TypeOK, ListPort, Listed

\* backoff is only reached while an attempt is left.
LEMMA TypeStep ==
  ASSUME TypeOK, scanPc = "backoff" => attempt <= MaxRetries, [Next]_vars
  PROVE  TypeOK'
<1> USE AttemptType DEF TypeOK
<1>1. CASE UNCHANGED vars
  BY <1>1 DEF vars, loop, threads, result
<1>2. ASSUME NEW k \in Attempt, ThreadStep(k) PROVE TypeOK'
  <2>1. CASE NmapRaises(k)
    BY <2>1 DEF NmapRaises, ThreadEnds, loop, portLists
  <2>2. CASE NmapFindsNoHost(k)
    BY <2>2 DEF NmapFindsNoHost, ThreadEnds, loop, portLists, ErrorKind
  <2>3. CASE NmapAnswers(k)
    BY <2>3 DEF NmapAnswers, loop, result
  <2>4. CASE WriteEnds(k)
    BY <2>4 DEF WriteEnds, loop, result
  <2>5. ASSUME NEW p \in Port, WritePort(k, p) PROVE TypeOK'
    <3>1. open' \subseteq Port \X Writer /\ filtered' \subseteq Port \X Writer
      BY <2>5, ListingTypes DEF WritePort
    <3>2. QED
      BY <2>5, <3>1 DEF WritePort, loop
  <2>6. QED
    BY <1>2, <2>1, <2>2, <2>3, <2>4, <2>5 DEF ThreadStep
<1>3. CASE ScanStep
  <2>1. CASE Start
    BY <2>1 DEF Start, threads, result
  <2>2. CASE Launch
    BY <2>2 DEF Launch, result
  <2>3. CASE Succeed
    BY <2>3 DEF Succeed, threads, portLists
  <2>4. ASSUME NEW kind \in ErrorKind, NEW retry \in BOOLEAN, AttemptFails(kind, retry)
        PROVE  TypeOK'
    BY <2>4 DEF AttemptFails, threads, portLists
  <2>5. CASE Timeout \/ Raised \/ Denied
    BY <2>4, <2>5 DEF Timeout, Raised, Denied, ErrorKind
  <2>6. CASE Backoff
    BY <2>6, NextAttempt DEF Backoff, threads, result
  <2>7. CASE Decide
    BY <2>7 DEF Decide, threads, portLists
  <2>8. CASE ConnectEnds
    BY <2>8 DEF ConnectEnds, threads, portLists
  <2>9. ASSUME NEW p \in Port, Probe(p) PROVE TypeOK'
    <3>1. open' \subseteq Port \X Writer /\ filtered' \subseteq Port \X Writer
      BY <2>9, ListingTypes DEF Probe, portLists, Writer
    <3>2. QED
      BY <2>9, <3>1 DEF Probe, threads
  <2>10. CASE ConnectRefused
    BY <2>10 DEF ConnectRefused, threads, portLists
  <2>11. QED
    BY <1>3, <2>1, <2>2, <2>3, <2>5, <2>6, <2>7, <2>8, <2>9, <2>10 DEF ScanStep
<1>4. QED
  BY <1>1, <1>2, <1>3 DEF Next

-----------------------------------------------------------------------------
(* The other parts of the invariant, action by action *)

Parts == AttemptsInOrder /\ Listings /\ OneEngine /\ BackendHonest /\ EmptyMeansLooked

LEMMA InitParts == Init => IInv
<1> SUFFICES ASSUME Init PROVE IInv
  OBVIOUS
<1> USE AttemptType DEF Init
<1>1. 1 \in Attempt
  BY RetriesAssumption DEF Attempt
<1>2. TypeOK
  BY <1>1 DEF TypeOK
<1>3. AttemptsInOrder
  BY <1>1 DEF AttemptsInOrder
<1>4. Listings /\ OneEngine /\ BackendHonest /\ EmptyMeansLooked
  BY DEF Listings, OneEngine, BackendHonest, EmptyMeansLooked, Listed
<1>5. QED
  BY <1>2, <1>3, <1>4 DEF IInv

\* A thread that runs or writes while scan() is not waiting for it has been
\* given up, and the result says so.
LEMMA LateThread ==
  ASSUME IInv, NoTimeout, NEW k \in Attempt, thread[k] \in {"running", "writing"}
  PROVE  k = attempt /\ scanPc = "await"
<1>1. k <= attempt /\ scanPc # "idle" /\ ~ (k < attempt)
  BY DEF IInv, AttemptsInOrder, NoTimeout
<1>2. k = attempt
  BY <1>1, AttemptType DEF IInv, TypeOK
<1>3. QED
  BY <1>1, <1>2 DEF IInv, AttemptsInOrder, NoTimeout

LEMMA ThreadKeepsParts ==
  ASSUME IInv, TypeOK', NEW k \in Attempt, ThreadStep(k)
  PROVE  Parts'
<1> USE AttemptType DEF IInv, TypeOK
<1>1. NoTimeout' => NoTimeout /\ k = attempt /\ scanPc = "await"
  <2>1. errors \subseteq errors'
    BY DEF ThreadStep, NmapRaises, NmapFindsNoHost, NmapAnswers, WriteEnds, WritePort,
           ThreadEnds, result
  <2>2. thread[k] \in {"running", "writing"}
    BY DEF ThreadStep, NmapRaises, NmapFindsNoHost, NmapAnswers, WriteEnds, WritePort,
           ThreadEnds
  <2>3. QED
    BY <2>1, <2>2, LateThread DEF NoTimeout
<1>2. scanPc' = scanPc /\ attempt' = attempt /\ pending' = pending /\ backend' = backend
  BY DEF ThreadStep, NmapRaises, NmapFindsNoHost, NmapAnswers, WriteEnds, WritePort,
         ThreadEnds, loop, result
<1>3. OneEngine' /\ BackendHonest'
  BY <1>1, <1>2 DEF OneEngine, BackendHonest
<1>4. Listed \subseteq Listed'
  BY DEF ThreadStep, NmapRaises, NmapFindsNoHost, NmapAnswers, WriteEnds, WritePort,
         ThreadEnds, result, portLists, ListPort, Listed
<1>5. EmptyMeansLooked'
  <2>1. CASE scanPc = "returned" /\ Listed = {} /\ errors = {}
    <3>1. FALSE
      BY <2>1, LateThread DEF NoTimeout, ThreadStep, NmapRaises, NmapFindsNoHost,
           NmapAnswers, WriteEnds, WritePort, ThreadEnds
    <3>2. QED
      BY <3>1
  <2>2. QED
    BY <1>2, <1>4, <2>1 DEF EmptyMeansLooked
<1>6. AttemptsInOrder'
  <2>1. CASE NmapRaises(k)
    BY <2>1 DEF AttemptsInOrder, NmapRaises, ThreadEnds, loop, portLists
  <2>2. CASE NmapFindsNoHost(k)
    BY <2>2 DEF AttemptsInOrder, NmapFindsNoHost, ThreadEnds, loop, portLists
  <2>3. CASE NmapAnswers(k)
    BY <2>3 DEF AttemptsInOrder, NmapAnswers, loop, result
  <2>4. CASE WriteEnds(k)
    BY <2>4 DEF AttemptsInOrder, WriteEnds, loop, result
  <2>5. ASSUME NEW p \in Port, WritePort(k, p) PROVE AttemptsInOrder'
    BY <2>5 DEF AttemptsInOrder, WritePort, loop
  <2>6. QED
    BY <2>1, <2>2, <2>3, <2>4, <2>5 DEF ThreadStep
<1>7. Listings'
  <2>1. CASE NmapRaises(k) \/ NmapFindsNoHost(k)
    BY <2>1 DEF Listings, Listed, NmapRaises, NmapFindsNoHost, ThreadEnds, loop, portLists
  <2>2. CASE NmapAnswers(k)
    BY <2>2 DEF Listings, Listed, NmapAnswers, loop, result
  <2>3. CASE WriteEnds(k)
    BY <2>3 DEF Listings, Listed, WriteEnds, loop, result
  <2>4. ASSUME NEW p \in Port, WritePort(k, p) PROVE Listings'
    <3>1. Listed' = Listed \union {<<p, k>>}
      BY <2>4, ListingTypes DEF WritePort
    <3>2. QED
      BY <2>4, <3>1 DEF Listings, WritePort, loop
  <2>5. QED
    BY <2>1, <2>2, <2>3, <2>4 DEF ThreadStep
<1>8. QED
  BY <1>3, <1>5, <1>6, <1>7 DEF Parts

\* Nothing is listed when no writer has listed a port.
LEMMA NobodyListed ==
  ASSUME TypeOK, \A p \in Port, w \in Writer : <<p, w>> \notin Listed
  PROVE  Listed = {}
<1>1. Listed \subseteq Port \X Writer
  BY DEF TypeOK, Listed
<1>2. ASSUME NEW e \in Listed PROVE FALSE
  BY <1>1
<1>3. QED
  BY <1>2

LEMMA NothingListedYet ==
  ASSUME IInv, scanPc = "idle"
  PROVE  Listed = {} /\ \A k \in Attempt : thread[k] = "none"
<1>1. \A k \in Attempt : thread[k] = "none"
  BY DEF IInv, AttemptsInOrder
<1>2. \A p \in Port, w \in Writer : <<p, w>> \notin Listed
  BY <1>1 DEF IInv, Listings, Writer
<1>3. QED
  BY <1>1, <1>2, NobodyListed DEF IInv

\* Without a timeout, whoever listed a port in a thread was the last attempt.
LEMMA ListedByLastAttempt ==
  ASSUME IInv, NoTimeout, NEW p \in Port, NEW k \in Attempt, <<p, k>> \in Listed
  PROVE  k = attempt
<1>1. thread[k] \in {"writing", "done"} /\ k <= attempt /\ ~ (k < attempt)
  BY DEF IInv, AttemptsInOrder, Listings, NoTimeout
<1>2. QED
  BY <1>1, AttemptType DEF IInv, TypeOK

LEMMA LoopKeepsParts ==
  ASSUME IInv, TypeOK', ScanStep
  PROVE  Parts'
<1> USE AttemptType DEF IInv, TypeOK
<1>1. CASE Start
  <2>1. AttemptsInOrder'
    BY <1>1, NothingListedYet DEF Start, threads, result, AttemptsInOrder
  <2>2. Listed' = {}
    BY <1>1, NothingListedYet DEF Start, result, Listed
  <2>3. Listings'
    BY <1>1, <2>2 DEF Start, Listings
  <2>6. EmptyMeansLooked'
    BY <1>1 DEF Start, EmptyMeansLooked
  <2>7. OneEngine'
    <3>1. NoTimeout' => NoTimeout
      BY <1>1 DEF Start, result, NoTimeout
    <3>2. QED
      BY <1>1, <2>2, <3>1 DEF Start, result, OneEngine
  <2>4. BackendHonest'
    BY <1>1 DEF Start, BackendHonest
  <2>5. QED
    BY <2>1, <2>3, <2>4, <2>6, <2>7 DEF Parts
<1>2. CASE Launch
  <2>1. Listed' = Listed /\ errors' = errors
    BY <1>2 DEF Launch, result, Listed
  <2>2. AttemptsInOrder'
    BY <1>2 DEF Launch, result, AttemptsInOrder
  <2>3. Listings'
    BY <1>2, <2>1 DEF Launch, result, Listings, AttemptsInOrder
  <2>4. OneEngine' /\ BackendHonest' /\ EmptyMeansLooked'
    BY <1>2 DEF Launch, OneEngine, BackendHonest, EmptyMeansLooked
  <2>5. QED
    BY <2>2, <2>3, <2>4 DEF Parts
<1>3. CASE Succeed
  <2>1. Listed' = Listed
    BY <1>3 DEF Succeed, portLists, Listed
  <2>2. AttemptsInOrder'
    BY <1>3 DEF Succeed, threads, AttemptsInOrder
  <2>3. Listings' /\ OneEngine' /\ BackendHonest' /\ EmptyMeansLooked'
    BY <1>3, <2>1 DEF Succeed, threads, Listings, OneEngine, BackendHonest, EmptyMeansLooked
  <2>4. QED
    BY <2>2, <2>3 DEF Parts
<1>4. CASE Timeout
  <2>1. Listed' = Listed /\ ~NoTimeout'
    BY <1>4 DEF Timeout, AttemptFails, portLists, Listed, NoTimeout
  <2>2. AttemptsInOrder'
    BY <1>4 DEF Timeout, AttemptFails, threads, AttemptsInOrder, ErrorKind
  <2>3. Listings'
    BY <1>4, <2>1 DEF Timeout, AttemptFails, threads, Listings
  <2>4. OneEngine' /\ BackendHonest' /\ EmptyMeansLooked'
    BY <1>4, <2>1 DEF Timeout, AttemptFails, OneEngine, BackendHonest, EmptyMeansLooked
  <2>5. QED
    BY <2>2, <2>3, <2>4 DEF Parts
<1>5. CASE Raised \/ Denied
  <2>1. Listed' = Listed /\ threads' = threads /\ thread[attempt] \in {"raised", "denied"}
        /\ attempt' = attempt /\ pending' = pending /\ scanPc = "await"
        /\ scanPc' \in {"backoff", "decide"}
    BY <1>5 DEF Raised, Denied, AttemptFails, portLists, Listed
  <2>2. AttemptsInOrder'
    BY <1>5 DEF Raised, Denied, AttemptFails, threads, AttemptsInOrder
  <2>3. Listings'
    BY <2>1 DEF threads, Listings
  <2>4. OneEngine' /\ BackendHonest' /\ EmptyMeansLooked'
    BY <2>1 DEF threads, OneEngine, BackendHonest, EmptyMeansLooked
  <2>5. QED
    BY <2>2, <2>3, <2>4 DEF Parts
<1>6. CASE Backoff
  <2>1. Listed' = Listed /\ threads' = threads /\ errors' = errors /\ pending' = pending
        /\ attempt' = attempt + 1 /\ scanPc = "backoff" /\ scanPc' = "launch"
    BY <1>6 DEF Backoff, result, Listed
  <2>2. AttemptsInOrder'
    <3>1. attempt + 1 \in Attempt /\ attempt \in Nat
      BY <2>1, NextAttempt DEF AttemptsInOrder
    <3>5. ~(attempt + 1 <= attempt)
      BY <3>1
    <3>2. thread[attempt + 1] = "none"
      BY <3>1, <3>5 DEF AttemptsInOrder
    <3>3. \A k \in Attempt : k < attempt + 1 => k < attempt \/ k = attempt
      BY <3>1
    <3>4. QED
      BY <2>1, <3>1, <3>2, <3>3 DEF threads, AttemptsInOrder
  <2>3. Listings'
    BY <2>1 DEF threads, Listings
  <2>4. OneEngine' /\ BackendHonest' /\ EmptyMeansLooked'
    BY <2>1 DEF OneEngine, BackendHonest, EmptyMeansLooked
  <2>5. QED
    BY <2>2, <2>3, <2>4 DEF Parts
<1>7. CASE Decide
  <2>1. Listed' = Listed /\ threads' = threads /\ errors' = errors /\ attempt' = attempt
        /\ scanPc = "decide" /\ (NothingUsable <=> Listed = {} /\ errors # {})
    BY <1>7 DEF Decide, portLists, Listed, NothingUsable
  <2>2. AttemptsInOrder'
    BY <1>7 DEF Decide, threads, AttemptsInOrder
  <2>3. Listings'
    BY <1>7, <2>1 DEF Decide, threads, Listings
  <2>4. CASE NothingUsable
    <3>1. scanPc' = "connect" /\ backend' = "fallback" /\ Listed' = {}
      BY <1>7, <2>1, <2>4 DEF Decide
    <3>2. OneEngine' /\ BackendHonest' /\ EmptyMeansLooked'
      BY <3>1 DEF OneEngine, BackendHonest, EmptyMeansLooked
    <3>3. QED
      BY <2>2, <2>3, <3>2 DEF Parts
  <2>5. CASE ~NothingUsable
    <3>1. scanPc' = "returned" /\ backend' = backend
      BY <1>7, <2>5 DEF Decide
    <3>2. OneEngine' /\ EmptyMeansLooked'
      BY <2>1, <2>5, <3>1 DEF OneEngine, EmptyMeansLooked
    <3>3. ASSUME NoTimeout, NEW p \in Port, NEW w \in Writer, <<p, w>> \in Listed
          PROVE  w # Connect /\ backend = "nmap"
      <4>1. w # Connect
        BY <2>1, <3>3 DEF Listings
      <4>2. w \in Attempt
        BY <4>1 DEF Writer
      <4>3. w = attempt /\ thread[w] \in {"writing", "done"}
        BY <3>3, <4>2, ListedByLastAttempt DEF Listings
      <4>4. thread[w] = "done"
        BY <2>1, <3>3, <4>2, <4>3, LateThread
      <4>5. QED
        BY <2>1, <3>3, <4>1, <4>3, <4>4 DEF OneEngine
    <3>4. NoTimeout' => NoTimeout
      BY <2>1 DEF NoTimeout
    <3>5. BackendHonest'
      BY <2>1, <3>1, <3>3, <3>4 DEF BackendHonest
    <3>6. QED
      BY <2>2, <2>3, <3>2, <3>5 DEF Parts
  <2>6. QED
    BY <2>4, <2>5
<1>8. CASE ConnectEnds
  <2>1. Listed' = Listed /\ threads' = threads /\ errors' = errors /\ attempt' = attempt
        /\ scanPc = "connect" /\ scanPc' = "returned" /\ backend' = "fallback"
        /\ pending = {} /\ pending' = {}
    BY <1>8 DEF ConnectEnds, portLists, Listed
  <2>2. AttemptsInOrder' /\ Listings'
    BY <2>1 DEF threads, AttemptsInOrder, Listings
  <2>3. OneEngine' /\ EmptyMeansLooked'
    BY <2>1 DEF OneEngine, EmptyMeansLooked
  <2>4. NoTimeout' => NoTimeout
    BY <2>1 DEF NoTimeout
  <2>5. BackendHonest'
    BY <2>1, <2>4 DEF OneEngine, BackendHonest, Writer
  <2>6. QED
    BY <2>2, <2>3, <2>5 DEF Parts
<1>9. ASSUME NEW p \in Port, Probe(p) PROVE Parts'
  <2>1. Listed' \in {Listed, Listed \union {<<p, Connect>>}}
    BY <1>9, ListingTypes DEF Probe, portLists, Listed, Writer
  <2>2. threads' = threads /\ errors' = errors /\ attempt' = attempt /\ backend' = backend
        /\ scanPc = "connect" /\ scanPc' = "connect" /\ pending' = pending \ {p}
    BY <1>9 DEF Probe
  <2>3. AttemptsInOrder'
    BY <2>2 DEF threads, AttemptsInOrder
  <2>4. Listings'
    BY <2>1, <2>2 DEF threads, Listings
  <2>5. NoTimeout' => NoTimeout
    BY <2>2 DEF NoTimeout
  <2>6. OneEngine'
    BY <2>1, <2>2, <2>5 DEF OneEngine
  <2>7. BackendHonest' /\ EmptyMeansLooked'
    BY <2>2 DEF BackendHonest, EmptyMeansLooked
  <2>8. QED
    BY <2>3, <2>4, <2>6, <2>7 DEF Parts
<1>10. CASE ConnectRefused
  <2>1. Listed' = Listed /\ threads' = threads /\ attempt' = attempt /\ backend' = backend
        /\ errors' = errors \union {<<"range", Connect>>} /\ pending' = {}
        /\ scanPc = "connect" /\ scanPc' = "returned"
    BY <1>10 DEF ConnectRefused, portLists, Listed
  <2>2. \A kind \in ErrorKind, k \in Attempt : <<kind, k>> \in errors' <=> <<kind, k>> \in errors
    BY <2>1
  <2>3. NoTimeout' <=> NoTimeout
    BY <2>2 DEF NoTimeout, ErrorKind
  <2>4. AttemptsInOrder' /\ Listings'
    BY <2>1, <2>2 DEF threads, AttemptsInOrder, Listings, ErrorKind
  <2>5. OneEngine'
    BY <2>1 DEF OneEngine
  <2>6. BackendHonest'
    BY <2>1, <2>3 DEF OneEngine, BackendHonest, Writer
  <2>7. EmptyMeansLooked'
    BY <2>1 DEF OneEngine, EmptyMeansLooked
  <2>8. QED
    BY <2>4, <2>5, <2>6, <2>7 DEF Parts
<1>11. QED
  BY <1>1, <1>2, <1>3, <1>4, <1>5, <1>6, <1>7, <1>8, <1>9, <1>10 DEF ScanStep

-----------------------------------------------------------------------------
(* The theorems *)

LEMMA StepKeepsInvariant == IInv /\ [Next]_vars => IInv'
<1> SUFFICES ASSUME IInv, [Next]_vars PROVE IInv'
  OBVIOUS
<1>1. TypeOK'
  BY TypeStep DEF IInv, AttemptsInOrder
<1>2. CASE UNCHANGED vars
  <2>1. AttemptsInOrder' /\ Listings'
    BY <1>2 DEF IInv, vars, loop, threads, result, AttemptsInOrder, Listings, Listed
  <2>2. OneEngine' /\ BackendHonest' /\ EmptyMeansLooked'
    BY <1>2 DEF IInv, vars, loop, threads, result, OneEngine, BackendHonest,
                EmptyMeansLooked, NoTimeout, Listed
  <2>3. QED
    BY <1>1, <2>1, <2>2 DEF IInv
<1>3. CASE Next
  BY <1>1, <1>3, ThreadKeepsParts, LoopKeepsParts DEF Next, Parts, IInv
<1>4. QED
  BY <1>2, <1>3

\* Loop, threads and result of a port scan agree in every reachable state.
THEOREM ScannerInvariance == Spec => []IInv
BY InitParts, StepKeepsInvariant, PTL DEF Spec

LEMMA InvariantImpliesListedOnce == IInv => ListedOnce
<1> SUFFICES ASSUME IInv, NoTimeout, NEW p \in Port, NEW v \in Writer, NEW w \in Writer,
                    <<p, v>> \in Listed, <<p, w>> \in Listed
             PROVE  v = w
  BY DEF ListedOnce
<1>1. CASE v \in Attempt /\ w \in Attempt
  BY <1>1, ListedByLastAttempt
<1>2. CASE v = Connect \/ w = Connect
  <2>1. scanPc \in {"connect", "returned"}
    BY <1>2 DEF IInv, Listings
  <2>2. CASE scanPc = "connect"
    BY <2>2 DEF IInv, OneEngine, Writer
  <2>3. CASE scanPc = "returned"
    BY <1>2, <2>3 DEF IInv, BackendHonest
  <2>4. QED
    BY <2>1, <2>2, <2>3
<1>3. QED
  BY <1>1, <1>2 DEF Writer

\* No port is listed twice unless an attempt timed out.
THEOREM PortsAreListedOnce == Spec => []ListedOnce
BY ScannerInvariance, InvariantImpliesListedOnce, PTL

\* result.backend names the engine the returned data is from.
THEOREM BackendIsHonest == Spec => []BackendHonest
<1>1. IInv => BackendHonest
  BY DEF IInv
<1>2. QED
  BY <1>1, ScannerInvariance, PTL

\* An empty result is never the failure of nmap alone.
THEOREM EmptyResultsWereLookedFor == Spec => []EmptyMeansLooked
<1>1. IInv => EmptyMeansLooked
  BY DEF IInv
<1>2. QED
  BY <1>1, ScannerInvariance, PTL

LEMMA ReturnedStays ==
  IInv /\ [Next]_vars => (scanPc = "returned" /\ NoTimeout => UNCHANGED result)
<1> SUFFICES ASSUME IInv, [Next]_vars, scanPc = "returned", NoTimeout
             PROVE  UNCHANGED result
  OBVIOUS
<1>1. ASSUME NEW k \in Attempt, ThreadStep(k) PROVE FALSE
  BY <1>1, LateThread DEF ThreadStep, NmapRaises, NmapFindsNoHost, NmapAnswers,
                          WriteEnds, WritePort, ThreadEnds
<1>2. CASE ScanStep
  BY <1>2 DEF ScanStep, Start, Launch, Succeed, Timeout, Raised, Denied, AttemptFails,
              Backoff, Decide, ConnectRefused, ConnectEnds, Probe
<1>3. QED
  BY <1>1, <1>2 DEF Next, vars, result

\* What scan() has returned does not change unless an attempt timed out.
THEOREM ResultsAreFinal == Spec => ResultIsFinal
BY ScannerInvariance, ReturnedStays, PTL DEF Spec, ResultIsFinal

-----------------------------------------------------------------------------
(* scan() has no loop that goes on for ever *)

LEMMA PendingCounts ==
  ASSUME TypeOK
  PROVE  /\ Probes \in Nat /\ Cardinality(pending) \in Nat
         /\ Cardinality(pending) <= Probes
         /\ \A p \in pending : Cardinality(pending \ {p}) = Cardinality(pending) - 1
<1>1. IsFiniteSet(Port) /\ pending \in SUBSET Port
  BY PortAssumption DEF TypeOK
<1>2. IsFiniteSet(pending) /\ Cardinality(pending) <= Cardinality(Port)
  BY <1>1, FS_Subset
<1>3. Cardinality(Port) \in Nat /\ Cardinality(pending) \in Nat
  BY <1>1, <1>2, FS_CardinalityType
<1>4. \A p \in pending : Cardinality(pending \ {p}) = Cardinality(pending) - 1
  BY <1>2, FS_RemoveElement
<1>5. QED
  BY <1>2, <1>3, <1>4 DEF Probes

\* What is left is a number: attempts are never past the last one.
LEMMA StepsLeftType == TypeOK => ScanStepsLeft \in Nat
<1> SUFFICES ASSUME TypeOK PROVE ScanStepsLeft \in Nat
  OBVIOUS
<1>1. MaxRetries + 1 - attempt \in Nat
  BY RetriesAssumption DEF TypeOK, Attempt
<1>2. scanPc \in {"idle", "launch", "await", "backoff", "decide", "connect", "returned"}
  BY DEF TypeOK
<1>3. Probes \in Nat /\ Cardinality(pending) \in Nat
  BY PendingCounts
<1>4. QED
  BY <1>1, <1>2, <1>3 DEF ScanStepsLeft

LEMMA ScanStepCounts ==
  ASSUME IInv, TypeOK', ScanStep
  PROVE  ScanStepsLeft' < ScanStepsLeft
<1> USE RetriesAssumption DEF ScanStepsLeft
<1>1. TypeOK /\ attempt \in Nat /\ attempt <= MaxRetries + 1
  BY DEF IInv, TypeOK, Attempt
<1>2. Probes \in Nat /\ Cardinality(pending) \in Nat /\ Cardinality(pending) <= Probes
  BY <1>1, PendingCounts
<1>3. CASE Start
  BY <1>1, <1>2, <1>3 DEF Start, Probes
<1>4. CASE Launch
  BY <1>1, <1>2, <1>4 DEF Launch
<1>5. CASE Succeed
  BY <1>1, <1>2, <1>5 DEF Succeed
<1>6. CASE Timeout \/ Raised \/ Denied
  BY <1>1, <1>2, <1>6 DEF Timeout, Raised, Denied, AttemptFails
<1>7. CASE Backoff
  BY <1>1, <1>2, <1>7 DEF Backoff
<1>8. CASE Decide
  BY <1>1, <1>2, <1>8 DEF Decide, Probes
<1>9. CASE ConnectRefused \/ ConnectEnds
  BY <1>1, <1>2, <1>9 DEF ConnectRefused, ConnectEnds
<1>10. ASSUME NEW p \in Port, Probe(p) PROVE ScanStepsLeft' < ScanStepsLeft
  <2>1. Cardinality(pending') = Cardinality(pending) - 1
    BY <1>1, <1>10, PendingCounts DEF Probe
  <2>2. QED
    BY <1>2, <1>10, <2>1 DEF Probe
<1>11. QED
  BY <1>3, <1>4, <1>5, <1>6, <1>7, <1>8, <1>9, <1>10 DEF ScanStep

\* The threads of nmap leave the loop where it is.
LEMMA ThreadsLeaveLoop ==
  ASSUME NEW k \in Attempt, ThreadStep(k)
  PROVE  UNCHANGED loop
BY DEF ThreadStep, NmapRaises, NmapFindsNoHost, NmapAnswers, WriteEnds, WritePort,
       ThreadEnds

\* However often nmap fails and whatever its threads do meanwhile, each step of
\* scan() brings it nearer to its end.
THEOREM PortScansGetOn == Spec => [][ScanStepsLeft' < ScanStepsLeft \/ UNCHANGED loop]_vars
<1>1. ASSUME IInv, IInv', [Next]_vars
      PROVE  [ScanStepsLeft' < ScanStepsLeft \/ UNCHANGED loop]_vars
  BY <1>1, ScanStepCounts, ThreadsLeaveLoop DEF Next, IInv
<1>2. QED
  BY <1>1, ScannerInvariance, PTL DEF Spec
=============================================================================
