------------------------- MODULE ScanPipeline_proofs -------------------------
(***************************************************************************)
(* Theorems about ScanPipeline, for any ports, detectors and configurations *)
(* and any number of nmap retries.                                          *)
(***************************************************************************)
EXTENDS ScanPipeline, PortScanner_proofs

Entry == Port \X Writer

\* A detector's own finding is about no port.
LEMMA FindingKinds ==
  ASSUME NEW e \in Entry, NEW f \in Entry, NEW d,
         NEW kind \in {"dangerous", "service"}, NEW other \in {"dangerous", "service"}
  PROVE  /\ [kind |-> kind, entry |-> e] # [kind |-> d]
         /\ [kind |-> kind, entry |-> e] = [kind |-> other, entry |-> f] =>
              kind = other /\ e = f
<1>1. DOMAIN [kind |-> kind, entry |-> e] # DOMAIN [kind |-> d]
  OBVIOUS
<1>2. ASSUME [kind |-> kind, entry |-> e] = [kind |-> other, entry |-> f]
      PROVE  kind = other /\ e = f
  <2>1. [kind |-> kind, entry |-> e].kind = [kind |-> other, entry |-> f].kind
    BY <1>2, Zenon
  <2>2. [kind |-> kind, entry |-> e].entry = [kind |-> other, entry |-> f].entry
    BY <1>2, Zenon
  <2>3. QED
    BY <2>1, <2>2
<1>3. QED
  BY <1>1, <1>2

\* The findings about a set of entries, by kind and entry.
LEMMA PortFindingsMembers ==
  ASSUME NEW kind \in {"dangerous", "service"}, NEW S \in SUBSET Entry
  PROVE  /\ PortFindings(kind, S) \subseteq Finding
         /\ \A e \in Entry : \A k \in {"dangerous", "service"} :
              [kind |-> k, entry |-> e] \in PortFindings(kind, S) <=> k = kind /\ e \in S
<1>1. PortFindings(kind, S) \subseteq Finding
  BY DEF PortFindings, Finding, Entry
<1>2. ASSUME NEW e \in Entry, NEW k \in {"dangerous", "service"}
      PROVE  [kind |-> k, entry |-> e] \in PortFindings(kind, S) <=> k = kind /\ e \in S
  BY FindingKinds DEF PortFindings
<1>3. QED
  BY <1>1, <1>2

\* The pipeline uses the scanner as it is: its steps are the scanner's, or none.
LEMMA PipelineStepsAreScannerSteps == [PNext]_pvars => [Next]_vars
BY DEF PNext, pvars, PipelineStep, Resolve, LookupEnds, Recon, ScanRefused, TakePorts, CheckDangerous,
       ReportServices, BuildReport, Persist, DetectorEnds, ScannerStep, Next, vars

\* A port scan inside a pipeline is a port scan.
THEOREM PipelineImplementsScanner == PSpec => Spec
<1>1. PInit => Init
  BY DEF PInit
<1>2. QED
  BY <1>1, PipelineStepsAreScannerSteps, PTL DEF PSpec, Spec

-----------------------------------------------------------------------------
(* The invariant *)

LEMMA PipelineInit == PInit => PInv
<1> SUFFICES ASSUME PInit PROVE PInv
  OBVIOUS
<1>1. IInv /\ TypeOK
  BY InitParts DEF PInit, IInv
<1>2. PTypeOK
  BY <1>1 DEF PInit, PTypeOK
<1>3. Follows /\ FindingsAreInReport
  BY DEF PInit, Init, Follows, FindingsAreInReport, Reported, Checked, Serviced
<1>4. QED
  BY <1>1, <1>2, <1>3 DEF PInv

\* A step of the scanner that leaves the pipeline alone: the result grows, and
\* without a timeout it only does so while scan() has not returned.
LEMMA ScannerKeepsFollows ==
  ASSUME PInv, TypeOK', UNCHANGED pipeline,
         (phase = "scan" /\ ScanStep) \/ \E k \in Attempt : ThreadStep(k)
  PROVE  Follows' /\ FindingsAreInReport'
<1>1. open \subseteq open' /\ errors \subseteq errors'
  BY DEF ScanStep, Start, Launch, Succeed, Timeout, Raised, Denied, AttemptFails, Backoff,
         Decide, ConnectRefused, ConnectEnds, Probe, ThreadStep, NmapRaises, NmapFindsNoHost, NmapAnswers,
         WriteEnds, WritePort, ThreadEnds, ListPort, result, portLists
<1>2. phase # "scan" => scanPc' = scanPc
  BY DEF ThreadStep, NmapRaises, NmapFindsNoHost, NmapAnswers, WriteEnds, WritePort,
         ThreadEnds, loop
<1>3. phase \notin {"recon", "scan"} /\ NoTimeout' => FALSE
  <2> SUFFICES ASSUME phase \notin {"recon", "scan"}, NoTimeout' PROVE FALSE
    OBVIOUS
  <2>1. PICK k \in Attempt : ThreadStep(k)
    OBVIOUS
  <2>2. thread[k] \in {"running", "writing"}
    BY <2>1 DEF ThreadStep, NmapRaises, NmapFindsNoHost, NmapAnswers, WriteEnds,
                WritePort, ThreadEnds
  <2>3. NoTimeout
    BY <1>1 DEF NoTimeout
  <2>4. scanPc = "await"
    BY <2>2, <2>3, LateThread DEF PInv
  <2>5. QED
    BY <2>4 DEF PInv, Follows
<1>4. Follows'
  BY <1>1, <1>2, <1>3 DEF PInv, PTypeOK, Follows, pipeline, Reported, Checked, Serviced
<1>5. FindingsAreInReport'
  BY DEF PInv, FindingsAreInReport, pipeline, Reported
<1>6. QED
  BY <1>4, <1>5

\* The scanner's part of a step of the pipeline proper.
LEMMA PipelineLeavesScanner ==
  ASSUME PInv, PipelineStep
  PROVE  /\ UNCHANGED <<vars, mode>> /\ IInv'
         /\ Listed' = Listed /\ (NoTimeout' <=> NoTimeout)
<1>1. UNCHANGED <<vars, mode>>
  BY DEF PipelineStep, Resolve, LookupEnds, Recon, ScanRefused, TakePorts, CheckDangerous, ReportServices,
         BuildReport, Persist, DetectorEnds
<1>2. UNCHANGED <<errors, open, filtered>>
  BY <1>1 DEF vars, result
<1>3. Listed' = Listed /\ (NoTimeout' <=> NoTimeout)
  BY <1>2 DEF Listed, NoTimeout
<1>4. IInv'
  BY <1>1, StepKeepsInvariant DEF PInv
<1>5. QED
  BY <1>1, <1>3, <1>4

\* An unused scanner has listed no open port.
LEMMA NoOpenPortYet == ASSUME IInv, scanPc = "idle" PROVE open = {}
BY NothingListedYet DEF Listed

LEMMA PipelineTypeStep ==
  ASSUME PInv, PipelineStep
  PROVE  PTypeOK'
<1>1. TypeOK' /\ mode' \in Mode /\ open' = open
  BY PipelineLeavesScanner DEF PInv, IInv, PTypeOK, vars, result
<1>2. open \subseteq Entry /\ openPorts \subseteq Entry
  BY DEF PInv, PTypeOK, TypeOK, Entry
<1>3. CASE Resolve \/ (\E l \in Lookup : LookupEnds(l)) \/ Recon \/ ScanRefused \/ TakePorts \/ BuildReport \/ Persist
  BY <1>1, <1>2, <1>3 DEF PInv, PTypeOK, Entry, Resolve, LookupEnds, Recon, ScanRefused, TakePorts, BuildReport, Persist
<1>4. CASE CheckDangerous
  <2>1. PortFindings("dangerous", {e \in openPorts : e[1] \in Dangerous}) \subseteq Finding
    BY <1>2, PortFindingsMembers
  <2>2. QED
    BY <1>1, <1>4, <2>1 DEF PInv, PTypeOK, CheckDangerous
<1>5. CASE ReportServices
  <2>1. PortFindings("service", {e \in open : e[1] \notin Dangerous}) \subseteq Finding
    BY <1>2, PortFindingsMembers
  <2>2. Launched \subseteq Detector
    BY DEF Launched, Detector
  <2>3. QED
    BY <1>1, <1>5, <2>1, <2>2 DEF PInv, PTypeOK, ReportServices
<1>6. ASSUME NEW d \in Detector, DetectorEnds(d) PROVE PTypeOK'
  <2>1. [kind |-> d] \in Finding
    BY DEF Finding
  <2>2. QED
    BY <1>1, <1>6, <2>1 DEF PInv, PTypeOK, DetectorEnds
<1>7. QED
  BY <1>3, <1>4, <1>5, <1>6 DEF PipelineStep

LEMMA PipelineKeepsFollows ==
  ASSUME PInv, PipelineStep
  PROVE  Follows' /\ FindingsAreInReport'
<1>1. /\ UNCHANGED <<scanPc, open>> /\ (NoTimeout' <=> NoTimeout)
      /\ (scanPc = "idle" => open = {})
      /\ open \subseteq Entry /\ openPorts \subseteq Entry
  BY PipelineLeavesScanner, NoOpenPortYet
     DEF vars, loop, result, PInv, PTypeOK, TypeOK, Entry
<1> USE DEF Reported, Checked, Serviced
<1>2. CASE Resolve \/ (\E l \in Lookup : LookupEnds(l)) \/ Recon \/ ScanRefused \/ TakePorts
  <2>1. Follows'
    BY <1>1, <1>2 DEF PInv, PTypeOK, Follows, Resolve, LookupEnds, Recon, ScanRefused, TakePorts
  <2>2. FindingsAreInReport'
    BY <1>2 DEF FindingsAreInReport, Resolve, LookupEnds, Recon, ScanRefused, TakePorts
  <2>3. QED
    BY <2>1, <2>2
<1>3. CASE CheckDangerous
  <2>1. \A e \in Entry : \A k \in {"dangerous", "service"} :
          [kind |-> k, entry |-> e] \in findings' <=>
            \/ [kind |-> k, entry |-> e] \in findings
            \/ k = "dangerous" /\ e \in openPorts /\ e[1] \in Dangerous
    BY <1>1, <1>3, PortFindingsMembers DEF CheckDangerous
  <2>2. Follows'
    BY <1>1, <1>3, <2>1 DEF PInv, Follows, CheckDangerous, Entry
  <2>3. QED
    BY <1>3, <2>2 DEF FindingsAreInReport, CheckDangerous
<1>4. CASE ReportServices
  <2>1. \A e \in Entry : \A k \in {"dangerous", "service"} :
          [kind |-> k, entry |-> e] \in findings' <=>
            \/ [kind |-> k, entry |-> e] \in findings
            \/ k = "service" /\ e \in open /\ e[1] \notin Dangerous
    BY <1>1, <1>4, PortFindingsMembers DEF ReportServices
  <2>2. Follows'
    BY <1>1, <1>4, <2>1 DEF PInv, Follows, ReportServices, Entry
  <2>3. QED
    BY <1>4, <2>2 DEF FindingsAreInReport, ReportServices
<1>5. ASSUME NEW d \in Detector, DetectorEnds(d) PROVE Follows' /\ FindingsAreInReport'
  <2>1. \A e \in Entry : \A k \in {"dangerous", "service"} :
          [kind |-> k, entry |-> e] \in findings' <=> [kind |-> k, entry |-> e] \in findings
    BY <1>5, FindingKinds DEF DetectorEnds
  <2>2. Follows'
    BY <1>1, <1>5, <2>1 DEF PInv, Follows, DetectorEnds, Entry
  <2>3. QED
    BY <1>5, <2>2 DEF FindingsAreInReport, DetectorEnds
<1>6. CASE BuildReport
  <2>1. Follows'
    BY <1>1, <1>6 DEF PInv, Follows, BuildReport
  <2>2. FindingsAreInReport'
    BY <1>1, <1>6 DEF PInv, Follows, FindingsAreInReport, BuildReport
  <2>3. QED
    BY <2>1, <2>2
<1>7. CASE Persist
  <2>1. Follows'
    BY <1>1, <1>7 DEF PInv, Follows, Persist
  <2>2. FindingsAreInReport'
    BY <1>7 DEF PInv, FindingsAreInReport, Persist
  <2>3. QED
    BY <2>1, <2>2
<1>8. QED
  BY <1>2, <1>3, <1>4, <1>5, <1>6, <1>7 DEF PipelineStep

LEMMA PipelineStepKeepsInvariant == PInv /\ [PNext]_pvars => PInv'
<1> SUFFICES ASSUME PInv, [PNext]_pvars PROVE PInv'
  OBVIOUS
<1>1. IInv' /\ TypeOK'
  BY StepKeepsInvariant, PipelineStepsAreScannerSteps DEF PInv, IInv
<1>2. CASE UNCHANGED pvars
  BY <1>1, <1>2 DEF PInv, PTypeOK, Follows, FindingsAreInReport, pvars, vars, loop, result,
                    pipeline, Reported, Checked, Serviced, NoTimeout
<1>3. CASE PipelineStep
  BY <1>1, <1>3, PipelineTypeStep, PipelineKeepsFollows DEF PInv
<1>4. CASE ScannerStep \/ ((\E k \in Attempt : ThreadStep(k)) /\ UNCHANGED pipeline)
  <2>1. Follows' /\ FindingsAreInReport'
    BY <1>1, <1>4, ScannerKeepsFollows DEF ScannerStep
  <2>2. PTypeOK'
    BY <1>1, <1>4 DEF PInv, PTypeOK, ScannerStep, pipeline
  <2>3. QED
    BY <1>1, <2>1, <2>2 DEF PInv
<1>5. QED
  BY <1>2, <1>3, <1>4 DEF PNext

-----------------------------------------------------------------------------
(* The theorems *)

\* Findings, list of open ports and report follow the scan result as it grows.
THEOREM PipelineInvariance == PSpec => []PInv
BY PipelineInit, PipelineStepKeepsInvariant, PTL DEF PSpec

\* Every reachable state of a pipeline is well typed.
THEOREM PipelineTypes == PSpec => []PTypeOK
<1>1. PInv => PTypeOK
  BY DEF PInv
<1>2. QED
  BY <1>1, PipelineInvariance, PTL

\* Every port a finding speaks of is in the stored port scan, whatever a thread
\* left behind appends and whenever it does.
THEOREM FindingsFollowReport == PSpec => []FindingsAreInReport
<1>1. PInv => FindingsAreInReport
  BY DEF PInv
<1>2. QED
  BY <1>1, PipelineInvariance, PTL

LEMMA InvariantImpliesReportedOnce == PInv => PortsReportedOnce
BY DEF PInv, PTypeOK, TypeOK, Follows, PortsReportedOnce, Reported, Checked, Serviced

\* Without a timeout, every open port of the report has exactly one finding.
THEOREM PortsAreReportedOnce == PSpec => []PortsReportedOnce
BY PipelineInvariance, InvariantImpliesReportedOnce, PTL

-----------------------------------------------------------------------------
(* The pipeline has no loop that goes on for ever *)

LEMMA RemovalCounts ==
  ASSUME NEW S, IsFiniteSet(S), NEW T \in SUBSET S
  PROVE  /\ Cardinality(T) \in Nat /\ Cardinality(T) <= Cardinality(S)
         /\ \A x \in T : Cardinality(T \ {x}) = Cardinality(T) - 1
<1>1. IsFiniteSet(T) /\ Cardinality(T) <= Cardinality(S)
  BY FS_Subset
<1>2. Cardinality(T) \in Nat /\ \A x \in T : Cardinality(T \ {x}) = Cardinality(T) - 1
  BY <1>1, FS_CardinalityType, FS_RemoveElement
<1>3. QED
  BY <1>1, <1>2

LEMMA LookupCounts == IsFiniteSet(Lookup) /\ Cardinality(Lookup) \in Nat
<1>1. IsFiniteSet({} \union {"reverseDns"} \union {"whois"} \union {"banners"} \union {"tls"})
  BY FS_EmptySet, FS_AddElement
<1>2. IsFiniteSet(Lookup)
  BY <1>1, Zenon DEF Lookup
<1>3. QED
  BY <1>2, FS_CardinalityType

LEMMA DetectorCounts == IsFiniteSet(Detector) /\ Cardinality(Detector) \in Nat
<1>1. IsFiniteSet(HttpDetector \union {"SSH"} \union {"SSL"})
  BY DetectorAssumption, FS_AddElement
<1>2. Detector = HttpDetector \union {"SSH"} \union {"SSL"}
  BY DEF Detector
<1>3. QED
  BY <1>1, <1>2, FS_CardinalityType

\* One of the sets loses an element when a lookup or a detector ends.
LEMMA PipelineCounts ==
  ASSUME PTypeOK
  PROVE  /\ Cardinality(looking) \in Nat
         /\ \A l \in looking : Cardinality(looking \ {l}) = Cardinality(looking) - 1
         /\ looking \subseteq Lookup => Cardinality(looking) <= Cardinality(Lookup)
         /\ Cardinality(running) \in Nat /\ Cardinality(running) <= Cardinality(Detector)
         /\ \A d \in running : Cardinality(running \ {d}) = Cardinality(running) - 1
<1>1. IsFiniteSet(Lookup \union {"address"})
  BY LookupCounts, FS_AddElement
<1>2. looking \in SUBSET (Lookup \union {"address"}) /\ running \in SUBSET Detector
  BY DEF PTypeOK
<1>3. /\ Cardinality(looking) \in Nat
      /\ \A l \in looking : Cardinality(looking \ {l}) = Cardinality(looking) - 1
  BY <1>1, <1>2, RemovalCounts
<1>4. looking \subseteq Lookup => Cardinality(looking) <= Cardinality(Lookup)
  BY LookupCounts, RemovalCounts
<1>5. QED
  BY <1>2, <1>3, <1>4, DetectorCounts, RemovalCounts

\* Nothing is looked up of a host without an address; with one, what is left
\* is less than the address and all lookups.
LEMMA ResolvedCounts ==
  ASSUME PTypeOK, PTypeOK', Resolve
  PROVE  /\ "address" \notin looking'
         /\ Cardinality(looking') \in Nat /\ Cardinality(looking') <= Cardinality(Lookup)
         /\ Cardinality(looking) >= 1
<1>1. looking' \in SUBSET Lookup /\ "address" \notin Lookup
  BY DEF Resolve, Lookup
<1>2. Cardinality(looking') \in Nat /\ Cardinality(looking') <= Cardinality(Lookup)
  BY <1>1, LookupCounts, RemovalCounts
<1>3. Cardinality(looking) >= 1
  <2>1. Cardinality(looking) \in Nat /\ Cardinality(looking \ {"address"}) = Cardinality(looking) - 1
    BY PipelineCounts DEF Resolve
  <2>2. IsFiniteSet(Lookup \union {"address"}) /\ looking \ {"address"} \in SUBSET (Lookup \union {"address"})
    BY LookupCounts, FS_AddElement DEF PTypeOK
  <2>3. Cardinality(looking \ {"address"}) \in Nat
    BY <2>2, RemovalCounts
  <2>4. QED
    BY <2>1, <2>3
<1>4. QED
  BY <1>1, <1>2, <1>3

LEMMA PipelineStepCounts ==
  ASSUME PInv, PTypeOK', PipelineStep
  PROVE  StepsLeft' < StepsLeft
<1>1. PTypeOK /\ TypeOK /\ ScanStepsLeft \in Nat
  BY StepsLeftType DEF PInv, PTypeOK
<1>2. ScanStepsLeft' = ScanStepsLeft
  BY PipelineLeavesScanner DEF vars, loop, ScanStepsLeft
<1>3. /\ Cardinality(looking) \in Nat /\ Cardinality(running) \in Nat
      /\ Cardinality(Lookup) \in Nat /\ Cardinality(Detector) \in Nat
  BY <1>1, PipelineCounts, LookupCounts, DetectorCounts
<1> USE DEF StepsLeft
<1>4. CASE Resolve
  <2>1. looking' \in SUBSET Lookup /\ Cardinality(looking') <= Cardinality(Lookup)
    BY <1>1, <1>4, ResolvedCounts DEF Resolve
  <2>2. QED
    BY <1>1, <1>2, <1>3, <1>4, <2>1, ResolvedCounts DEF Resolve
<1>5. ASSUME NEW l \in Lookup, LookupEnds(l) PROVE StepsLeft' < StepsLeft
  <2>1. Cardinality(looking') = Cardinality(looking) - 1
    BY <1>1, <1>5, PipelineCounts DEF LookupEnds
  <2>2. "address" \in looking' <=> "address" \in looking
    BY <1>5 DEF LookupEnds, Lookup
  <2>3. QED
    BY <1>1, <1>2, <1>3, <1>5, <2>1, <2>2 DEF LookupEnds
<1>6. CASE Recon
  BY <1>1, <1>2, <1>3, <1>6 DEF Recon
<1>7. CASE ScanRefused \/ TakePorts
  BY <1>1, <1>2, <1>3, <1>7 DEF ScanRefused, TakePorts
<1>8. CASE CheckDangerous
  BY <1>3, <1>8 DEF CheckDangerous
<1>9. CASE ReportServices
  <2>1. Cardinality(running') \in Nat /\ Cardinality(running') <= Cardinality(Detector)
    BY DetectorCounts, RemovalCounts DEF PTypeOK
  <2>2. QED
    BY <1>3, <1>9, <2>1 DEF ReportServices
<1>10. CASE BuildReport \/ Persist
  BY <1>3, <1>10 DEF BuildReport, Persist
<1>11. ASSUME NEW d \in Detector, DetectorEnds(d) PROVE StepsLeft' < StepsLeft
  <2>1. Cardinality(running') = Cardinality(running) - 1
    BY <1>1, <1>11, PipelineCounts DEF DetectorEnds
  <2>2. QED
    BY <1>3, <1>11, <2>1 DEF DetectorEnds
<1>12. QED
  BY <1>4, <1>5, <1>6, <1>7, <1>8, <1>9, <1>10, <1>11 DEF PipelineStep

LEMMA StepsLeftNextType == TypeOK' => (ScanStepsLeft \in Nat)'
BY StepsLeftType, PTL

LEMMA ScannerStepCounts ==
  ASSUME PInv, TypeOK', ScannerStep
  PROVE  StepsLeft' < StepsLeft
<1>1. IInv /\ TypeOK
  BY DEF PInv, PTypeOK
<1>2. ScanStepsLeft' < ScanStepsLeft
  BY <1>1, ScanStepCounts DEF ScannerStep
<1>3. ScanStepsLeft \in Nat /\ ScanStepsLeft' \in Nat
  BY <1>1, StepsLeftType, StepsLeftNextType
<1>4. phase = "scan" /\ phase' = "scan"
  BY DEF ScannerStep, pipeline
<1>5. QED
  BY <1>2, <1>3, <1>4, DetectorCounts DEF StepsLeft

\* Every step of the pipeline brings it nearer to its end, whatever fails in it
\* and whatever the threads of nmap do.
THEOREM PipelinesGetOn == PSpec => GetsOn
<1>1. ASSUME PInv, PInv', [PNext]_pvars
      PROVE  [StepsLeft' < StepsLeft \/ UNCHANGED <<loop, pipeline>>]_pvars
  <2>1. PTypeOK' /\ TypeOK'
    BY <1>1 DEF PInv, PTypeOK
  <2>2. CASE PipelineStep
    BY <1>1, <2>1, <2>2, PipelineStepCounts
  <2>3. CASE ScannerStep
    BY <1>1, <2>1, <2>3, ScannerStepCounts
  <2>4. CASE (\E k \in Attempt : ThreadStep(k)) /\ UNCHANGED pipeline
    BY <2>4, ThreadsLeaveLoop
  <2>5. QED
    BY <1>1, <2>2, <2>3, <2>4 DEF PNext
<1>2. QED
  BY <1>1, PipelineInvariance, PTL DEF PSpec, GetsOn
=============================================================================
