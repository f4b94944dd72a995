---------------------------- MODULE ScanPipeline ----------------------------
(***************************************************************************)
(* What _orchestrate_scan does between the two transactions ScanLifecycle   *)
(* models: recon, one PortScanner.scan, the checks that follow from the     *)
(* ports it found, the detectors it runs at once, and the report it hands   *)
(* to _persist_results.                                                     *)
(*                                                                          *)
(* The PortScanResult is read three times, with other work and awaits in    *)
(* between, while a thread that an nmap timeout has left behind may still   *)
(* be appending to it.                                                      *)
(***************************************************************************)
EXTENDS PortScanner

CONSTANTS
  Mode,        \* configurations: a safe scan or not, a URL or a host as target
  Dangerous,   \* ports of _DANGEROUS_PORTS
  SshPort,     \* 22
  TlsPort,     \* 443
  HttpPort,    \* _HTTP_PORTS
  HttpDetector \* Headers, SQLi, XSS, DirTraversal, HTTPMethods

ASSUME DetectorAssumption == IsFiniteSet(HttpDetector)
ASSUME ModeAssumption == Mode \subseteq [safe : BOOLEAN, url : {"none", "http", "https"}]

VARIABLES
  mode,        \* the configuration of the scan
  phase,       \* where the pipeline stands
  looking,     \* lookups of the recon phase that have not ended
  openPorts,   \* the list taken from the result when scan() returned
  running,     \* detectors that have not ended
  findings,    \* all_findings
  report       \* scan_data: the ports in it

pipeline == <<mode, phase, looking, openPorts, running, findings, report>>
pvars    == <<vars, pipeline>>

\* What ReconScanner looks up of an address, at once.
Lookup   == {"reverseDns", "whois", "banners", "tls"}
Detector == HttpDetector \union {"SSH", "SSL"}

\* What a finding is about: an entry of the open ports, or a detector's own.
Finding == [kind : {"dangerous", "service"}, entry : Port \X Writer]
             \union [kind : Detector]

PTypeOK ==
  /\ TypeOK
  /\ mode \in Mode
  /\ phase \in {"recon", "scan", "dangerous", "services", "gather", "report", "done"}
  /\ looking \subseteq Lookup \union {"address"}
  /\ openPorts \subseteq Port \X Writer
  /\ running \subseteq Detector
  /\ findings \subseteq Finding
  /\ report \subseteq Port \X Writer

PInit ==
  /\ Init
  /\ mode \in Mode
  /\ phase = "recon" /\ looking = {"address"}
  /\ openPorts = {} /\ running = {} /\ findings = {} /\ report = {}

-----------------------------------------------------------------------------
\* The address of the host comes first: without it, or if the lookup raises,
\* there is nothing else to look up.
Resolve ==
  /\ phase = "recon"
  /\ "address" \in looking
  /\ looking' \in {{}, Lookup}
  /\ UNCHANGED <<vars, mode, phase, openPorts, running, findings, report>>

\* A lookup ends, or fails: it notes its failure, or gather swallows it.
LookupEnds(l) ==
  /\ phase = "recon"
  /\ l \in looking
  /\ looking' = looking \ {l}
  /\ UNCHANGED <<vars, mode, phase, openPorts, running, findings, report>>

\* The recon phase is over; a safe scan has no port scan.
Recon ==
  /\ phase = "recon"
  /\ looking = {}
  /\ phase' = IF mode.safe THEN "dangerous" ELSE "scan"
  /\ UNCHANGED <<vars, mode, looking, openPorts, running, findings, report>>

\* The constructor refuses the port range, or scan() the target: the pipeline
\* goes on without a result.
ScanRefused ==
  /\ phase = "scan"
  /\ scanPc = "idle"
  /\ phase' = "dangerous"
  /\ UNCHANGED <<vars, mode, looking, openPorts, running, findings, report>>

\* open_ports is a list of its own from here on.
TakePorts ==
  /\ phase = "scan"
  /\ scanPc = "returned"
  /\ openPorts' = open
  /\ phase' = "dangerous"
  /\ UNCHANGED <<vars, mode, looking, running, findings, report>>

PortFindings(kind, entries) == [kind : {kind}, entry : entries]

\* DangerousPortChecker.detect(open_ports)
CheckDangerous ==
  /\ phase = "dangerous"
  /\ findings' = findings \union
       PortFindings("dangerous", {e \in openPorts : e[1] \in Dangerous})
  /\ phase' = "services"
  /\ UNCHANGED <<vars, mode, looking, openPorts, running, report>>

HasPort(ports) == \E e \in openPorts : e[1] \in ports

\* The detectors that the ports and the target ask for.
Launched ==
  (IF HasPort({SshPort}) THEN {"SSH"} ELSE {})
  \union (IF HasPort({TlsPort}) \/ mode.url = "https" THEN {"SSL"} ELSE {})
  \union (IF HasPort(HttpPort) \/ mode.url # "none" \/ mode.safe
            THEN HttpDetector ELSE {})

\* Mutant: the dangerous ports are reported as services too.
ReportAllServices ==
  /\ phase = "services"
  /\ findings' = findings \union PortFindings("service", open)
  /\ running' = Launched
  /\ phase' = "gather"
  /\ UNCHANGED <<vars, mode, looking, openPorts, report>>

\* The ports of the result, as it is by now, that the checker does not know;
\* then every detector is started.
ReportServices ==
  /\ phase = "services"
  /\ findings' = findings \union
       PortFindings("service", {e \in open : e[1] \notin Dangerous})
  /\ running' = Launched
  /\ phase' = "gather"
  /\ UNCHANGED <<vars, mode, looking, openPorts, report>>

\* A detector ends: with findings, or with none, or raising, which
\* _safe_detect turns into none.
DetectorEnds(d) ==
  /\ phase = "gather"
  /\ d \in running
  /\ running' = running \ {d}
  /\ findings' \in {findings, findings \union {[kind |-> d]}}
  /\ UNCHANGED <<vars, mode, phase, looking, openPorts, report>>

\* Mutant: the list of open ports is used again.
BuildReportStale ==
  /\ phase = "gather"
  /\ running = {}
  /\ report' = openPorts
  /\ phase' = "report"
  /\ UNCHANGED <<vars, mode, looking, openPorts, running, findings>>

\* gather has seen the last detector; the findings are enriched and explained,
\* and scan_data takes the ports from the result once more.
BuildReport ==
  /\ phase = "gather"
  /\ running = {}
  /\ report' = open
  /\ phase' = "report"
  /\ UNCHANGED <<vars, mode, looking, openPorts, running, findings>>

\* The report is handed to _persist_results.
Persist ==
  /\ phase = "report"
  /\ phase' = "done"
  /\ UNCHANGED <<vars, mode, looking, openPorts, running, findings, report>>

PipelineStep ==
  \/ Resolve \/ (\E l \in Lookup : LookupEnds(l)) \/ Recon \/ ScanRefused \/ TakePorts \/ CheckDangerous \/ ReportServices
  \/ BuildReport \/ Persist \/ \E d \in Detector : DetectorEnds(d)

ScannerStep == phase = "scan" /\ ScanStep /\ UNCHANGED pipeline

PNext ==
  \/ PipelineStep
  \/ ScannerStep
  \/ (\E k \in Attempt : ThreadStep(k)) /\ UNCHANGED pipeline

PSpec == PInit /\ [][PNext]_pvars

\* One coroutine, which goes on whenever it can: every await has a timeout, of
\* its own or of the resolver and the WHOIS library.
PFairSpec == PSpec /\ WF_pvars(PipelineStep \/ ScannerStep)

-----------------------------------------------------------------------------
(* Properties *)

Reported == phase \in {"report", "done"}

\* Unless an nmap attempt timed out, every open port of the report has one
\* finding: as a dangerous port or as a service, never both, never neither.
PortsReportedOnce ==
  Reported /\ NoTimeout =>
    \A e \in report :
      IF e[1] \in Dangerous
        THEN /\ [kind |-> "dangerous", entry |-> e] \in findings
             /\ [kind |-> "service", entry |-> e] \notin findings
        ELSE /\ [kind |-> "service", entry |-> e] \in findings
             /\ [kind |-> "dangerous", entry |-> e] \notin findings

\* Every port a finding speaks of is in the stored port scan, also when a
\* thread left behind appends to the result between its three readings.
FindingsAreInReport ==
  Reported => \A e \in Port \X Writer, kind \in {"dangerous", "service"} :
                [kind |-> kind, entry |-> e] \in findings => e \in report

\* The pipeline comes to its end, whatever nmap and the detectors do.
PipelineEnds == <>(phase = "done")

\* A bound on the steps the pipeline has still to take.
StepsLeft ==
  LET detectors == Cardinality(Detector)
      lookups   == Cardinality(looking) + (IF "address" \in looking THEN Cardinality(Lookup) ELSE 0)
  IN [recon     |-> lookups + ScanStepsLeft + detectors + 6,
      scan      |-> ScanStepsLeft + detectors + 5,
      dangerous |-> detectors + 4,
      services  |-> detectors + 3,
      gather    |-> Cardinality(running) + 2,
      report    |-> 1,
      done      |-> 0][phase]

\* It has no loop that goes on for ever: every step, except those of nmap's
\* threads, brings it nearer to its end, however often an attempt is repeated
\* and whatever lookups, probes and detectors end first.
GetsOn == [][StepsLeft' < StepsLeft \/ UNCHANGED <<loop, pipeline>>]_pvars
-----------------------------------------------------------------------------
(* What makes the properties inductive *)

Checked  == phase \notin {"recon", "scan", "dangerous"}
Serviced == phase \in {"gather", "report", "done"}

\* Findings, list and report follow the result as it grows.
Follows ==
  /\ phase = "recon" => scanPc = "idle"
  /\ phase \in {"recon", "scan"} => openPorts = {}
  /\ phase \notin {"recon", "scan"} =>
       scanPc \in {"idle", "returned"} /\ (NoTimeout => openPorts = open)
  /\ openPorts \subseteq open
  /\ \A e \in Port \X Writer :
       /\ [kind |-> "dangerous", entry |-> e] \in findings <=>
            Checked /\ e \in openPorts /\ e[1] \in Dangerous
       /\ [kind |-> "service", entry |-> e] \in findings =>
            Serviced /\ e \in open /\ e[1] \notin Dangerous
       /\ Serviced /\ NoTimeout /\ e \in open /\ e[1] \notin Dangerous =>
            [kind |-> "service", entry |-> e] \in findings
  /\ Reported => report \subseteq open /\ (NoTimeout => report = open)

\* The inductive invariant of the pipeline.
PInv == PTypeOK /\ IInv /\ Follows /\ FindingsAreInReport
=============================================================================
