------------------------------ MODULE Assessment ------------------------------
(***************************************************************************)
(* What becomes of the findings of a detector and of the port scan: they    *)
(* are enriched, explained and scored by the pipeline, stored as rows, and  *)
(* explained and scored once more, from the rows, by every report.          *)
(*                                                                          *)
(* Enriching and explaining are one step: no await comes between.  They     *)
(* raise for no finding there is, since every lookup has a default.         *)
(* Scores are in tenths, risks in hundredths; halves are rounded up, where  *)
(* the floats of the code may come down on either side.                     *)
(***************************************************************************)
EXTENDS Detectors, FiniteSetsExt

CONSTANTS
  HeaderRate,  \* severity and score of each required header
  MethodRate,  \* of each method
  PortRate,    \* of a dangerous port
  PortScans,   \* what a port scan may bring: how many dangerous ports, how
               \* many others and how many alarms of nmap's scripts
  Lowest       \* the lowest score of a finding that is not informational: 31,
               \* that of a header or banner that discloses a version

Severity == {"CRITICAL", "HIGH", "MEDIUM", "LOW", "INFO"}
Rate     == (Severity \ {"INFO"}) \X (Lowest .. 100)

ASSUME RateAssumption ==
  /\ Lowest \in 1 .. 31
  /\ HeaderRate \in [Required -> Rate]
  /\ MethodRate \in [1 .. Params["HTTPMethods"] -> Rate]
  /\ PortRate \in Rate
ASSUME PortScansAssumption == PortScans \subseteq [dangerous : Nat, services : Nat, alarms : Nat]

\* Types that the knowledge base and the remediation registry have entries of;
\* types with a sentence in plain English.
KnowledgeBase ==
  {"SQL Injection", "XSS", "Missing Security Header", "Weak SSL/TLS Configuration",
   "Dangerous Open Port", "Weak SSH Configuration", "Directory Traversal",
   "Insecure HTTP Methods", "Information Disclosure"}
Remedies == KnowledgeBase
Plain    == KnowledgeBase \union {"NSE Vulnerability", "Open Service Detected"}

\* A finding as its detector makes it; `own` says how many fixes it comes with,
\* `evidence` that it carries a payload or a piece of what was answered.
Made(source, type, rate, own, evidence) ==
  [source |-> source, type |-> type, severity |-> rate[1], score |-> rate[2],
   own |-> own, advice |-> "own", evidence |-> evidence]

OfProber(r) ==
  LET made(type, rate, own, evidence) ==
        Made([kind |-> detector, request |-> r], type, rate, own, evidence)
  IN CASE detector = "SQLi"         -> made("SQL Injection", <<"HIGH", 88>>, 5, TRUE)
       [] detector = "XSS"          -> made("XSS", <<"HIGH", 74>>, 5, TRUE)
       [] detector = "DirTraversal" -> made("Directory Traversal", <<"HIGH", 75>>, 4, TRUE)
       [] detector = "HTTPMethods"  -> made("Insecure HTTP Methods", MethodRate[r[1]], 4, FALSE)

OfJudge(v) ==
  LET tls(severity, score, own) ==
        Made(v, "Weak SSL/TLS Configuration", <<severity, score>>, own, FALSE)
      ssh(severity, score) == Made(v, "Weak SSH Configuration", <<severity, score>>, 2, TRUE)
      disclosure == Made(v, "Information Disclosure", <<"LOW", 31>>, 2, TRUE)
  IN CASE v.kind = "missing" ->
            Made(v, "Missing Security Header", HeaderRate[v.header], 3, FALSE)
       [] v.kind \in {"disclosed", "banner"} -> disclosure
       [] v.kind = "protocol"   -> tls("HIGH", 75, 3)
       [] v.kind = "cipher"     -> tls("HIGH", 70, 3)
       [] v.kind = "expired"    -> tls("CRITICAL", 91, 2)
       [] v.kind = "selfSigned" -> tls("MEDIUM", 59, 2)
       [] v.kind = "ssh1"       -> ssh("CRITICAL", 91)
       [] v.kind = "outdated"   -> ssh("HIGH", 78)

\* Findings that the pipeline makes of the port scan itself.
OfPorts(scan) ==
  LET made(kind, number, type, rate, own, evidence) ==
        {Made([kind |-> kind, port |-> p], type, rate, own, evidence) : p \in 1 .. number}
  IN made("dangerous", scan.dangerous, "Dangerous Open Port", PortRate, 4, FALSE)
     \union made("service", scan.services, "Open Service Detected", <<"INFO", 0>>, 4, FALSE)
     \union made("alarm", scan.alarms, "NSE Vulnerability", <<"HIGH", 75>>, 3, TRUE)

\* all_findings: a detector that raised has none.
OfDetector ==
  IF pc # "returned" THEN {}
  ELSE IF detector \in Prober THEN {OfProber(r) : r \in found} ELSE {OfJudge(v) : v \in found}

-----------------------------------------------------------------------------
(* Remediation and explanation *)

\* enrich_finding: a list of fewer than three fixes gives way to the registry's.
Enrich(f) ==
  IF f.own >= 3 THEN f
  ELSE [f EXCEPT !.advice = IF f.type \in Remedies THEN "registry" ELSE "generic"]

Explain(f) ==
  [source |-> f.source, type |-> f.type, severity |-> f.severity, score |-> f.score,
   fix |-> f.advice, evidence |-> f.evidence,
   plain       |-> IF f.type \in Plain THEN "sentence" ELSE "default",
   description |-> IF f.type \in KnowledgeBase THEN "knowledge base" ELSE "technical"]

Summary(F) == [s \in Severity |-> Cardinality({f \in F : f.severity = s})]

Weight == [s \in Severity |-> CASE s = "CRITICAL" -> 10 [] s = "HIGH" -> 8
                                [] s = "MEDIUM" -> 5 [] s = "LOW" -> 2 [] s = "INFO" -> 0]

\* `cvss_score or 5.0`: a score of 0.0 counts as missing.
ScoreOf(f) == IF f.score = 0 THEN 50 ELSE f.score

Least(m, n) == IF m <= n THEN m ELSE n

\* total / n to the nearest hundredth.
Mean(total, n) == (2 * total + n) \div (2 * n)

\* Mutant: severities have no weight.
RiskScoreUnweighted(F) ==
  IF F = {} THEN 0
  ELSE Least(1000, Mean(MapThenSumSet(LAMBDA f : 10 * ScoreOf(f), F), Cardinality(F)))

\* A score by the weight of its severity, and their sum.
Weighted(f) == ScoreOf(f) * Weight[f.severity]
Total(F)    == MapThenSumSet(Weighted, F)

\* The mean of the weighted scores.
RiskScore(F) == IF F = {} THEN 0 ELSE Least(1000, Mean(Total(F), Cardinality(F)))

Assess(F) ==
  [explained |-> {Explain(f) : f \in F}, summary |-> Summary(F), risk |-> RiskScore(F)]

-----------------------------------------------------------------------------
(* From the pipeline to the report *)

VARIABLES
  stage,   \* of the findings
  told,    \* scan_data: what the pipeline made of them
  rows,    \* vulnerabilities
  marked,  \* is_false_positive
  report   \* the last report's data

assessment == <<stage, told, rows, marked, report>>
avars      == <<vars, assessment>>

AInit ==
  /\ Init
  /\ stage = "detecting"
  /\ told = Assess({}) /\ report = Assess({})
  /\ rows = {} /\ marked = {}

\* All detectors have ended.
AssessFindings ==
  /\ pc \in {"returned", "raised"} /\ stage = "detecting"
  /\ stage' = "assessed"
  /\ \E scan \in PortScans :
       LET findings == {Enrich(f) : f \in OfDetector \union OfPorts(scan)}
       IN told' = Assess(findings) /\ rows' = findings
  /\ UNCHANGED <<vars, marked, report>>

\* _persist_results, or a database fault that it swallows.
Store ==
  /\ stage = "assessed"
  /\ \/ stage' = "stored" /\ UNCHANGED rows
     \/ stage' = "lost" /\ rows' = {}
  /\ UNCHANGED <<vars, told, marked, report>>

\* PATCH /vulnerabilities/{id}/false-positive.  Bound: on one finding.
Mark ==
  /\ stage = "stored"
  /\ \/ marked = {} /\ \E f \in rows : marked' = {f}
     \/ marked # {} /\ marked' = {}
  /\ UNCHANGED <<vars, stage, told, rows, report>>

\* Mutant: the score is not taken over from the row.
RestoredUnscored(f) == [f EXCEPT !.evidence = FALSE, !.score = 0]

\* A finding made of a row for a report: payload and response are left out.
Restored(f) == [f EXCEPT !.evidence = FALSE]

\* generate_report looks at no mark.
MakeReport ==
  /\ stage = "stored"
  /\ report' = Assess({Restored(f) : f \in rows})
  /\ UNCHANGED <<vars, stage, told, rows, marked>>

ANext ==
  \/ Step /\ UNCHANGED assessment
  \/ AssessFindings \/ Store \/ Mark \/ MakeReport

ASpec == AInit /\ [][ANext]_avars

-----------------------------------------------------------------------------
(* Properties *)

\* The risk is nought if all findings are informational, and only then unless
\* there are so many that the mean is rounded down to it.  It is never above the
\* score of the worst finding.
RiskSound ==
  LET F == told.explained
  IN /\ (\A f \in F : f.severity = "INFO") => told.risk = 0
     /\ told.risk = 0 /\ Cardinality(F) < 4 * Lowest => \A f \in F : f.severity = "INFO"
     /\ F # {} => \E f \in F : told.risk <= 10 * ScoreOf(f)

\* A report, made from the rows, says of each finding, of their number by
\* severity and of the risk what the pipeline has said: it leaves out the
\* evidence, and no mark as false positive changes it.
ReportAgrees ==
  report # Assess({}) =>
    /\ report.summary = told.summary /\ report.risk = told.risk
    /\ report.explained = {[f EXCEPT !.evidence = FALSE] : f \in told.explained}

-----------------------------------------------------------------------------
(* What makes the properties inductive *)

\* A finding that some detector or the port scan has made.
IsFinding(f) ==
  /\ f = [Made(f.source, f.type, <<f.severity, f.score>>, f.own, f.evidence)
             EXCEPT !.advice = f.advice]
  /\ f.severity \in Severity /\ f.score \in Nat
  /\ f.severity # "INFO" => f.score >= Lowest

\* Findings of one scan: no two of them are made of the same observation, so
\* that none is lost where a part of them is left out.
AreFindings(F) ==
  /\ IsFiniteSet(F)
  /\ \A f \in F : IsFinding(f)
  /\ \A f, g \in F : f.source = g.source => f = g

AInv ==
  /\ IInv
  /\ RiskSound /\ ReportAgrees
  /\ stage \in {"detecting", "assessed", "stored", "lost"}
  /\ stage = "detecting" => told = Assess({}) /\ rows = {}
  /\ stage \in {"assessed", "stored"} => AreFindings(rows) /\ told = Assess(rows)
  /\ stage \in {"detecting", "assessed"} => report = Assess({})
  /\ marked \subseteq IF stage = "stored" THEN rows ELSE {}
=============================================================================
