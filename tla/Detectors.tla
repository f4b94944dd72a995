------------------------------ MODULE Detectors ------------------------------
(***************************************************************************)
(* One run of one detector against a target.  The detectors of a scan run   *)
(* at once, but share nothing except the target: one at a time is enough.   *)
(*                                                                          *)
(* SQLi, XSS and DirTraversal send one request after the other, payload by  *)
(* payload of each parameter; HTTPMethods asks for the Allow header and     *)
(* tries each method; Headers, SSL and SSH judge one answer.  A request     *)
(* that fails counts as one that found nothing.                             *)
(***************************************************************************)
EXTENDS Integers, FiniteSets

CONSTANTS
  Params,      \* how many parameters, or methods, each prober tries
  Payloads,    \* how many payloads it has for each
  Required,    \* _REQUIRED_HEADERS
  Disclosing,  \* _DANGEROUS_HEADERS
  Major,       \* OpenSSH versions a banner may carry
  Minor

Prober   == {"SQLi", "XSS", "DirTraversal", "HTTPMethods"}
Judge    == {"Headers", "SSL", "SSH"}
Detector == Prober \union Judge

ASSUME CountsAssumption ==
  /\ Params \in [Prober -> Nat \ {0}]
  /\ Payloads \in [Prober -> Nat \ {0}]
ASSUME HeadersAssumption == IsFiniteSet(Required) /\ IsFiniteSet(Disclosing)
ASSUME VersionsAssumption == Major \subseteq Nat /\ Minor \subseteq 0 .. 99

\* payload_variants(payload)[:2]: every payload changes when it is quoted.
Variants == [d \in Prober |-> IF d = "SQLi" THEN 2 ELSE 1]

\* A request: parameter, payload, variant.
Request(d) == (1 .. Params[d]) \X (1 .. Payloads[d]) \X (1 .. Variants[d])
First      == <<1, 1, 1>>

\* What TLS offers, with the names of _WEAK_PROTOCOLS each name contains.
Protocol == {"TLSv1", "TLSv1.1", "TLSv1.2", "TLSv1.3"}
WeakName == {"SSLv2", "SSLv3", "TLSv1", "TLSv1.1"}
Contains(name, weak) == name = weak \/ (weak = "TLSv1" /\ name \in Protocol)

Certificate == {"trusted", "selfSigned", "expired"}
Software    == {"hidden", "dropbear", "OpenSSH"}

\* What a judge has to see of the target.
Site(d) ==
  CASE d = "Headers" -> SUBSET (Required \union Disclosing)
    [] d = "SSL"     -> [protocol : Protocol, weakCipher : BOOLEAN, cert : Certificate]
    [] d = "SSH"     -> [v1 : BOOLEAN, software : Software, version : Major \X Minor]
    [] OTHER         -> {{}}

VARIABLES
  detector,  \* the detector that runs
  site,      \* the target, as a judge sees it
  pc,        \* "options", "probe" or "judge"; then "returned" or "raised"
  allowed,   \* methods of the Allow header
  at,        \* the request to be sent next
  heard,     \* what came of each request
  found      \* the list of findings

vars == <<detector, site, pc, allowed, at, heard, found>>

\* What shows a prober the flaw it is looking for.
Evidence ==
  [d \in Prober |-> CASE d = "SQLi"         -> "errorSignature"
                     [] d = "XSS"          -> "reflection"
                     [] d = "DirTraversal" -> "fileContent"
                     [] d = "HTTPMethods"  -> "not405"]

Answer(d) == {Evidence[d], "clean", "lost"}

\* The findings a judge may report.
Verdict ==
  [kind : {"missing"}, header : Required] \union [kind : {"disclosed"}, header : Disclosing]
  \union [kind : {"protocol", "cipher", "expired", "selfSigned", "ssh1", "outdated", "banner"}]

TypeOK ==
  /\ detector \in Detector
  /\ site \in Site(detector)
  /\ pc \in {"options", "probe", "judge", "returned", "raised"}
  /\ detector \in Prober =>
       /\ allowed \subseteq 1 .. Params[detector]
       /\ at \in Request(detector)
       /\ heard \in [Request(detector) -> Answer(detector) \union {"unsent"}]
       /\ found \subseteq Request(detector)
  /\ detector \in Judge =>
       heard \in [{First} -> {"unsent", "seen", "lost"}] /\ found \subseteq Verdict

Init ==
  /\ detector \in Detector
  /\ site \in Site(detector)
  /\ pc = CASE detector = "HTTPMethods" -> "options"
            [] detector \in Judge       -> "judge"
            [] OTHER                    -> "probe"
  /\ allowed = {}
  /\ at = First
  /\ heard = [r \in (IF detector \in Prober THEN Request(detector) ELSE {First}) |-> "unsent"]
  /\ found = {}

-----------------------------------------------------------------------------
(* The probers *)

\* _options_probe: what the Allow header names; nothing if the request fails.
Options ==
  /\ pc = "options"
  /\ pc' = "probe"
  /\ allowed' \in SUBSET (1 .. Params[detector])
  /\ UNCHANGED <<detector, site, at, heard, found>>

\* Mutant: any detector that has a finding leaves a parameter early.
LeaveOnceFound(r, hit) ==
  \/ hit
  \/ r[3] = Variants[detector] /\ (r[2] = Payloads[detector] \/ found # {})

\* Mutant: a finding does not end the parameter.
LeaveWhenExhausted(r, hit) == r[3] = Variants[detector] /\ r[2] = Payloads[detector]

\* Request r is the last of its parameter; hit: it has brought a finding.  Once
\* SQLi has any finding, of this parameter or an earlier one, it leaves a
\* parameter after its first payload.
LeaveParam(r, hit) ==
  \/ hit
  \/ /\ r[3] = Variants[detector]
     /\ r[2] = Payloads[detector] \/ (detector = "SQLi" /\ found # {})

\* The next variant, the next payload or the next parameter.
Following(r, hit) ==
  IF LeaveParam(r, hit) THEN <<r[1] + 1, 1, 1>>
  ELSE IF r[3] < Variants[detector] THEN <<r[1], r[2], r[3] + 1>>
  ELSE <<r[1], r[2] + 1, 1>>

\* Mutant: one parameter too many.
GoOnOnceMore(next) ==
  IF next[1] > Params[detector] + 1
    THEN pc' = "returned" /\ UNCHANGED at
    ELSE at' = next /\ UNCHANGED pc

GoOn(next) ==
  IF next[1] > Params[detector]
    THEN pc' = "returned" /\ UNCHANGED at
    ELSE at' = next /\ UNCHANGED pc

\* The request is answered, or fails: a finding if the answer is in `telling`.
Send(telling) ==
  /\ pc = "probe"
  /\ \E answer \in Answer(detector) :
       /\ heard' = [heard EXCEPT ![at] = answer]
       /\ found' = IF answer \in telling THEN found \union {at} ELSE found
       /\ GoOn(Following(at, answer \in telling))
  /\ UNCHANGED <<detector, site, allowed>>

\* Mutant: a request that fails is a finding too.
AcceptedUnlessRefused ==
  {"not405", "lost"} \union (IF at[1] \in allowed THEN {"clean"} ELSE {})

\* The method is answered by another status than 405, or was in the Allow
\* header, whatever becomes of its own request.
Accepted == {"not405"} \union (IF at[1] \in allowed THEN {"clean", "lost"} ELSE {})

ProbeSql       == detector = "SQLi" /\ Send({"errorSignature"})
ProbeXss       == detector = "XSS" /\ Send({"reflection"})
ProbeTraversal == detector = "DirTraversal" /\ Send({"fileContent"})
ProbeMethod    == detector = "HTTPMethods" /\ Send(Accepted)

Probe == ProbeSql \/ ProbeXss \/ ProbeTraversal \/ ProbeMethod

-----------------------------------------------------------------------------
(* The judges *)

\* Mutant: only the minor number is looked at.
OutdatedMinor(version) == version[1] <= 7 /\ version[2] < 4

\* Below OpenSSH 7.4.
Outdated(version) == version[1] < 7 \/ (version[1] = 7 /\ version[2] < 4)

HeaderVerdicts(sent) ==
  [kind : {"missing"}, header : Required \ sent]
  \union [kind : {"disclosed"}, header : Disclosing \intersect sent]

\* getpeercert() of a handshake with CERT_NONE is empty: there is no date to
\* expire, and subject and issuer are equal.
TlsVerdicts(tls) ==
  {[kind |-> "selfSigned"]}
  \union {v \in {[kind |-> "protocol"]} : \E w \in WeakName : Contains(tls.protocol, w)}
  \union {v \in {[kind |-> "cipher"]} : tls.weakCipher}

SshVerdicts(ssh) ==
  {v \in {[kind |-> "ssh1"]} : ssh.v1}
  \union {v \in {[kind |-> "outdated"]} : ssh.software = "OpenSSH" /\ Outdated(ssh.version)}
  \union {v \in {[kind |-> "banner"]} : ssh.software # "hidden"}

\* The one answer a judge waits for comes, or does not.
Judges(verdicts) ==
  /\ pc = "judge"
  /\ pc' = "returned"
  /\ \/ heard' = [heard EXCEPT ![First] = "seen"] /\ found' = verdicts
     \/ heard' = [heard EXCEPT ![First] = "lost"] /\ UNCHANGED found
  /\ UNCHANGED <<detector, site, allowed, at>>

JudgeHeaders == detector = "Headers" /\ Judges(HeaderVerdicts(site))
JudgeTls     == detector = "SSL" /\ Judges(TlsVerdicts(site))
JudgeSsh     == detector = "SSH" /\ Judges(SshVerdicts(site))

-----------------------------------------------------------------------------
\* An exception that is no RequestError (an address that is no URL) leaves
\* detect: _safe_detect returns no finding, also if some were made.
Raise ==
  /\ pc \in {"options", "probe", "judge"}
  /\ pc' = "raised"
  /\ UNCHANGED <<detector, site, allowed, at, heard, found>>

Step == Options \/ Probe \/ JudgeHeaders \/ JudgeTls \/ JudgeSsh \/ Raise
Next == Step

Spec == Init /\ [][Next]_vars

-----------------------------------------------------------------------------
(* Properties *)

Of(p, S) == {r \in S : r[1] = p}

Sent == {r \in DOMAIN heard : heard[r] # "unsent"}

\* Parameter p, if it is without a finding, has been sent what it should.
Tried(p) ==
  Of(p, found) = {} =>
    IF detector # "SQLi" \/ \A q \in 1 .. p : Of(q, found) = {}
      THEN Of(p, Request(detector)) \subseteq Sent
      ELSE {r \in Of(p, Request(detector)) : r[2] = 1} \subseteq Sent

\* A prober that returns has missed no parameter for lack of asking: one that
\* is without a finding was sent every request; by SQLi, unless an earlier one
\* has a finding, and then it was still sent both variants of one payload.
Thorough ==
  detector \in Prober /\ pc = "returned" =>
    \A p \in 1 .. Params[detector] : Tried(p)

\* A parameter is reported once, on an answer that shows the flaw or an Allow
\* header: no failure of the network is a finding, and none is kept back.
ReportedOnce ==
  detector \in Prober =>
    /\ \A p \in 1 .. Params[detector] : Cardinality(Of(p, found)) <= 1
    /\ \A r \in Request(detector) :
         r \in found <=> heard[r] = Evidence[detector] \/ (heard[r] # "unsent" /\ r[1] \in allowed)

\* No request is sent twice, and none for a parameter that has been reported.
Economical ==
  [][\A r \in DOMAIN heard : heard'[r] # heard[r] =>
       heard[r] = "unsent" /\ (detector \in Prober => Of(r[1], found) = {})]_vars

\* What a judge that got its answer reports of headers and of OpenSSH is what
\* the target sends: each required header is sent or reported missing, and a
\* version is outdated if it comes before 7.4.
Judged ==
  detector \in Judge /\ pc = "returned" /\ heard[First] = "seen" =>
    /\ detector = "Headers" =>
         /\ \A h \in Required : h \in site \/ [kind |-> "missing", header |-> h] \in found
         /\ \A h \in Disclosing :
              h \in site <=> [kind |-> "disclosed", header |-> h] \in found
    /\ detector = "SSH" /\ site.software = "OpenSSH" =>
         ([kind |-> "outdated"] \in found
            <=> 100 * site.version[1] + site.version[2] < 704)

\* A protocol reported as weak is one of those the report says to disable.
\* Does not hold.
WeakProtocolHonest ==
  detector = "SSL" /\ [kind |-> "protocol"] \in found => site.protocol \in WeakName

-----------------------------------------------------------------------------
(* What makes the properties inductive *)

\* Request r comes before request s.
Before(r, s) ==
  \/ r[1] < s[1]
  \/ r[1] = s[1] /\ (r[2] < s[2] \/ (r[2] = s[2] /\ r[3] < s[3]))

\* While a prober is at a request: what is to come has not been sent, the
\* parameter it is at has no finding and was sent what came before.
Underway ==
  /\ \A r \in Request(detector) :
       /\ ~Before(r, at) => heard[r] = "unsent"
       /\ r[1] = at[1] /\ Before(r, at) => heard[r] # "unsent"
       /\ r[1] = at[1] => r \notin found
  /\ \A p \in 1 .. at[1] - 1 : Tried(p)
  /\ detector = "SQLi" /\ at[2] > 1 => found = {}

Reported ==
  \A r \in Request(detector) :
    /\ r \in found <=> heard[r] = Evidence[detector] \/ (heard[r] # "unsent" /\ r[1] \in allowed)
    /\ \A s \in found : r \in found /\ r[1] = s[1] => r = s

\* What a judge reports is what it saw, if it saw anything.
Sighted ==
  heard[First] = "seen" =>
    found = CASE detector = "Headers" -> HeaderVerdicts(site)
              [] detector = "SSL"     -> TlsVerdicts(site)
              [] detector = "SSH"     -> SshVerdicts(site)

IInv ==
  /\ TypeOK
  /\ pc = "options" \/ allowed # {} => detector = "HTTPMethods"
  /\ pc = "probe" => detector \in Prober
  /\ pc = "judge" => detector \in Judge /\ found = {} /\ heard[First] = "unsent"
  /\ detector \in Judge => Sighted
  /\ detector \in Prober =>
       /\ Reported
       /\ pc = "options" => at = First /\ found = {}
                            /\ \A r \in Request(detector) : heard[r] = "unsent"
       /\ pc = "probe" => Underway
       /\ pc = "returned" => \A p \in 1 .. Params[detector] : Tried(p)
=============================================================================
