--------------------------- MODULE Detectors_proofs ---------------------------
(***************************************************************************)
(* Theorems about Detectors, for any number of parameters and payloads, any *)
(* headers and any versions; and about Assessment, for any number of ports. *)
(***************************************************************************)
EXTENDS Assessment, FiniteSetTheorems, FunctionTheorems, WellFoundedInduction, TLAPS

LEMMA Counts ==
  ASSUME NEW d \in Prober
  PROVE  Params[d] \in Nat \ {0} /\ Payloads[d] \in Nat \ {0} /\ Variants[d] \in {1, 2}
  BY CountsAssumption DEF Variants

LEMMA Probers == Prober \intersect Judge = {}
  BY DEF Prober, Judge

LEMMA FirstIsRequest ==
  ASSUME NEW d \in Prober
  PROVE  First \in Request(d) /\ \A r \in Request(d) : ~Before(r, First)
  BY Counts DEF First, Request, Before

LEMMA Evidenced ==
  ASSUME NEW d \in Prober
  PROVE  Evidence[d] \in Answer(d) /\ Evidence[d] # "unsent" /\ "unsent" \notin Answer(d)
  BY DEF Evidence, Answer, Prober

-----------------------------------------------------------------------------
(* The order of the requests *)

LEMMA RequestParts ==
  ASSUME NEW d \in Prober, NEW r \in Request(d)
  PROVE  /\ r = <<r[1], r[2], r[3]>>
         /\ r[1] \in 1 .. Params[d] /\ r[2] \in 1 .. Payloads[d] /\ r[3] \in 1 .. Variants[d]
  BY DEF Request

\* What follows the request a prober is at.
LEMMA FollowingIs ==
  ASSUME detector \in Prober, NEW a \in Request(detector), NEW hit \in BOOLEAN
  PROVE  LET next == Following(a, hit)
         IN IF LeaveParam(a, hit)
              THEN next = <<a[1] + 1, 1, 1>>
              ELSE /\ ~hit
                   /\ next \in Request(detector)
                   /\ next[1] = a[1]
                   /\ next = IF a[3] < Variants[detector]
                               THEN <<a[1], a[2], a[3] + 1>> ELSE <<a[1], a[2] + 1, 1>>
<1> DEFINE next == Following(a, hit)
<1>1. CASE LeaveParam(a, hit)
  BY <1>1 DEF Following
<1>2. CASE ~LeaveParam(a, hit)
  <2>1. ~hit /\ (a[3] = Variants[detector] => a[2] # Payloads[detector])
    BY <1>2 DEF LeaveParam
  <2>2. next = IF a[3] < Variants[detector]
                 THEN <<a[1], a[2], a[3] + 1>> ELSE <<a[1], a[2] + 1, 1>>
    BY <1>2 DEF Following
  <2>3. next \in Request(detector)
    BY <2>1, <2>2, Counts, RequestParts DEF Request
  <2>4. next[1] = a[1]
    BY <2>2
  <2>5. QED
    BY <1>2, <2>1, <2>2, <2>3, <2>4
<1>3. QED
  BY <1>1, <1>2

\* What is before the next request is before this one, or this one, or of a
\* parameter that has been left.
LEMMA BeforeFollowing ==
  ASSUME detector \in Prober, NEW a \in Request(detector), NEW hit \in BOOLEAN,
         NEW r \in Request(detector)
  PROVE  LET next == Following(a, hit)
         IN /\ Before(r, a) \/ r = a => Before(r, next)
            /\ r[1] = next[1] /\ Before(r, next) => Before(r, a) \/ r = a
<1> DEFINE next == Following(a, hit)
<1>1. CASE LeaveParam(a, hit)
  BY <1>1, FollowingIs, RequestParts DEF Before
<1>2. CASE ~LeaveParam(a, hit)
  <2>1. next[1] = a[1] /\ next = IF a[3] < Variants[detector]
                 THEN <<a[1], a[2], a[3] + 1>> ELSE <<a[1], a[2] + 1, 1>>
    BY <1>2, FollowingIs
  <2>2. /\ a[1] \in Nat /\ a[2] \in Nat /\ a[3] \in 1 .. Variants[detector]
        /\ r[1] \in Nat /\ r[2] \in Nat /\ r[3] \in 1 .. Variants[detector]
        /\ Variants[detector] \in Nat /\ r = <<r[1], r[2], r[3]>> /\ a = <<a[1], a[2], a[3]>>
    BY RequestParts, Counts
  <2> HIDE DEF next
  <2>3. ASSUME a[3] < Variants[detector]
        PROVE  /\ Before(r, a) \/ r = a => Before(r, next)
               /\ r[1] = next[1] /\ Before(r, next) => Before(r, a) \/ r = a
    BY <2>1, <2>2, <2>3 DEF Before
  <2>4. ASSUME a[3] = Variants[detector]
        PROVE  /\ Before(r, a) \/ r = a => Before(r, next)
               /\ r[1] = next[1] /\ Before(r, next) => Before(r, a) \/ r = a
    <3>1. next = <<a[1], a[2] + 1, 1>>
      BY <2>1, <2>2, <2>4
    <3>2. Before(r, a) \/ r = a => Before(r, next)
      BY <3>1, <2>2 DEF Before
    <3>3. ASSUME r[1] = next[1], Before(r, next)
          PROVE  Before(r, a) \/ r = a
      <4>1. r[1] = a[1] /\ r[2] <= a[2]
        BY <3>1, <3>3, <2>2 DEF Before
      <4>2. CASE r[2] < a[2]
        BY <4>1, <4>2, <2>2 DEF Before
      <4>3. CASE r[2] = a[2]
        BY <4>1, <4>3, <2>2, <2>4 DEF Before
      <4>4. QED
        BY <4>1, <4>2, <4>3, <2>2
    <3>4. QED
      BY <3>2, <3>3
  <2>5. QED
    BY <2>2, <2>3, <2>4 DEF next
<1>3. QED
  BY <1>1, <1>2

-----------------------------------------------------------------------------
(* A prober's request *)

\* The request a prober is at has an answer, and a finding if that is telling.
SendTo(answer, hit) ==
  /\ heard' = [heard EXCEPT ![at] = answer]
  /\ found' = IF hit THEN found \union {at} ELSE found
  /\ GoOn(Following(at, hit))
  /\ UNCHANGED <<detector, site, allowed>>

LEMMA SendType ==
  ASSUME IInv, pc = "probe", NEW answer \in Answer(detector), NEW hit \in BOOLEAN,
         SendTo(answer, hit)
  PROVE  TypeOK'
<1>1. detector \in Prober /\ detector \notin Judge
  BY Probers DEF IInv
<1>2. /\ allowed \subseteq 1 .. Params[detector] /\ at \in Request(detector)
      /\ heard \in [Request(detector) -> Answer(detector) \union {"unsent"}]
      /\ found \subseteq Request(detector)
  BY <1>1 DEF IInv, TypeOK
<1>3. heard' \in [Request(detector) -> Answer(detector) \union {"unsent"}]
  BY <1>2 DEF SendTo
<1>4. found' \subseteq Request(detector)
  BY <1>2 DEF SendTo
<1>5. at' \in Request(detector) /\ pc' \in {"probe", "returned"}
  <2> DEFINE next == Following(at, hit)
  <2>1. next \in Request(detector) \/ next = <<at[1] + 1, 1, 1>>
    BY <1>1, <1>2, FollowingIs
  <2>2. ASSUME ~(next[1] > Params[detector]) PROVE next \in Request(detector)
    <3>1. CASE next = <<at[1] + 1, 1, 1>>
      <4>1. next[1] = at[1] + 1
        BY <3>1
      <4>2. at[1] + 1 \in 1 .. Params[detector]
        BY <4>1, <2>2, <1>1, <1>2, Counts, RequestParts
      <4>3. 1 \in 1 .. Payloads[detector] /\ 1 \in 1 .. Variants[detector]
        BY <1>1, Counts
      <4>4. QED
        BY <3>1, <4>2, <4>3 DEF Request
    <3>2. QED
      BY <2>1, <3>1
  <2> HIDE DEF next
  <2>3. IF next[1] > Params[detector] THEN pc' = "returned" /\ at' = at ELSE at' = next /\ pc' = pc
    BY DEF SendTo, GoOn, next
  <2>4. QED
    BY <2>2, <2>3, <1>2
<1>6. /\ detector' = detector /\ site' = site /\ allowed' = allowed
      /\ site \in Site(detector) /\ detector \in Detector
  BY DEF SendTo, IInv, TypeOK
<1>7. QED
  BY <1>1, <1>2, <1>3, <1>4, <1>5, <1>6 DEF TypeOK

\* An answer is telling if it is the evidence, or any for an allowed method.
LEMMA SendReported ==
  ASSUME IInv, pc = "probe", NEW answer \in Answer(detector), NEW hit \in BOOLEAN,
         SendTo(answer, hit),
         hit <=> answer = Evidence[detector] \/ at[1] \in allowed
  PROVE  Reported'
<1>1. detector \in Prober
  BY DEF IInv
<1>2. /\ at \in Request(detector)
      /\ heard \in [Request(detector) -> Answer(detector) \union {"unsent"}]
  BY <1>1 DEF IInv, TypeOK
<1>3. Reported /\ Underway
  BY <1>1 DEF IInv
<1>4. answer # "unsent"
  BY <1>1, Evidenced
<1>5. /\ heard' = [heard EXCEPT ![at] = answer]
      /\ found' = IF hit THEN found \union {at} ELSE found
      /\ detector' = detector /\ allowed' = allowed
  BY DEF SendTo
<1>6. \A s \in Request(detector) : s[1] = at[1] => s \notin found
  BY <1>3 DEF Underway
<1>7. ASSUME NEW r \in Request(detector)
      PROVE  r \in found' <=> heard'[r] = Evidence[detector] \/ (heard'[r] # "unsent" /\ r[1] \in allowed)
  <2>1. CASE r = at
    <3>1. heard'[r] = answer
      BY <1>2, <1>5, <2>1
    <3>2. r \in found' <=> hit
      BY <1>2, <1>5, <1>6, <2>1
    <3>3. QED
      BY <2>1, <3>1, <3>2, <1>4
  <2>2. CASE r # at
    <3>1. heard'[r] = heard[r] /\ (r \in found' <=> r \in found)
      BY <1>2, <1>5, <2>2
    <3>2. r \in found <=> heard[r] = Evidence[detector] \/ (heard[r] # "unsent" /\ r[1] \in allowed)
      BY <1>3 DEF Reported
    <3>3. QED
      BY <3>1, <3>2
  <2>3. QED
    BY <2>1, <2>2
<1>8. ASSUME NEW r \in Request(detector), NEW s \in found', r \in found', r[1] = s[1]
      PROVE  r = s
  <2>1. found \subseteq Request(detector)
    BY <1>1 DEF IInv, TypeOK
  <2>2. r \in found \union {at} /\ s \in found \union {at}
    BY <1>5, <1>8
  <2>3. CASE r \in found /\ s \in found
    BY <1>3, <1>8, <2>3 DEF Reported
  <2>4. QED
    BY <1>6, <1>8, <2>1, <2>2, <2>3
<1>9. QED
  BY <1>5, <1>7, <1>8 DEF Reported

\* What has been tried stays tried.
LEMMA StaysTried ==
  ASSUME IInv, pc = "probe", NEW answer \in Answer(detector), NEW hit \in BOOLEAN,
         SendTo(answer, hit), NEW p \in Nat, p < at[1], Tried(p)
  PROVE  Tried(p)'
<1>1. detector \in Prober
  BY DEF IInv
<1>2. /\ at \in Request(detector)
      /\ heard \in [Request(detector) -> Answer(detector) \union {"unsent"}]
  BY <1>1 DEF IInv, TypeOK
<1>3. answer # "unsent"
  BY <1>1, Evidenced
<1>4. /\ heard' = [heard EXCEPT ![at] = answer]
      /\ found' = IF hit THEN found \union {at} ELSE found
      /\ detector' = detector
  BY DEF SendTo
<1>5. Sent \subseteq Sent'
  BY <1>2, <1>3, <1>4 DEF Sent
<1>6. at[1] \in Nat
  BY <1>1, <1>2, RequestParts
<1>7. \A q \in 1 .. p : Of(q, found') = Of(q, found)
  BY <1>4, <1>6 DEF Of
<1>8. Of(p, found') = Of(p, found)
  BY <1>4, <1>6 DEF Of
<1>9. QED
  BY <1>4, <1>5, <1>7, <1>8 DEF Tried

\* A parameter that is left has been tried.
LEMMA LeftTried ==
  ASSUME IInv, pc = "probe", NEW answer \in Answer(detector), NEW hit \in BOOLEAN,
         SendTo(answer, hit), LeaveParam(at, hit), NEW p \in Nat, p = at[1]
  PROVE  Tried(p)'
<1>1. detector \in Prober
  BY DEF IInv
<1>2. /\ at \in Request(detector)
      /\ heard \in [Request(detector) -> Answer(detector) \union {"unsent"}]
      /\ found \subseteq Request(detector)
  BY <1>1 DEF IInv, TypeOK
<1>3. answer # "unsent"
  BY <1>1, Evidenced
<1>4. /\ heard' = [heard EXCEPT ![at] = answer]
      /\ found' = IF hit THEN found \union {at} ELSE found
      /\ detector' = detector
  BY DEF SendTo
<1>5. Underway /\ Reported
  BY <1>1 DEF IInv
<1>6. p \in 1 .. Params[detector] /\ p \in Nat
  BY <1>1, <1>2, RequestParts, Counts
<1>7. SUFFICES ASSUME Of(p, found') = {}
               PROVE  IF detector # "SQLi" \/ \A q \in 1 .. p : Of(q, found') = {}
                        THEN Of(p, Request(detector)) \subseteq Sent'
                        ELSE {r \in Of(p, Request(detector)) : r[2] = 1} \subseteq Sent'
  BY <1>4 DEF Tried
<1>8. ~hit /\ found' = found
  <2>1. hit => at \in Of(p, found')
    BY <1>4 DEF Of
  <2>2. QED
    BY <1>4, <1>7, <2>1
<1>9. /\ at[3] = Variants[detector]
      /\ at[2] = Payloads[detector] \/ (detector = "SQLi" /\ found # {})
  BY <1>8 DEF LeaveParam
<1>10. \A r \in Request(detector) : r[1] = p /\ (Before(r, at) \/ r = at) => r \in Sent'
  BY <1>2, <1>3, <1>4, <1>5 DEF Underway, Sent
<1>11. CASE at[2] = Payloads[detector]
  <2>1. \A r \in Request(detector) : r[1] = p => Before(r, at) \/ r = at
    BY <1>1, <1>2, <1>9, <1>11, RequestParts, Counts DEF Before
  <2>2. QED
    BY <1>10, <2>1 DEF Of
<1>12. CASE detector = "SQLi" /\ found # {}
  <2>1. at[2] = 1
    BY <1>1, <1>2, <1>5, <1>12, RequestParts, Counts DEF Underway
  <2>2. \A r \in Request(detector) : r[1] = p /\ r[2] = 1 => Before(r, at) \/ r = at
    BY <1>1, <1>2, <1>9, <2>1, RequestParts, Counts DEF Before
  <2>3. PICK s \in found : s \in Request(detector)
    BY <1>2, <1>12
  <2>4. s[1] \in 1 .. p
    <3>1. heard[s] # "unsent"
      BY <1>1, <1>5, <2>3, Evidenced DEF Reported
    <3>2. Before(s, at)
      BY <1>5, <2>3, <3>1 DEF Underway
    <3>3. QED
      BY <1>1, <1>2, <2>3, <3>2, RequestParts, Counts DEF Before
  <2>5. s \in Of(s[1], found')
    BY <1>8, <2>3 DEF Of
  <2>6. ~(detector # "SQLi" \/ \A q \in 1 .. p : Of(q, found') = {})
    BY <1>12, <2>4, <2>5
  <2>7. {r \in Of(p, Request(detector)) : r[2] = 1} \subseteq Sent'
    BY <1>10, <2>2 DEF Of
  <2>8. QED
    BY <2>6, <2>7
<1>13. QED
  BY <1>9, <1>11, <1>12

LEMMA SendUnderway ==
  ASSUME IInv, pc = "probe", NEW answer \in Answer(detector), NEW hit \in BOOLEAN,
         SendTo(answer, hit)
  PROVE  /\ pc' = "probe" => Underway'
         /\ pc' = "returned" => \A p \in 1 .. Params[detector] : Tried(p)'
<1> DEFINE next == Following(at, hit)
<1>1. detector \in Prober
  BY DEF IInv
<1>2. /\ at \in Request(detector)
      /\ heard \in [Request(detector) -> Answer(detector) \union {"unsent"}]
      /\ found \subseteq Request(detector)
  BY <1>1 DEF IInv, TypeOK
<1>3. answer # "unsent"
  BY <1>1, Evidenced
<1>4. /\ heard' = [heard EXCEPT ![at] = answer]
      /\ found' = IF hit THEN found \union {at} ELSE found
      /\ detector' = detector
  BY DEF SendTo
<1>5. Underway /\ Reported
  BY <1>1 DEF IInv
<1>6. at[1] \in 1 .. Params[detector] /\ at[1] \in Nat /\ Params[detector] \in Nat
  BY <1>1, <1>2, RequestParts, Counts
<1>7. \A p \in 1 .. at[1] - 1 : Tried(p)'
  <2>1. \A p \in 1 .. at[1] - 1 : p \in Nat /\ p < at[1] /\ Tried(p)
    BY <1>5, <1>6 DEF Underway
  <2>2. QED
    BY <2>1, StaysTried
<1>8. IF LeaveParam(at, hit)
        THEN next = <<at[1] + 1, 1, 1>>
        ELSE /\ ~hit
             /\ next[1] = at[1]
             /\ next = IF at[3] < Variants[detector]
                         THEN <<at[1], at[2], at[3] + 1>> ELSE <<at[1], at[2] + 1, 1>>
  BY <1>1, <1>2, FollowingIs
<1>9. \A p \in 1 .. next[1] - 1 : Tried(p)'
  <2>1. CASE LeaveParam(at, hit)
    <3>1. next[1] = at[1] + 1
      BY <1>8, <2>1
    <3>2. \A p \in Nat : p = at[1] => Tried(p)'
      BY <2>1, LeftTried
    <3>3. \A p \in 1 .. next[1] - 1 : p \in 1 .. at[1] - 1 \/ p = at[1]
      BY <1>6, <3>1
    <3> HIDE DEF next
    <3>4. QED
      BY <1>6, <1>7, <3>2, <3>3
  <2>2. CASE ~LeaveParam(at, hit)
    BY <1>7, <1>8, <2>2
  <2>3. QED
    BY <2>1, <2>2
<1>10. next[1] \in Nat
  BY <1>6, <1>8
<1>11. /\ \A r \in Request(detector) : Before(r, at) \/ r = at => Before(r, next)
       /\ \A r \in Request(detector) : r[1] = next[1] /\ Before(r, next) => Before(r, at) \/ r = at
  BY <1>1, <1>2, BeforeFollowing
<1>12. IF next[1] > Params[detector] THEN pc' = "returned" /\ at' = at ELSE at' = next /\ pc' = pc
  BY DEF SendTo, GoOn
<1>13. detector = "SQLi" /\ next[2] > 1 => found' = {}
  <2>1. CASE LeaveParam(at, hit)
    BY <1>8, <2>1
  <2>2. CASE ~LeaveParam(at, hit)
    <3>1. ASSUME detector = "SQLi", next[2] > 1 PROVE found = {}
      <4>1. CASE at[3] < Variants[detector]
        <5>1. at[2] > 1
          BY <1>8, <2>2, <3>1, <4>1
        <5>2. QED
          BY <1>5, <3>1, <5>1 DEF Underway
      <4>2. CASE at[3] = Variants[detector]
        BY <2>2, <3>1, <4>2 DEF LeaveParam
      <4>3. QED
        BY <1>1, <1>2, <4>1, <4>2, RequestParts, Counts
    <3>2. QED
      BY <1>4, <1>8, <2>2, <3>1
  <2>3. QED
    BY <2>1, <2>2
<1>14. \A r \in Request(detector) : r[1] = next[1] => r \notin found'
  <2>1. CASE LeaveParam(at, hit)
    <3>1. next[1] = at[1] + 1
      BY <1>8, <2>1
    <3>2. ASSUME NEW r \in Request(detector), r[1] = next[1] PROVE r # at /\ r \notin found
      <4>1. r # at /\ ~Before(r, at)
        BY <1>6, <3>1, <3>2 DEF Before
      <4>2. heard[r] = "unsent"
        BY <1>5, <4>1 DEF Underway
      <4>3. QED
        BY <1>1, <1>5, <4>1, <4>2, Evidenced DEF Reported
    <3> HIDE DEF next
    <3>3. QED
      BY <1>4, <3>2
  <2>2. CASE ~LeaveParam(at, hit)
    BY <1>4, <1>5, <1>8, <2>2 DEF Underway
  <2>3. QED
    BY <2>1, <2>2
<1> HIDE DEF next
<1>15. ASSUME pc' = "probe" PROVE Underway'
  <2>1. at' = next
    BY <1>12, <1>15
  <2>2. ASSUME NEW r \in Request(detector)
        PROVE  /\ ~Before(r, next) => heard'[r] = "unsent"
               /\ r[1] = next[1] /\ Before(r, next) => heard'[r] # "unsent"
    <3>1. ~Before(r, next) => heard'[r] = "unsent"
      BY <1>2, <1>4, <1>5, <1>11 DEF Underway
    <3>2. ASSUME r[1] = next[1], Before(r, next) PROVE heard'[r] # "unsent"
      <4>1. CASE r = at
        BY <1>2, <1>3, <1>4, <4>1
      <4>2. CASE r # at
        <5>1. Before(r, at)
          BY <1>11, <3>2, <4>2
        <5>2. r[1] = at[1]
          BY <1>8, <3>2, <5>1, <1>1, <1>2, <1>6, RequestParts DEF Before
        <5>3. QED
          BY <1>2, <1>4, <1>5, <4>2, <5>1, <5>2 DEF Underway
      <4>3. QED
        BY <4>1, <4>2
    <3>3. QED
      BY <3>1, <3>2
  <2>3. QED
    BY <1>4, <1>9, <1>13, <1>14, <2>1, <2>2 DEF Underway
<1>16. ASSUME pc' = "returned" PROVE \A p \in 1 .. Params[detector] : Tried(p)'
  <2>1. next[1] > Params[detector]
    BY <1>12, <1>16
  <2>2. \A p \in 1 .. Params[detector] : p \in 1 .. next[1] - 1
    BY <1>6, <1>10, <2>1
  <2>3. QED
    BY <1>9, <2>2
<1>17. QED
  BY <1>15, <1>16

-----------------------------------------------------------------------------
(* The inductive invariant *)

LEMMA ProbeIsSend ==
  ASSUME IInv, Probe
  PROVE  \E answer \in Answer(detector), hit \in BOOLEAN :
           /\ SendTo(answer, hit)
           /\ hit <=> answer = Evidence[detector] \/ at[1] \in allowed
<1>1. ASSUME NEW telling, Send(telling),
             \A answer \in Answer(detector) :
               answer \in telling <=> answer = Evidence[detector] \/ at[1] \in allowed
      PROVE  \E answer \in Answer(detector), hit \in BOOLEAN :
               /\ SendTo(answer, hit)
               /\ hit <=> answer = Evidence[detector] \/ at[1] \in allowed
  <2>1. PICK answer \in Answer(detector) :
          /\ heard' = [heard EXCEPT ![at] = answer]
          /\ found' = IF answer \in telling THEN found \union {at} ELSE found
          /\ GoOn(Following(at, answer \in telling))
    BY <1>1 DEF Send
  <2>2. SendTo(answer, answer \in telling)
    BY <1>1, <2>1 DEF Send, SendTo
  <2>3. (answer \in telling) \in BOOLEAN
    OBVIOUS
  <2>4. (answer \in telling) <=> answer = Evidence[detector] \/ at[1] \in allowed
    BY <1>1
  <2>5. QED
    BY <2>2, <2>3, <2>4, Zenon
<1>2. detector \in Prober /\ detector # "HTTPMethods" => allowed = {}
  BY DEF IInv
<1>3. CASE ProbeSql
  BY <1>1, <1>2, <1>3 DEF ProbeSql, Prober, Evidence
<1>4. CASE ProbeXss
  BY <1>1, <1>2, <1>4 DEF ProbeXss, Prober, Evidence
<1>5. CASE ProbeTraversal
  BY <1>1, <1>2, <1>5 DEF ProbeTraversal, Prober, Evidence
<1>6. CASE ProbeMethod
  <2>1. detector = "HTTPMethods" /\ Send(Accepted) /\ Evidence[detector] = "not405"
    BY <1>6 DEF ProbeMethod, Prober, Evidence
  <2>2. \A answer \in Answer(detector) :
          answer \in Accepted <=> answer = Evidence[detector] \/ at[1] \in allowed
    BY <2>1 DEF Answer, Accepted
  <2>3. QED
    BY <1>1, <2>1, <2>2
<1>7. QED
  BY <1>3, <1>4, <1>5, <1>6 DEF Probe

LEMMA VerdictTypes ==
  /\ detector = "Headers" /\ site \in Site(detector) => HeaderVerdicts(site) \subseteq Verdict
  /\ TlsVerdicts(site) \subseteq Verdict
  /\ SshVerdicts(site) \subseteq Verdict
<1>1. ASSUME detector = "Headers", site \in Site(detector)
      PROVE  HeaderVerdicts(site) \subseteq Verdict
  <2>1. site \subseteq Required \union Disclosing
    BY <1>1 DEF Site
  <2>2. QED
    BY <2>1 DEF HeaderVerdicts, Verdict
<1>2. TlsVerdicts(site) \subseteq Verdict
  BY DEF TlsVerdicts, Verdict
<1>3. SshVerdicts(site) \subseteq Verdict
  BY DEF SshVerdicts, Verdict
<1>4. QED
  BY <1>1, <1>2, <1>3

LEMMA InitIInv == Init => IInv
<1> SUFFICES ASSUME Init PROVE IInv
  OBVIOUS
<1>1. CASE detector \in Prober
  <2>1. detector \notin Judge /\ allowed = {} /\ at = First /\ found = {}
        /\ heard = [r \in Request(detector) |-> "unsent"]
    BY <1>1, Probers DEF Init
  <2>2. pc = IF detector = "HTTPMethods" THEN "options" ELSE "probe"
    BY <1>1, <2>1 DEF Init, Prober, Judge
  <2>3. TypeOK
    BY <1>1, <2>1, <2>2, FirstIsRequest DEF Init, TypeOK
  <2>4. Reported
    BY <1>1, <2>1, Evidenced DEF Reported
  <2>5. Underway
    BY <1>1, <2>1, FirstIsRequest DEF Underway, First
  <2>6. QED
    BY <1>1, <2>1, <2>2, <2>3, <2>4, <2>5 DEF IInv
<1>2. CASE detector \in Judge
  <2>1. detector \notin Prober /\ allowed = {} /\ found = {}
        /\ heard = [r \in {First} |-> "unsent"]
    BY <1>2, Probers DEF Init
  <2>2. pc = "judge"
    BY <1>2 DEF Init, Judge
  <2>3. TypeOK
    BY <1>2, <2>1, <2>2 DEF Init, TypeOK
  <2>4. QED
    BY <1>2, <2>1, <2>2, <2>3 DEF IInv, Sighted
<1>3. QED
  BY <1>1, <1>2 DEF Init, Detector

LEMMA OptionsIInv ==
  ASSUME IInv, Options
  PROVE  IInv'
<1>1. /\ detector = "HTTPMethods" /\ detector \in Prober /\ detector \notin Judge
      /\ pc = "options" /\ pc' = "probe" /\ allowed' \subseteq 1 .. Params[detector]
      /\ detector' = detector /\ site' = site /\ at' = at /\ heard' = heard /\ found' = found
  BY Probers DEF IInv, Options, Prober
<1>2. at = First /\ found = {} /\ \A r \in Request(detector) : heard[r] = "unsent"
  BY <1>1 DEF IInv
<1>3. TypeOK'
  BY <1>1 DEF IInv, TypeOK
<1>4. Reported'
  BY <1>1, <1>2, Evidenced DEF Reported
<1>5. Underway'
  BY <1>1, <1>2, FirstIsRequest DEF Underway, First
<1>6. QED
  BY <1>1, <1>3, <1>4, <1>5 DEF IInv

LEMMA ProbeIInv ==
  ASSUME IInv, Probe
  PROVE  IInv'
<1>1. PICK answer \in Answer(detector), hit \in BOOLEAN :
        /\ SendTo(answer, hit)
        /\ hit <=> answer = Evidence[detector] \/ at[1] \in allowed
  BY ProbeIsSend
<1>2. pc = "probe"
  BY DEF Probe, ProbeSql, ProbeXss, ProbeTraversal, ProbeMethod, Send
<1>3. detector' = detector /\ allowed' = allowed /\ detector \in Prober /\ detector \notin Judge
  BY <1>1, <1>2, Probers DEF IInv, SendTo
<1>4. pc' \in {"probe", "returned"}
  BY <1>1, <1>2 DEF SendTo, GoOn
<1>5. TypeOK' /\ Reported'
  BY <1>1, <1>2, SendType, SendReported
<1>6. /\ pc' = "probe" => Underway'
      /\ pc' = "returned" => \A p \in 1 .. Params[detector] : Tried(p)'
  BY <1>1, <1>2, SendUnderway
<1>7. QED
  BY <1>3, <1>4, <1>5, <1>6 DEF IInv

LEMMA JudgeIInv ==
  ASSUME IInv, NEW verdicts, Judges(verdicts), detector \in Judge, verdicts \subseteq Verdict,
         verdicts = CASE detector = "Headers" -> HeaderVerdicts(site)
                      [] detector = "SSL"     -> TlsVerdicts(site)
                      [] detector = "SSH"     -> SshVerdicts(site)
  PROVE  IInv'
<1>1. /\ detector \notin Prober /\ found = {} /\ pc' = "returned"
      /\ detector' = detector /\ site' = site /\ allowed' = allowed
      /\ heard \in [{First} -> {"unsent", "seen", "lost"}]
  BY Probers DEF IInv, TypeOK, Judges
<1>2. \/ heard' = [heard EXCEPT ![First] = "seen"] /\ found' = verdicts
      \/ heard' = [heard EXCEPT ![First] = "lost"] /\ found' = found
  BY DEF Judges
<1>3. TypeOK'
  BY <1>1, <1>2 DEF IInv, TypeOK
<1>4. heard'[First] = "seen" => found' = verdicts
  BY <1>1, <1>2
<1>5. Sighted'
  BY <1>1, <1>4 DEF Sighted
<1>6. QED
  BY <1>1, <1>3, <1>5 DEF IInv

LEMMA StepIInv == IInv /\ [Next]_vars => IInv'
<1> SUFFICES ASSUME IInv, [Next]_vars PROVE IInv'
  OBVIOUS
<1>1. CASE Options
  BY <1>1, OptionsIInv
<1>2. CASE Probe
  BY <1>2, ProbeIInv
<1>3. site \in Site(detector)
  BY DEF IInv, TypeOK
<1>4. CASE JudgeHeaders
  BY <1>3, <1>4, JudgeIInv, VerdictTypes DEF JudgeHeaders, Judge
<1>5. CASE JudgeTls
  BY <1>5, JudgeIInv, VerdictTypes DEF JudgeTls, Judge
<1>6. CASE JudgeSsh
  BY <1>6, JudgeIInv, VerdictTypes DEF JudgeSsh, Judge
<1>7. CASE Raise
  <2>1. /\ pc' = "raised" /\ detector' = detector /\ site' = site /\ allowed' = allowed
        /\ at' = at /\ heard' = heard /\ found' = found
    BY <1>7 DEF Raise
  <2>2. TypeOK'
    BY <2>1 DEF IInv, TypeOK
  <2>3. Reported => Reported'
    BY <2>1 DEF Reported
  <2>4. Sighted => Sighted'
    BY <2>1 DEF Sighted
  <2>5. QED
    BY <1>7, <2>1, <2>2, <2>3, <2>4 DEF IInv, Raise
<1>8. CASE UNCHANGED vars
  BY <1>8 DEF vars, IInv, TypeOK, Reported, Sighted, Underway, Tried, Sent
<1>9. QED
  BY <1>1, <1>2, <1>4, <1>5, <1>6, <1>7, <1>8 DEF Next, Step

\* Whatever the target answers, a detector's findings, and what it has still to
\* ask, follow from what it has asked and heard.
THEOREM DetectorInvariance == Spec => []IInv
  BY InitIInv, StepIInv, PTL DEF Spec

-----------------------------------------------------------------------------
(* The properties *)

\* Every reachable state is well typed.
THEOREM DetectorTypes == Spec => []TypeOK
<1>1. IInv => TypeOK
  BY DEF IInv
<1>2. QED
  BY <1>1, DetectorInvariance, PTL

\* A prober that returns has missed no parameter for lack of asking.
THEOREM ProbersAreThorough == Spec => []Thorough
<1>1. IInv => Thorough
  BY DEF IInv, Thorough
<1>2. QED
  BY <1>1, DetectorInvariance, PTL

\* A parameter is reported once, and on evidence.
THEOREM ParametersReportedOnce == Spec => []ReportedOnce
<1>1. ASSUME IInv PROVE ReportedOnce
  <2>1. SUFFICES ASSUME detector \in Prober
                 PROVE  \A p \in 1 .. Params[detector] : Cardinality(Of(p, found)) <= 1
    BY <1>1 DEF ReportedOnce, IInv, Reported
  <2>2. ASSUME NEW p \in 1 .. Params[detector] PROVE Cardinality(Of(p, found)) <= 1
    <3>1. CASE Of(p, found) = {}
      BY <3>1, FS_EmptySet
    <3>2. ASSUME NEW s \in Of(p, found) PROVE Cardinality(Of(p, found)) <= 1
      <4>1. found \subseteq Request(detector) /\ Reported
        BY <1>1, <2>1 DEF IInv, TypeOK
      <4>2. Of(p, found) = {s}
        BY <3>2, <4>1 DEF Of, Reported
      <4>3. Cardinality({s}) = 1
        BY FS_Singleton
      <4>4. QED
        BY <4>2, <4>3
    <3>3. QED
      BY <3>1, <3>2
  <2>3. QED
    BY <2>2
<1>2. QED
  BY <1>1, DetectorInvariance, PTL

\* No request is sent twice, and none for a parameter that has been reported.
THEOREM ProbersAreEconomical == Spec => Economical
<1>1. ASSUME IInv, [Next]_vars, NEW r \in DOMAIN heard, heard'[r] # heard[r]
      PROVE  heard[r] = "unsent" /\ (detector \in Prober => Of(r[1], found) = {})
  <2>1. CASE Probe
    <3>1. PICK answer \in Answer(detector), hit \in BOOLEAN : SendTo(answer, hit)
      BY <1>1, <2>1, ProbeIsSend
    <3>2. pc = "probe" /\ detector \in Prober
      BY <1>1, <2>1 DEF IInv, Probe, ProbeSql, ProbeXss, ProbeTraversal, ProbeMethod, Send
    <3>3. /\ at \in Request(detector) /\ found \subseteq Request(detector)
          /\ heard \in [Request(detector) -> Answer(detector) \union {"unsent"}]
      BY <1>1, <3>2 DEF IInv, TypeOK
    <3>4. r = at
      BY <1>1, <3>1, <3>3 DEF SendTo
    <3>5. ~Before(at, at)
      BY <3>2, <3>3, RequestParts DEF Before
    <3>6. QED
      BY <1>1, <3>2, <3>3, <3>4, <3>5 DEF IInv, Underway, Of
  <2>2. ASSUME NEW verdicts, Judges(verdicts), detector \in Judge
        PROVE  heard[r] = "unsent" /\ (detector \in Prober => Of(r[1], found) = {})
    <3>1. heard \in [{First} -> {"unsent", "seen", "lost"}] /\ detector \notin Prober /\ pc = "judge"
      BY <1>1, <2>2, Probers DEF IInv, TypeOK, Judges
    <3>2. heard[First] = "unsent"
      BY <1>1, <2>2, <3>1 DEF IInv
    <3>3. QED
      BY <3>1, <3>2
  <2>3. CASE JudgeHeaders \/ JudgeTls \/ JudgeSsh
    BY <2>2, <2>3 DEF JudgeHeaders, JudgeTls, JudgeSsh, Judge
  <2>4. QED
    BY <1>1, <2>1, <2>3 DEF Next, Step, Options, Raise, vars
<1>2. IInv /\ [Next]_vars =>
        [\A r \in DOMAIN heard : heard'[r] # heard[r] =>
           heard[r] = "unsent" /\ (detector \in Prober => Of(r[1], found) = {})]_vars
  BY <1>1
<1>3. QED
  BY <1>2, DetectorInvariance, PTL DEF Spec, Economical

\* What a judge reports of headers and of OpenSSH is what the target sends.
THEOREM JudgesAreTrue == Spec => []Judged
<1>1. ASSUME IInv, detector \in Judge, pc = "returned", heard[First] = "seen"
      PROVE  Judged
  <2>1. Sighted
    BY <1>1 DEF IInv
  <2>2. ASSUME detector = "Headers"
        PROVE  /\ \A h \in Required : h \in site \/ [kind |-> "missing", header |-> h] \in found
               /\ \A h \in Disclosing :
                    h \in site <=> [kind |-> "disclosed", header |-> h] \in found
    <3>1. found = HeaderVerdicts(site)
      BY <1>1, <2>1, <2>2 DEF Sighted
    <3>2. ASSUME NEW h \in Required, h \notin site
          PROVE  [kind |-> "missing", header |-> h] \in found
      BY <3>1, <3>2 DEF HeaderVerdicts
    <3>3. ASSUME NEW h \in Disclosing
          PROVE  h \in site <=> [kind |-> "disclosed", header |-> h] \in found
      BY <3>1 DEF HeaderVerdicts
    <3>4. QED
      BY <3>2, <3>3
  <2>3. ASSUME detector = "SSH", site.software = "OpenSSH"
        PROVE  [kind |-> "outdated"] \in found
                 <=> 100 * site.version[1] + site.version[2] < 704
    <3>1. found = SshVerdicts(site)
      BY <1>1, <2>1, <2>3 DEF Sighted
    <3>2. [kind |-> "outdated"] \in found <=> Outdated(site.version)
      BY <2>3, <3>1 DEF SshVerdicts
    <3>3. site.version[1] \in Nat /\ site.version[2] \in 0 .. 99
      BY <1>1, <2>3, VersionsAssumption DEF IInv, TypeOK, Site
    <3>4. QED
      BY <3>2, <3>3 DEF Outdated
  <2>4. QED
    BY <2>2, <2>3 DEF Judged
<1>2. IInv => Judged
  BY <1>1 DEF Judged
<1>3. QED
  BY <1>2, DetectorInvariance, PTL

-----------------------------------------------------------------------------
(* Induction *)

LEMMA Induction ==
  ASSUME NEW S \in SUBSET Nat, 0 \in S, \A n \in S : n + 1 \in S
  PROVE  S = Nat
<1> SUFFICES ASSUME Nat \ S # {} PROVE FALSE
  OBVIOUS
<1> DEFINE R == OpToRel(<, Nat)
<1>1. PICK x \in Nat \ S : \A y \in Nat \ S : <<y, x>> \notin R
  <2> HIDE DEF R
  <2>1. IsWellFoundedOn(R, Nat)
    BY NatLessThanWellFounded, Zenon DEF R
  <2>2. QED
    BY <2>1, WFMin, Zenon
<1>2. x - 1 \in Nat /\ x - 1 < x
  OBVIOUS
<1>3. <<x - 1, x>> \in R
  BY <1>2, Zenon DEF OpToRel
<1>4. x - 1 \in S
  BY <1>1, <1>2, <1>3
<1>5. (x - 1) + 1 \in S
  BY <1>4
<1>6. QED
  BY <1>2, <1>5

\* A set of subsets of S is all of them if it has each that it has without any
\* one of its elements.
LEMMA SubsetInduction ==
  ASSUME NEW S, IsFiniteSet(S), NEW P \in SUBSET SUBSET S,
         \A T \in SUBSET S : (\A x \in T : T \ {x} \in P) => T \in P
  PROVE  P = SUBSET S
<1> DEFINE Q == {n \in Nat : \A T \in SUBSET S : Cardinality(T) = n => T \in P}
<1>1. 0 \in Q
  <2>1. ASSUME NEW T \in SUBSET S, Cardinality(T) = 0 PROVE T \in P
    <3>1. T = {}
      BY <2>1, FS_Subset, FS_EmptySet
    <3>2. QED
      BY <3>1
  <2>2. QED
    BY <2>1
<1>2. ASSUME NEW n \in Q PROVE n + 1 \in Q
  <2>1. ASSUME NEW T \in SUBSET S, Cardinality(T) = n + 1, NEW x \in T
        PROVE  T \ {x} \in P
    <3>1. IsFiniteSet(T)
      BY FS_Subset
    <3>2. Cardinality(T \ {x}) = Cardinality(T) - 1
      BY <2>1, <3>1, FS_RemoveElement
    <3>3. Cardinality(T \ {x}) = n /\ T \ {x} \in SUBSET S
      BY <2>1, <3>2
    <3>4. QED
      BY <3>3
  <2>2. QED
    BY <2>1
<1>3. Q = Nat
  <2> HIDE DEF Q
  <2>1. QED
    BY <1>1, <1>2, Induction DEF Q
<1>4. ASSUME NEW T \in SUBSET S PROVE T \in P
  <2>1. Cardinality(T) \in Nat
    BY FS_Subset, FS_CardinalityType
  <2>2. QED
    BY <1>3, <2>1
<1>5. QED
  BY <1>4

-----------------------------------------------------------------------------
(* The sum of the weighted scores, which is defined by taking one finding   *)
(* after the other out of the set, does not depend on which is taken.       *)

Weighs(S) == IsFiniteSet(S) /\ \A f \in S : Weighted(f) \in Nat

Some(s) == CHOOSE x \in s : TRUE

Sum(g, s) == IF s = {} THEN 0 ELSE Weighted(Some(s)) + g[s \ {Some(s)}]

Sums(g, S) == g = [s \in SUBSET S |-> Sum(g, s)]

LEMMA SumsIsSum ==
  ASSUME NEW S, NEW g, Sums(g, S), NEW s \in SUBSET S
  PROVE  g[s] = Sum(g, s)
<1>1. [t \in SUBSET S |-> Sum(g, t)][s] = Sum(g, s)
  OBVIOUS
<1>2. QED
  BY <1>1, Zenon DEF Sums

LEMMA SomethingSums ==
  ASSUME NEW S, Weighs(S)
  PROVE  \E g \in [SUBSET S -> Nat] : Sums(g, S)
<1> DEFINE Right(g, n) == \A s \in SUBSET S : Cardinality(s) <= n => g[s] = Sum(g, s)
           Q == {n \in Nat : \E g \in [SUBSET S -> Nat] : Right(g, n)}
<1>1. \A s \in SUBSET S : IsFiniteSet(s) /\ Cardinality(s) \in Nat
  BY FS_Subset, FS_CardinalityType DEF Weighs
<1>2. 0 \in Q
  <2>1. [s \in SUBSET S |-> 0] \in [SUBSET S -> Nat]
    OBVIOUS
  <2>2. ASSUME NEW s \in SUBSET S, Cardinality(s) <= 0 PROVE s = {}
    BY <1>1, <2>2, FS_EmptySet
  <2>3. Right([s \in SUBSET S |-> 0], 0)
    BY <2>2 DEF Sum
  <2>4. QED
    BY <2>1, <2>3
<1>3. ASSUME NEW n \in Q PROVE n + 1 \in Q
  <2>1. PICK g \in [SUBSET S -> Nat] : Right(g, n)
    OBVIOUS
  <2> DEFINE h == [s \in SUBSET S |-> Sum(g, s)]
  <2>2. ASSUME NEW s \in SUBSET S PROVE Sum(g, s) \in Nat
    <3>1. CASE s = {}
      BY <3>1 DEF Sum
    <3>2. CASE s # {}
      <4>1. Some(s) \in s /\ s \ {Some(s)} \in SUBSET S
        BY <3>2 DEF Some
      <4>2. Weighted(Some(s)) \in Nat /\ g[s \ {Some(s)}] \in Nat
        BY <4>1 DEF Weighs
      <4>3. QED
        BY <3>2, <4>2 DEF Sum
    <3>3. QED
      BY <3>1, <3>2
  <2>3. h \in [SUBSET S -> Nat]
    BY <2>2
  <2>4. ASSUME NEW s \in SUBSET S, Cardinality(s) <= n + 1
        PROVE  h[s] = Sum(h, s)
    <3>1. CASE s = {}
      BY <3>1 DEF Sum
    <3>2. CASE s # {}
      <4> DEFINE t == s \ {Some(s)}
      <4>1. Some(s) \in s /\ t \in SUBSET S
        BY <3>2 DEF Some
      <4>2. Cardinality(t) = Cardinality(s) - 1
        BY <1>1, <4>1, FS_RemoveElement
      <4>3. Cardinality(t) <= n
        BY <1>1, <2>4, <4>2
      <4>4. g[t] = h[t]
        BY <2>1, <4>1, <4>3
      <4>5. QED
        BY <3>2, <4>4 DEF Sum
    <3>3. QED
      BY <3>1, <3>2
  <2>5. Right(h, n + 1)
    BY <2>4
  <2>6. \E k \in [SUBSET S -> Nat] : Right(k, n + 1)
    <3> HIDE DEF h, Right
    <3>1. QED
      BY <2>3, <2>5
  <2>7. QED
    BY <2>6
<1>4. Q = Nat
  <2> HIDE DEF Q
  <2>1. QED
    BY <1>2, <1>3, Induction DEF Q
<1>5. PICK g \in [SUBSET S -> Nat] : Right(g, Cardinality(S))
  BY <1>1, <1>4
<1>6. \A s \in SUBSET S : Cardinality(s) <= Cardinality(S)
  BY FS_Subset DEF Weighs
<1>7. g = [s \in SUBSET S |-> Sum(g, s)]
  BY <1>5, <1>6
<1>8. QED
  BY <1>7 DEF Sums

LEMMA SumsAgree ==
  ASSUME NEW S, Weighs(S), NEW T \in SUBSET S, NEW g, Sums(g, S), NEW h, Sums(h, T)
  PROVE  g[T] = h[T]
<1> DEFINE P == {s \in SUBSET T : g[s] = h[s]}
<1>1. IsFiniteSet(T)
  BY FS_Subset DEF Weighs
<1>2. ASSUME NEW s \in SUBSET T, \A x \in s : s \ {x} \in P
      PROVE  s \in P
  <2>1. g[s] = Sum(g, s) /\ h[s] = Sum(h, s)
    BY SumsIsSum
  <2>2. s # {} => Some(s) \in s
    BY DEF Some
  <2>3. Sum(g, s) = Sum(h, s)
    BY <1>2, <2>2 DEF Sum
  <2>4. QED
    BY <2>1, <2>3
<1>3. P = SUBSET T
  <2> HIDE DEF P
  <2>1. P \in SUBSET SUBSET T
    BY DEF P
  <2>2. QED
    BY <1>1, <1>2, <2>1, SubsetInduction
<1>4. QED
  BY <1>3

LEMMA TotalSums ==
  ASSUME NEW S, Weighs(S)
  PROVE  \E g : Sums(g, S) /\ Total(S) = g[S]
<1> DEFINE g == CHOOSE it : Sums(it, S)
<1>1. Sums(g, S)
  BY SomethingSums, Zenon
<1>2. Total(S) = g[S]
  BY DEF Total, MapThenSumSet, MapThenFoldSet, Sums, Sum, Some
<1>3. QED
  BY <1>1, <1>2, Zenon

LEMMA TotalIs ==
  ASSUME NEW S, Weighs(S)
  PROVE  /\ Total(S) \in Nat
         /\ S = {} => Total(S) = 0
         /\ S # {} => Total(S) = Weighted(Some(S)) + Total(S \ {Some(S)})
<1>1. PICK g \in [SUBSET S -> Nat] : Sums(g, S)
  BY SomethingSums
<1>2. ASSUME NEW T \in SUBSET S PROVE Total(T) = g[T]
  <2>1. Weighs(T)
    BY FS_Subset DEF Weighs
  <2>2. PICK h : Sums(h, T) /\ Total(T) = h[T]
    BY <2>1, TotalSums
  <2>3. QED
    BY <1>1, <2>2, SumsAgree
<1>3. Total(S) = Sum(g, S)
  BY <1>1, <1>2, SumsIsSum
<1>4. QED
  BY <1>1, <1>2, <1>3 DEF Sum

\* Whichever finding is taken out.
LEMMA TotalStep ==
  ASSUME NEW S, Weighs(S), NEW x \in S
  PROVE  Total(S) = Weighted(x) + Total(S \ {x})
<1> DEFINE P == {T \in SUBSET S : \A y \in T : Total(T) = Weighted(y) + Total(T \ {y})}
<1>1. \A T \in SUBSET S : Weighs(T)
  BY FS_Subset DEF Weighs
<1>2. ASSUME NEW T \in SUBSET S, \A y \in T : T \ {y} \in P, NEW y \in T
      PROVE  Total(T) = Weighted(y) + Total(T \ {y})
  <2> DEFINE c == Some(T)
  <2>1. c \in T
    BY DEF Some
  <2>2. Total(T) = Weighted(c) + Total(T \ {c})
    BY <1>1, TotalIs
  <2>3. CASE c = y
    BY <2>2, <2>3
  <2>4. CASE c # y
    <3>1. y \in T \ {c} /\ c \in T \ {y} /\ T \ {y, c} \in SUBSET S
      BY <2>1, <2>4
    <3>2. T \ {c} \in P /\ T \ {y} \in P
      BY <1>2, <2>1
    <3>3. Total(T \ {c}) = Weighted(y) + Total((T \ {c}) \ {y})
      BY <3>1, <3>2
    <3>4. Total(T \ {y}) = Weighted(c) + Total((T \ {y}) \ {c})
      BY <3>1, <3>2
    <3>5. (T \ {c}) \ {y} = T \ {y, c} /\ (T \ {y}) \ {c} = T \ {y, c}
      OBVIOUS
    <3>6. Weighted(c) \in Nat /\ Weighted(y) \in Nat /\ Total(T \ {y, c}) \in Nat
      BY <1>1, <2>1, <3>1, TotalIs DEF Weighs
    <3>7. QED
      BY <2>2, <3>3, <3>4, <3>5, <3>6
  <2>5. QED
    BY <2>3, <2>4
<1>3. P = SUBSET S
  <2>1. \A T \in SUBSET S : (\A y \in T : T \ {y} \in P) => T \in P
    BY <1>2
  <2> HIDE DEF P
  <2>2. P \in SUBSET SUBSET S
    BY DEF P
  <2>3. QED
    BY <2>1, <2>2, SubsetInduction DEF Weighs
<1>4. QED
  BY <1>3

LEMMA TotalBound ==
  ASSUME NEW S, Weighs(S), NEW b \in Nat, \A f \in S : Weighted(f) <= b
  PROVE  Total(S) <= Cardinality(S) * b
<1> DEFINE P == {T \in SUBSET S : Total(T) <= Cardinality(T) * b}
<1>1. \A T \in SUBSET S : Weighs(T) /\ IsFiniteSet(T) /\ Cardinality(T) \in Nat
  BY FS_Subset, FS_CardinalityType DEF Weighs
<1>2. ASSUME NEW T \in SUBSET S, \A y \in T : T \ {y} \in P
      PROVE  Total(T) <= Cardinality(T) * b
  <2>1. CASE T = {}
    <3>1. Total(T) = 0 /\ Cardinality(T) = 0
      BY <1>1, <2>1, TotalIs, FS_EmptySet
    <3>2. QED
      BY <3>1
  <2>2. ASSUME NEW y \in T PROVE Total(T) <= Cardinality(T) * b
    <3> DEFINE R == T \ {y}
    <3>1. Total(T) = Weighted(y) + Total(R)
      BY <1>1, TotalStep
    <3>2. Cardinality(R) = Cardinality(T) - 1
      BY <1>1, <2>2, FS_RemoveElement
    <3>3. R \in SUBSET S /\ Total(R) <= Cardinality(R) * b
      BY <1>2
    <3>4. Total(R) \in Nat /\ Weighted(y) \in Nat /\ Weighted(y) <= b /\ Cardinality(T) \in Nat
      BY <1>1, <3>3, TotalIs DEF Weighs
    <3>5. Cardinality(R) * b + b = Cardinality(T) * b
      BY <3>2, <3>4
    <3>6. Cardinality(T) * b \in Nat /\ Cardinality(R) * b \in Int
      BY <3>2, <3>4
    <3> HIDE DEF R
    <3>7. QED
      BY <3>1, <3>3, <3>4, <3>5, <3>6
  <2>3. QED
    BY <2>1, <2>2
<1>3. P = SUBSET S
  <2>1. \A T \in SUBSET S : (\A y \in T : T \ {y} \in P) => T \in P
    BY <1>2
  <2> HIDE DEF P
  <2>2. P \in SUBSET SUBSET S
    BY DEF P
  <2>3. QED
    BY <2>1, <2>2, SubsetInduction DEF Weighs
<1>4. QED
  BY <1>3

-----------------------------------------------------------------------------
(* Findings and their parts *)

Reduced(F) == {Restored(f) : f \in F}
Told(F)    == {Explain(f) : f \in F}

LEMMA FindingParts ==
  ASSUME NEW f, IsFinding(f)
  PROVE  f = [source |-> f.source, type |-> f.type, severity |-> f.severity,
              score |-> f.score, own |-> f.own, advice |-> f.advice,
              evidence |-> f.evidence]
  BY DEF IsFinding, Made

LEMMA RestoredParts ==
  ASSUME NEW f, IsFinding(f)
  PROVE  Restored(f) = [source |-> f.source, type |-> f.type, severity |-> f.severity,
                        score |-> f.score, own |-> f.own, advice |-> f.advice,
                        evidence |-> FALSE]
<1> DEFINE r == [source |-> f.source, type |-> f.type, severity |-> f.severity,
                 score |-> f.score, own |-> f.own, advice |-> f.advice,
                 evidence |-> f.evidence]
<1>1. f = r
  BY FindingParts
<1>2. [f EXCEPT !.evidence = FALSE] = [r EXCEPT !.evidence = FALSE]
  BY <1>1, Zenon
<1>3. ASSUME NEW e
      PROVE  [r EXCEPT !.evidence = e]
             = [source |-> f.source, type |-> f.type, severity |-> f.severity,
                score |-> f.score, own |-> f.own, advice |-> f.advice, evidence |-> e]
  OBVIOUS
<1>4. QED
  BY <1>2, <1>3, Zenon DEF Restored

LEMMA RestoredIsFinding ==
  ASSUME NEW f, IsFinding(f)
  PROVE  /\ IsFinding(Restored(f))
         /\ Restored(f).source = f.source /\ Restored(f).severity = f.severity
         /\ Weighted(Restored(f)) = Weighted(f)
  BY RestoredParts DEF IsFinding, Made, Weighted, ScoreOf

LEMMA FindingWeight ==
  ASSUME NEW f, IsFinding(f)
  PROVE  /\ ScoreOf(f) \in Nat /\ Weighted(f) \in Nat
         /\ Weighted(f) <= 10 * ScoreOf(f)
         /\ f.severity = "INFO" => Weighted(f) = 0
         /\ f.severity # "INFO" => Weighted(f) >= 2 * Lowest
<1>1. ScoreOf(f) \in Nat /\ (f.severity # "INFO" => ScoreOf(f) >= Lowest)
  <2>1. f.score \in Nat /\ (f.severity # "INFO" => f.score >= Lowest)
    BY DEF IsFinding
  <2>2. QED
    BY <2>1, RateAssumption DEF ScoreOf
<1>2. /\ Weight[f.severity] \in 0 .. 10
      /\ f.severity = "INFO" => Weight[f.severity] = 0
      /\ f.severity # "INFO" => Weight[f.severity] >= 2
  BY DEF IsFinding, Weight, Severity
<1>3. ASSUME NEW s \in Nat, NEW w \in 0 .. 10
      PROVE  s * w \in Nat /\ s * w <= 10 * s /\ (w = 0 => s * w = 0) /\ (w >= 2 => s * w >= 2 * s)
  OBVIOUS
<1>4. QED
  BY <1>1, <1>2, <1>3, RateAssumption DEF Weighted

LEMMA FindingsWeigh ==
  ASSUME NEW F, AreFindings(F)
  PROVE  Weighs(F) /\ Cardinality(F) \in Nat /\ (F # {} => Cardinality(F) > 0)
  BY FindingWeight, FS_CardinalityType, FS_EmptySet DEF AreFindings, Weighs

\* Neither the way through the database nor the explanation makes two findings one.
LEMMA ReducedIs ==
  ASSUME NEW F, AreFindings(F)
  PROVE  AreFindings(Reduced(F)) /\ Cardinality(Reduced(F)) = Cardinality(F)
<1> DEFINE h == [f \in F |-> Restored(f)]
<1>1. \A f \in F : IsFinding(Restored(f)) /\ Restored(f).source = f.source
  BY RestoredIsFinding DEF AreFindings
<1>2. h \in Bijection(F, Reduced(F))
  <2>1. h \in [F -> Reduced(F)]
    BY DEF Reduced
  <2>2. \A f, g \in F : h[f] = h[g] => f = g
    BY <1>1 DEF AreFindings
  <2>3. \A r \in Reduced(F) : \E f \in F : h[f] = r
    BY DEF Reduced
  <2>4. QED
    BY <2>1, <2>2, <2>3 DEF Bijection, Injection, Surjection, IsInjective
<1>3. IsFiniteSet(Reduced(F)) /\ Cardinality(Reduced(F)) = Cardinality(F)
  BY <1>2, FS_Bijection DEF AreFindings, ExistsBijection
<1>4. \A r, q \in Reduced(F) : r.source = q.source => r = q
  BY <1>1 DEF Reduced, AreFindings
<1>5. QED
  BY <1>1, <1>3, <1>4 DEF AreFindings, Reduced

LEMMA ToldSize ==
  ASSUME NEW F, AreFindings(F)
  PROVE  IsFiniteSet(Told(F)) /\ Cardinality(Told(F)) = Cardinality(F)
<1> DEFINE h == [f \in F |-> Explain(f)]
<1>1. \A f \in F : Explain(f).source = f.source
  BY DEF Explain
<1>2. h \in Bijection(F, Told(F))
  <2>1. h \in [F -> Told(F)]
    BY DEF Told
  <2>2. \A f, g \in F : h[f] = h[g] => f = g
    BY <1>1 DEF AreFindings
  <2>3. \A r \in Told(F) : \E f \in F : h[f] = r
    BY DEF Told
  <2>4. QED
    BY <2>1, <2>2, <2>3 DEF Bijection, Injection, Surjection, IsInjective
<1>3. QED
  BY <1>2, FS_Bijection DEF AreFindings, ExistsBijection

LEMMA ReducedTotal ==
  ASSUME NEW F, AreFindings(F)
  PROVE  Total(Reduced(F)) = Total(F)
<1> DEFINE P == {T \in SUBSET F : Total(Reduced(T)) = Total(T)}
<1>1. \A T \in SUBSET F : AreFindings(T)
  BY FS_Subset DEF AreFindings
<1>2. ASSUME NEW T \in SUBSET F, \A y \in T : T \ {y} \in P
      PROVE  Total(Reduced(T)) = Total(T)
  <2>1. AreFindings(T) /\ AreFindings(Reduced(T)) /\ Weighs(T) /\ Weighs(Reduced(T))
    BY <1>1, ReducedIs, FindingsWeigh
  <2>2. CASE T = {}
    BY <2>2 DEF Reduced
  <2>3. ASSUME NEW y \in T PROVE Total(Reduced(T)) = Total(T)
    <3>1. Total(T) = Weighted(y) + Total(T \ {y})
      BY <2>1, TotalStep
    <3>2. Restored(y) \in Reduced(T)
      BY DEF Reduced
    <3>3. Total(Reduced(T)) = Weighted(Restored(y)) + Total(Reduced(T) \ {Restored(y)})
      BY <2>1, <3>2, TotalStep
    <3>4. \A f \in T : IsFinding(f) /\ Restored(f).source = f.source
      BY <2>1, RestoredIsFinding DEF AreFindings
    <3>5. Reduced(T) \ {Restored(y)} = Reduced(T \ {y})
      BY <2>1, <3>4 DEF Reduced, AreFindings
    <3>6. Weighted(Restored(y)) = Weighted(y)
      BY <3>4, RestoredIsFinding
    <3>7. Total(Reduced(T \ {y})) = Total(T \ {y})
      BY <1>2
    <3>8. QED
      BY <3>1, <3>3, <3>5, <3>6, <3>7
  <2>4. QED
    BY <2>2, <2>3
<1>3. P = SUBSET F
  <2>1. \A T \in SUBSET F : (\A y \in T : T \ {y} \in P) => T \in P
    BY <1>2
  <2> HIDE DEF P
  <2>2. P \in SUBSET SUBSET F
    BY DEF P
  <2>3. QED
    BY <2>1, <2>2, SubsetInduction DEF AreFindings
<1>4. QED
  BY <1>3

-----------------------------------------------------------------------------
(* The risk *)

LEMMA Quotient ==
  ASSUME NEW m \in Nat, NEW k \in Nat, k > 0
  PROVE  m \div k \in Nat /\ k * (m \div k) <= m /\ m < k * (m \div k) + k
  OBVIOUS

LEMMA MeanBounds ==
  ASSUME NEW t \in Nat, NEW n \in Nat, n > 0
  PROVE  /\ Mean(t, n) \in Nat
         /\ 2 * n * Mean(t, n) <= 2 * t + n /\ 2 * t + n < 2 * n * Mean(t, n) + 2 * n
<1>1. 2 * t + n \in Nat /\ 2 * n \in Nat /\ 2 * n > 0
  OBVIOUS
<1>2. QED
  BY <1>1, Quotient DEF Mean

LEMMA MeanZero ==
  ASSUME NEW t \in Nat, NEW n \in Nat, n > 0
  PROVE  (t = 0 => Mean(t, n) = 0) /\ (Mean(t, n) = 0 => 2 * t < n)
<1> DEFINE m == Mean(t, n)
<1>1. m \in Nat /\ 2 * n * m <= 2 * t + n /\ 2 * t + n < 2 * n * m + 2 * n
  BY MeanBounds
<1> HIDE DEF m
<1>2. CASE m = 0
  BY <1>1, <1>2 DEF m
<1>3. CASE m >= 1
  <2>1. n * m >= n
    BY <1>1, <1>3
  <2>2. 2 * n * m = 2 * (n * m) /\ n * m \in Nat
    BY <1>1
  <2>3. t # 0
    BY <1>1, <2>1, <2>2
  <2>4. QED
    BY <1>3, <2>3 DEF m
<1>4. QED
  BY <1>1, <1>2, <1>3

LEMMA MeanBelow ==
  ASSUME NEW t \in Nat, NEW n \in Nat, n > 0, NEW b \in Nat, t <= n * b
  PROVE  Mean(t, n) <= b
<1> DEFINE m == Mean(t, n)
<1>1. m \in Nat /\ 2 * n * m <= 2 * t + n
  BY MeanBounds
<1> HIDE DEF m
<1>2. SUFFICES ASSUME m >= b + 1 PROVE FALSE
  BY <1>1 DEF m
<1>3. n * m >= n * b + n
  <2>1. n * m >= n * (b + 1)
    BY <1>1, <1>2
  <2>2. n * (b + 1) = n * b + n
    OBVIOUS
  <2>3. QED
    BY <2>1, <2>2
<1>4. 2 * n * m = 2 * (n * m) /\ n * m \in Nat /\ n * b \in Nat
  BY <1>1
<1>5. QED
  BY <1>1, <1>3, <1>4

\* What RiskSound says of an assessment.
RiskIsSound(F, risk) ==
  /\ (\A f \in F : f.severity = "INFO") => risk = 0
  /\ risk = 0 /\ Cardinality(F) < 4 * Lowest => \A f \in F : f.severity = "INFO"
  /\ F # {} => \E f \in F : risk <= 10 * ScoreOf(f)

LEMMA RiskOfFindings ==
  ASSUME NEW F, AreFindings(F)
  PROVE  RiskIsSound(F, RiskScore(F))
<1>1. CASE F = {}
  BY <1>1 DEF RiskIsSound, RiskScore
<1>2. CASE F # {}
  <2> DEFINE n    == Cardinality(F)
             t    == Total(F)
             risk == RiskScore(F)
  <2>1. \A f \in F : IsFinding(f)
    BY DEF AreFindings
  <2>2. Weighs(F) /\ n \in Nat /\ n > 0 /\ t \in Nat
    BY <1>2, FindingsWeigh, TotalIs
  <2>3. risk = Least(1000, Mean(t, n))
    BY <1>2 DEF RiskScore
  <2> HIDE DEF n, t, risk
  <2>4. Mean(t, n) \in Nat /\ risk \in Nat /\ risk <= Mean(t, n) /\ (risk = 0 <=> Mean(t, n) = 0)
    <3>1. Mean(t, n) \in Nat
      BY <2>2, MeanBounds
    <3>2. QED
      BY <2>3, <3>1 DEF Least
  <2>5. ASSUME \A f \in F : f.severity = "INFO" PROVE risk = 0
    <3>1. \A f \in F : Weighted(f) <= 0
      BY <2>1, <2>5, FindingWeight
    <3>2. t <= n * 0
      BY <2>2, <3>1, TotalBound DEF n, t
    <3>3. t = 0
      BY <2>2, <3>2
    <3>4. QED
      BY <2>2, <2>4, <3>3, MeanZero
  <2>6. ASSUME risk = 0, n < 4 * Lowest, NEW f \in F, f.severity # "INFO" PROVE FALSE
    <3>1. Weighted(f) \in Nat /\ Weighted(f) >= 2 * Lowest
      BY <2>1, <2>6, FindingWeight
    <3>2. Weighs(F \ {f})
      BY <2>2, FS_RemoveElement DEF Weighs
    <3>3. t = Weighted(f) + Total(F \ {f}) /\ Total(F \ {f}) \in Nat
      BY <2>2, <3>2, TotalStep, TotalIs DEF t
    <3>4. 2 * t < n
      BY <2>2, <2>4, <2>6, MeanZero
    <3>5. QED
      BY <2>2, <2>6, <3>1, <3>3, <3>4, RateAssumption
  <2>7. ASSUME \A f \in F : risk > 10 * ScoreOf(f) PROVE FALSE
    <3>1. PICK f \in F : TRUE
      BY <1>2
    <3>2. \A g \in F : Weighted(g) \in Nat /\ ScoreOf(g) \in Nat /\ Weighted(g) <= 10 * ScoreOf(g)
      BY <2>1, FindingWeight
    <3>3. risk - 1 \in Nat /\ \A g \in F : Weighted(g) <= risk - 1
      BY <2>4, <2>7, <3>1, <3>2
    <3>4. t <= n * (risk - 1)
      BY <2>2, <3>3, TotalBound DEF n, t
    <3>5. Mean(t, n) <= risk - 1
      BY <2>2, <3>3, <3>4, MeanBelow
    <3>6. QED
      BY <2>4, <3>5
  <2>8. \A f \in F : ScoreOf(f) \in Nat
    BY <2>1, FindingWeight
  <2>9. \E f \in F : risk <= 10 * ScoreOf(f)
    BY <2>4, <2>7, <2>8
  <2>10. QED
    BY <1>2, <2>5, <2>6, <2>9 DEF RiskIsSound, n, risk
<1>3. QED
  BY <1>1, <1>2

LEMMA AssessmentRisk ==
  ASSUME NEW F, AreFindings(F)
  PROVE  RiskIsSound(Assess(F).explained, Assess(F).risk)
<1>1. Assess(F).explained = Told(F) /\ Assess(F).risk = RiskScore(F)
  BY DEF Assess, Told
<1>2. Cardinality(Told(F)) = Cardinality(F)
  BY ToldSize
<1>3. \A f : /\ Explain(f).severity = f.severity /\ Explain(f).score = f.score
             /\ ScoreOf(Explain(f)) = ScoreOf(f)
  BY DEF Explain, ScoreOf
<1>4. RiskIsSound(F, RiskScore(F))
  BY RiskOfFindings
<1>5. QED
  BY <1>1, <1>2, <1>3, <1>4 DEF RiskIsSound, Told

-----------------------------------------------------------------------------
(* The report *)

LEMMA ReducedSummary ==
  ASSUME NEW F, AreFindings(F)
  PROVE  Summary(Reduced(F)) = Summary(F)
<1>1. ASSUME NEW s \in Severity
      PROVE  Cardinality({r \in Reduced(F) : r.severity = s})
             = Cardinality({f \in F : f.severity = s})
  <2> DEFINE G == {f \in F : f.severity = s}
  <2>1. AreFindings(G)
    BY FS_Subset DEF AreFindings
  <2>2. \A f \in F : Restored(f).severity = f.severity
    BY RestoredIsFinding DEF AreFindings
  <2>3. {r \in Reduced(F) : r.severity = s} = Reduced(G)
    BY <2>2 DEF Reduced
  <2>4. QED
    BY <2>1, <2>3, ReducedIs
<1>2. QED
  BY <1>1 DEF Summary

LEMMA ReducedTold ==
  ASSUME NEW F, AreFindings(F)
  PROVE  Told(Reduced(F)) = {[t EXCEPT !.evidence = FALSE] : t \in Told(F)}
<1>1. ASSUME NEW f, IsFinding(f)
      PROVE  Explain(Restored(f)) = [Explain(f) EXCEPT !.evidence = FALSE]
  <2> DEFINE plain       == IF f.type \in Plain THEN "sentence" ELSE "default"
             description == IF f.type \in KnowledgeBase THEN "knowledge base" ELSE "technical"
             explanation(e) ==
               [source |-> f.source, type |-> f.type, severity |-> f.severity,
                score |-> f.score, fix |-> f.advice, evidence |-> e,
                plain |-> plain, description |-> description]
  <2>1. Explain(f) = explanation(f.evidence)
    BY DEF Explain
  <2>2. ASSUME NEW r,
               r = [source |-> f.source, type |-> f.type, severity |-> f.severity,
                    score |-> f.score, own |-> f.own, advice |-> f.advice,
                    evidence |-> FALSE]
        PROVE  Explain(r) = explanation(FALSE)
    BY <2>2 DEF Explain
  <2>3. Explain(Restored(f)) = explanation(FALSE)
    BY <2>2, RestoredParts, <1>1
  <2>4. ASSUME NEW e PROVE [explanation(f.evidence) EXCEPT !.evidence = e] = explanation(e)
    <3> HIDE DEF plain, description
    <3>1. QED
      OBVIOUS
  <2> HIDE DEF explanation
  <2>5. [Explain(f) EXCEPT !.evidence = FALSE] = [explanation(f.evidence) EXCEPT !.evidence = FALSE]
    BY <2>1, Zenon
  <2>6. QED
    BY <2>3, <2>4, <2>5, Zenon
<1> DEFINE less(t) == [t EXCEPT !.evidence = FALSE]
<1>2. \A f \in F : Explain(Restored(f)) = less(Explain(f))
  BY <1>1 DEF AreFindings
<1> HIDE DEF less
<1>3. Told(Reduced(F)) = {less(t) : t \in Told(F)}
  BY <1>2 DEF Told, Reduced
<1>4. QED
  BY <1>3, Zenon DEF less

\* What ReportAgrees says of the assessment of the rows.
LEMMA ReportOfRows ==
  ASSUME NEW F, AreFindings(F)
  PROVE  LET r == Assess(Reduced(F))
             t == Assess(F)
         IN /\ r.summary = t.summary /\ r.risk = t.risk
            /\ r.explained = {[f EXCEPT !.evidence = FALSE] : f \in t.explained}
<1>1. /\ Assess(F).explained = Told(F) /\ Assess(Reduced(F)).explained = Told(Reduced(F))
      /\ Assess(F).risk = RiskScore(F) /\ Assess(Reduced(F)).risk = RiskScore(Reduced(F))
      /\ Assess(F).summary = Summary(F) /\ Assess(Reduced(F)).summary = Summary(Reduced(F))
  BY DEF Assess, Told
<1>2. RiskScore(Reduced(F)) = RiskScore(F)
  <2>1. Reduced(F) = {} <=> F = {}
    BY DEF Reduced
  <2>2. QED
    BY <2>1, ReducedIs, ReducedTotal DEF RiskScore
<1>3. QED
  BY <1>1, <1>2, ReducedSummary, ReducedTold, Zenon

-----------------------------------------------------------------------------
(* What the detectors and the port scan bring are findings *)

LEMMA FiniteImage ==
  ASSUME NEW S, IsFiniteSet(S), NEW h, NEW T, \A y \in T : \E x \in S : y = h[x]
  PROVE  IsFiniteSet(T)
<1> DEFINE U == {h[x] : x \in S}
           k == [x \in S |-> h[x]]
<1>1. k \in Surjection(S, U)
  BY DEF Surjection
<1>2. IsFiniteSet(U)
  BY <1>1, FS_Surjection
<1>3. T \in SUBSET U
  OBVIOUS
<1>4. QED
  BY <1>2, <1>3, FS_Subset

LEMMA UpToFinite ==
  ASSUME NEW n \in Int
  PROVE  IsFiniteSet(1 .. n)
  BY FS_Interval

LEMMA RequestsFinite ==
  ASSUME NEW d \in Prober
  PROVE  IsFiniteSet(Request(d))
<1> DEFINE A == 1 .. Params[d]
           B == 1 .. Payloads[d]
           C == 1 .. Variants[d]
           h == [x \in (A \X B) \X C |-> <<x[1][1], x[1][2], x[2]>>]
<1>1. IsFiniteSet(A) /\ IsFiniteSet(B) /\ IsFiniteSet(C)
  <2>1. Params[d] \in Int /\ Payloads[d] \in Int /\ Variants[d] \in Int
    BY Counts
  <2>2. QED
    BY <2>1, UpToFinite
<1> HIDE DEF A, B, C
<1>2. IsFiniteSet((A \X B) \X C)
  BY <1>1, FS_Product
<1>3. ASSUME NEW r \in A \X B \X C PROVE \E x \in (A \X B) \X C : r = h[x]
  <2>1. <<<<r[1], r[2]>>, r[3]>> \in (A \X B) \X C /\ r = <<r[1], r[2], r[3]>>
    OBVIOUS
  <2>2. h[<<<<r[1], r[2]>>, r[3]>>] = <<r[1], r[2], r[3]>>
    BY <2>1
  <2>3. QED
    BY <2>1, <2>2
<1> HIDE DEF h
<1>4. QED
  BY <1>2, <1>3, FiniteImage DEF Request, A, B, C

LEMMA VerdictsFinite == IsFiniteSet(Verdict)
<1> DEFINE M == [kind : {"missing"}, header : Required]
           D == [kind : {"disclosed"}, header : Disclosing]
           K == [kind : {"protocol", "cipher", "expired", "selfSigned", "ssh1", "outdated", "banner"}]
<1>1. IsFiniteSet(M)
  <2> DEFINE h == [x \in Required |-> [kind |-> "missing", header |-> x]]
  <2>1. \A y \in M : \E x \in Required : y = h[x]
    OBVIOUS
  <2> HIDE DEF M, h
  <2>2. QED
    BY <2>1, FiniteImage, HeadersAssumption
<1>2. IsFiniteSet(D)
  <2> DEFINE h == [x \in Disclosing |-> [kind |-> "disclosed", header |-> x]]
  <2>1. \A y \in D : \E x \in Disclosing : y = h[x]
    OBVIOUS
  <2> HIDE DEF D, h
  <2>2. QED
    BY <2>1, FiniteImage, HeadersAssumption
<1>3. IsFiniteSet(K)
  <2> DEFINE h == [x \in 1 .. 7 |-> [kind |-> IF x = 1 THEN "protocol" ELSE IF x = 2 THEN "cipher"
                                          ELSE IF x = 3 THEN "expired" ELSE IF x = 4 THEN "selfSigned"
                                          ELSE IF x = 5 THEN "ssh1" ELSE IF x = 6 THEN "outdated"
                                          ELSE "banner"]]
  <2>1. /\ h[1] = [kind |-> "protocol"] /\ h[2] = [kind |-> "cipher"]
        /\ h[3] = [kind |-> "expired"] /\ h[4] = [kind |-> "selfSigned"]
        /\ h[5] = [kind |-> "ssh1"] /\ h[6] = [kind |-> "outdated"] /\ h[7] = [kind |-> "banner"]
    OBVIOUS
  <2> HIDE DEF h
  <2>2. \A y \in K : \E x \in 1 .. 7 : y = h[x]
    BY <2>1
  <2>3. IsFiniteSet(1 .. 7)
    <3>1. PICK n \in Int : n = 7
      OBVIOUS
    <3>2. IsFiniteSet(1 .. n)
      BY UpToFinite
    <3>3. QED
      BY <3>1, <3>2, Zenon
  <2> HIDE DEF K
  <2>4. QED
    BY <2>2, <2>3, FiniteImage
<1>4. Verdict = M \union D \union K
  BY DEF Verdict
<1> HIDE DEF M, D, K
<1>5. QED
  BY <1>1, <1>2, <1>3, <1>4, FS_Union

LEMMA FoundFinite ==
  ASSUME IInv
  PROVE  IsFiniteSet(found)
<1>1. CASE detector \in Prober
  BY <1>1, RequestsFinite, FS_Subset DEF IInv, TypeOK
<1>2. CASE detector \in Judge
  BY <1>2, VerdictsFinite, FS_Subset DEF IInv, TypeOK
<1>3. QED
  BY <1>1, <1>2 DEF IInv, TypeOK, Detector

\* A severity with a score that the code may give it.
Rated(rate) ==
  /\ rate = <<rate[1], rate[2]>>
  /\ rate[1] \in Severity /\ rate[2] \in Nat
  /\ rate[1] # "INFO" => rate[2] >= Lowest

LEMMA Rates ==
  /\ Rated(<<"INFO", 0>>) /\ Rated(<<"LOW", 31>>) /\ Rated(<<"MEDIUM", 59>>)
  /\ Rated(<<"HIGH", 70>>) /\ Rated(<<"HIGH", 74>>) /\ Rated(<<"HIGH", 75>>)
  /\ Rated(<<"HIGH", 78>>) /\ Rated(<<"HIGH", 88>>) /\ Rated(<<"CRITICAL", 91>>)
  /\ \A rate \in Rate : Rated(rate)
<1>1. ASSUME NEW severity \in Severity, NEW score \in Nat, severity = "INFO" \/ score >= 31
      PROVE  Rated(<<severity, score>>)
  BY <1>1, RateAssumption DEF Rated
<1>2. \A rate \in Rate : Rated(rate)
  BY RateAssumption DEF Rate, Rated
<1>3. Severity = {"CRITICAL", "HIGH", "MEDIUM", "LOW", "INFO"}
  BY DEF Severity
<1> HIDE DEF Severity
<1>4. QED
  BY <1>1, <1>2, <1>3

\* What a detector or the pipeline makes is a finding, and carries its source.
LEMMA MadeIsFinding ==
  ASSUME NEW r, NEW source, NEW type, NEW rate, NEW own, NEW evidence,
         r = Made(source, type, rate, own, evidence), Rated(rate)
  PROVE  IsFinding(r) /\ r.source = source
<1>1. r = [source |-> source, type |-> type, severity |-> rate[1], score |-> rate[2],
           own |-> own, advice |-> "own", evidence |-> evidence]
  BY DEF Made
<1>2. /\ r.source = source /\ r.type = type /\ r.severity = rate[1] /\ r.score = rate[2]
      /\ r.own = own /\ r.advice = "own" /\ r.evidence = evidence
  BY <1>1
<1>3. r = Made(r.source, r.type, <<r.severity, r.score>>, r.own, r.evidence)
  BY <1>2, Zenon DEF Rated
<1>4. [r EXCEPT !.advice = "own"] = r
  BY <1>1
<1>5. [Made(r.source, r.type, <<r.severity, r.score>>, r.own, r.evidence)
         EXCEPT !.advice = r.advice] = r
  BY <1>2, <1>3, <1>4, Zenon
<1>6. IsFinding(r)
  BY <1>2, <1>5 DEF IsFinding, Rated
<1>7. QED
  BY <1>2, <1>6

OfScan == {"dangerous", "service", "alarm"}

LEMMA ProberFinding ==
  ASSUME detector \in Prober, NEW r \in Request(detector)
  PROVE  IsFinding(OfProber(r)) /\ OfProber(r).source = [kind |-> detector, request |-> r]
<1> DEFINE source == [kind |-> detector, request |-> r]
<1> HIDE DEF source
<1> SUFFICES IsFinding(OfProber(r)) /\ OfProber(r).source = source
  BY DEF source
<1>1. CASE detector = "SQLi"
  <2>1. OfProber(r) = Made(source, "SQL Injection", <<"HIGH", 88>>, 5, TRUE)
    BY <1>1 DEF OfProber, source
  <2>2. Rated(<<"HIGH", 88>>)
    BY Rates
  <2>3. QED
    BY <2>1, <2>2, MadeIsFinding, Zenon
<1>2. CASE detector = "XSS"
  <2>1. OfProber(r) = Made(source, "XSS", <<"HIGH", 74>>, 5, TRUE)
    BY <1>2 DEF OfProber, source
  <2>2. Rated(<<"HIGH", 74>>)
    BY Rates
  <2>3. QED
    BY <2>1, <2>2, MadeIsFinding, Zenon
<1>3. CASE detector = "DirTraversal"
  <2>1. OfProber(r) = Made(source, "Directory Traversal", <<"HIGH", 75>>, 4, TRUE)
    BY <1>3 DEF OfProber, source
  <2>2. Rated(<<"HIGH", 75>>)
    BY Rates
  <2>3. QED
    BY <2>1, <2>2, MadeIsFinding, Zenon
<1>4. CASE detector = "HTTPMethods"
  <2>1. PICK rate : rate = MethodRate[r[1]] /\ Rated(rate)
    BY <1>4, RequestParts, RateAssumption, Rates
  <2>2. OfProber(r) = Made(source, "Insecure HTTP Methods", rate, 4, FALSE)
    BY <1>4, <2>1 DEF OfProber, source
  <2>3. Rated(rate)
    BY <2>1
  <2>4. QED
    BY <2>2, <2>3, MadeIsFinding, Zenon
<1>5. QED
  BY <1>1, <1>2, <1>3, <1>4 DEF Prober

LEMMA JudgeFinding ==
  ASSUME NEW v \in Verdict
  PROVE  IsFinding(OfJudge(v)) /\ OfJudge(v).source = v
<1>1. /\ v.kind \in {"missing", "disclosed", "protocol", "cipher", "expired", "selfSigned",
                     "ssh1", "outdated", "banner"}
      /\ v.kind = "missing" => v.header \in Required
  BY DEF Verdict
<1>2. CASE v.kind = "missing"
  <2>1. OfJudge(v) = Made(v, "Missing Security Header", HeaderRate[v.header], 3, FALSE)
    BY <1>2 DEF OfJudge
  <2>2. Rated(HeaderRate[v.header])
    BY <1>1, <1>2, RateAssumption, Rates
  <2>3. QED
    BY <2>1, <2>2, MadeIsFinding, Zenon
<1>3. CASE v.kind \in {"disclosed", "banner"}
  <2>1. OfJudge(v) = Made(v, "Information Disclosure", <<"LOW", 31>>, 2, TRUE)
    BY <1>3 DEF OfJudge
  <2>2. Rated(<<"LOW", 31>>)
    BY Rates
  <2>3. QED
    BY <2>1, <2>2, MadeIsFinding, Zenon
<1>4. CASE v.kind = "protocol"
  <2>1. OfJudge(v) = Made(v, "Weak SSL/TLS Configuration", <<"HIGH", 75>>, 3, FALSE)
    BY <1>4 DEF OfJudge
  <2>2. Rated(<<"HIGH", 75>>)
    BY Rates
  <2>3. QED
    BY <2>1, <2>2, MadeIsFinding, Zenon
<1>5. CASE v.kind = "cipher"
  <2>1. OfJudge(v) = Made(v, "Weak SSL/TLS Configuration", <<"HIGH", 70>>, 3, FALSE)
    BY <1>5 DEF OfJudge
  <2>2. Rated(<<"HIGH", 70>>)
    BY Rates
  <2>3. QED
    BY <2>1, <2>2, MadeIsFinding, Zenon
<1>6. CASE v.kind = "expired"
  <2>1. OfJudge(v) = Made(v, "Weak SSL/TLS Configuration", <<"CRITICAL", 91>>, 2, FALSE)
    BY <1>6 DEF OfJudge
  <2>2. Rated(<<"CRITICAL", 91>>)
    BY Rates
  <2>3. QED
    BY <2>1, <2>2, MadeIsFinding, Zenon
<1>7. CASE v.kind = "selfSigned"
  <2>1. OfJudge(v) = Made(v, "Weak SSL/TLS Configuration", <<"MEDIUM", 59>>, 2, FALSE)
    BY <1>7 DEF OfJudge
  <2>2. Rated(<<"MEDIUM", 59>>)
    BY Rates
  <2>3. QED
    BY <2>1, <2>2, MadeIsFinding, Zenon
<1>8. CASE v.kind = "ssh1"
  <2>1. OfJudge(v) = Made(v, "Weak SSH Configuration", <<"CRITICAL", 91>>, 2, TRUE)
    BY <1>8 DEF OfJudge
  <2>2. Rated(<<"CRITICAL", 91>>)
    BY Rates
  <2>3. QED
    BY <2>1, <2>2, MadeIsFinding, Zenon
<1>9. CASE v.kind = "outdated"
  <2>1. OfJudge(v) = Made(v, "Weak SSH Configuration", <<"HIGH", 78>>, 2, TRUE)
    BY <1>9 DEF OfJudge
  <2>2. Rated(<<"HIGH", 78>>)
    BY Rates
  <2>3. QED
    BY <2>1, <2>2, MadeIsFinding, Zenon
<1>10. QED
  BY <1>1, <1>2, <1>3, <1>4, <1>5, <1>6, <1>7, <1>8, <1>9

LEMMA DetectorFindings ==
  ASSUME IInv
  PROVE  AreFindings(OfDetector) /\ \A f \in OfDetector : f.source.kind \notin OfScan
<1>1. CASE pc # "returned"
  BY <1>1, FS_EmptySet DEF OfDetector, AreFindings
<1>2. CASE pc = "returned" /\ detector \in Prober
  <2> DEFINE h == [r \in found |-> OfProber(r)]
  <2>1. found \subseteq Request(detector) /\ IsFiniteSet(found) /\ OfDetector = {OfProber(r) : r \in found}
    BY <1>2, FoundFinite DEF IInv, TypeOK, OfDetector
  <2>2. \A r \in found : IsFinding(OfProber(r))
                         /\ OfProber(r).source = [kind |-> detector, request |-> r]
    BY <1>2, <2>1, ProberFinding
  <2>3. IsFiniteSet(OfDetector)
    <3>1. \A y \in OfDetector : \E r \in found : y = h[r]
      BY <2>1
    <3> HIDE DEF h
    <3>2. QED
      BY <2>1, <3>1, FiniteImage
  <2>4. \A r : /\ [kind |-> detector, request |-> r].kind = detector
               /\ [kind |-> detector, request |-> r].request = r
    OBVIOUS
  <2>5. \A r \in found : OfProber(r).source.kind = detector /\ OfProber(r).source.request = r
    BY <2>2, <2>4, Zenon
  <2>6. /\ \A f, g \in OfDetector : f.source = g.source => f = g
        /\ \A f \in OfDetector : f.source.kind \notin OfScan
    BY <1>2, <2>1, <2>5 DEF Prober, OfScan
  <2>7. \A f \in OfDetector : IsFinding(f)
    BY <2>1, <2>2
  <2>8. QED
    BY <2>3, <2>6, <2>7 DEF AreFindings
<1>3. CASE pc = "returned" /\ detector \notin Prober
  <2> DEFINE h == [v \in found |-> OfJudge(v)]
  <2>1. found \subseteq Verdict /\ IsFiniteSet(found) /\ OfDetector = {OfJudge(v) : v \in found}
    BY <1>3, FoundFinite DEF IInv, TypeOK, OfDetector, Detector
  <2>2. \A v \in found : IsFinding(OfJudge(v)) /\ OfJudge(v).source = v
    BY <2>1, JudgeFinding
  <2>3. IsFiniteSet(OfDetector)
    <3>1. \A y \in OfDetector : \E v \in found : y = h[v]
      BY <2>1
    <3> HIDE DEF h
    <3>2. QED
      BY <2>1, <3>1, FiniteImage
  <2>4. \A v \in Verdict : v.kind \notin OfScan
    BY DEF Verdict, OfScan
  <2>5. QED
    BY <2>1, <2>2, <2>3, <2>4 DEF AreFindings
<1>4. QED
  BY <1>1, <1>2, <1>3

LEMMA ScanFindings ==
  ASSUME NEW scan \in PortScans
  PROVE  AreFindings(OfPorts(scan)) /\ \A f \in OfPorts(scan) : f.source.kind \in OfScan
<1> DEFINE source(kind, p) == [kind |-> kind, port |-> p]
           dangerous(p) == Made(source("dangerous", p), "Dangerous Open Port", PortRate, 4, FALSE)
           service(p)   == Made(source("service", p), "Open Service Detected", <<"INFO", 0>>, 4, FALSE)
           alarm(p)     == Made(source("alarm", p), "NSE Vulnerability", <<"HIGH", 75>>, 3, TRUE)
           D == {dangerous(p) : p \in 1 .. scan.dangerous}
           S == {service(p) : p \in 1 .. scan.services}
           A == {alarm(p) : p \in 1 .. scan.alarms}
<1>1. OfPorts(scan) = D \union S \union A
  BY DEF OfPorts
<1>2. scan.dangerous \in Nat /\ scan.services \in Nat /\ scan.alarms \in Nat
  BY PortScansAssumption
<1> HIDE DEF source, dangerous, service, alarm
<1>3. ASSUME NEW p
      PROVE  IsFinding(dangerous(p)) /\ dangerous(p).source = source("dangerous", p)
  <2>1. Rated(PortRate)
    BY Rates, RateAssumption
  <2>2. dangerous(p) = Made(source("dangerous", p), "Dangerous Open Port", PortRate, 4, FALSE)
    BY DEF dangerous
  <2>3. QED
    BY <2>1, <2>2, MadeIsFinding, Zenon
<1>4. ASSUME NEW p
      PROVE  IsFinding(service(p)) /\ service(p).source = source("service", p)
  <2>1. Rated(<<"INFO", 0>>)
    BY Rates
  <2>2. service(p) = Made(source("service", p), "Open Service Detected", <<"INFO", 0>>, 4, FALSE)
    BY DEF service
  <2>3. QED
    BY <2>1, <2>2, MadeIsFinding, Zenon
<1>5. ASSUME NEW p
      PROVE  IsFinding(alarm(p)) /\ alarm(p).source = source("alarm", p)
  <2>1. Rated(<<"HIGH", 75>>)
    BY Rates
  <2>2. alarm(p) = Made(source("alarm", p), "NSE Vulnerability", <<"HIGH", 75>>, 3, TRUE)
    BY DEF alarm
  <2>3. QED
    BY <2>1, <2>2, MadeIsFinding, Zenon
<1>6. \A j, k, p, q : /\ source(k, p).kind = k /\ source(k, p).port = p
                      /\ source(j, p) = source(k, q) => j = k /\ p = q
  BY DEF source
<1>7. IsFiniteSet(D) /\ IsFiniteSet(S) /\ IsFiniteSet(A)
  <2>1. IsFiniteSet(D)
    <3> DEFINE h == [p \in 1 .. scan.dangerous |-> dangerous(p)]
    <3>1. \A y \in D : \E p \in 1 .. scan.dangerous : y = h[p]
      OBVIOUS
    <3> HIDE DEF h, D
    <3>2. QED
      BY <1>2, <3>1, UpToFinite, FiniteImage
  <2>2. IsFiniteSet(S)
    <3> DEFINE h == [p \in 1 .. scan.services |-> service(p)]
    <3>1. \A y \in S : \E p \in 1 .. scan.services : y = h[p]
      OBVIOUS
    <3> HIDE DEF h, S
    <3>2. QED
      BY <1>2, <3>1, UpToFinite, FiniteImage
  <2>3. IsFiniteSet(A)
    <3> DEFINE h == [p \in 1 .. scan.alarms |-> alarm(p)]
    <3>1. \A y \in A : \E p \in 1 .. scan.alarms : y = h[p]
      OBVIOUS
    <3> HIDE DEF h, A
    <3>2. QED
      BY <1>2, <3>1, UpToFinite, FiniteImage
  <2>4. QED
    BY <2>1, <2>2, <2>3
<1>8. /\ \A f \in D \union S \union A : IsFinding(f) /\ f.source.kind \in OfScan
      /\ \A f, g \in D \union S \union A : f.source = g.source => f = g
  BY <1>3, <1>4, <1>5, <1>6 DEF OfScan
<1>9. IsFiniteSet(D \union S \union A)
  <2> HIDE DEF D, S, A
  <2>1. QED
    BY <1>7, FS_Union
<1>10. QED
  BY <1>1, <1>8, <1>9 DEF AreFindings

LEMMA EnrichedFindings ==
  ASSUME NEW F, AreFindings(F)
  PROVE  AreFindings({Enrich(f) : f \in F})
<1> DEFINE h == [f \in F |-> Enrich(f)]
           E == {Enrich(f) : f \in F}
<1>1. ASSUME NEW f \in F PROVE IsFinding(Enrich(f)) /\ Enrich(f).source = f.source
  <2>1. IsFinding(f)
    BY DEF AreFindings
  <2> DEFINE advised(a) == [source |-> f.source, type |-> f.type, severity |-> f.severity,
                            score |-> f.score, own |-> f.own, advice |-> a,
                            evidence |-> f.evidence]
  <2>2. f = advised(f.advice)
    BY <2>1, FindingParts
  <2>3. \A a : [advised(f.advice) EXCEPT !.advice = a] = advised(a)
    OBVIOUS
  <2> HIDE DEF advised
  <2>4. PICK a : Enrich(f) = advised(a)
    <3>1. \A a : [f EXCEPT !.advice = a] = advised(a)
      BY <2>2, <2>3, Zenon
    <3>2. QED
      BY <2>2, <3>1 DEF Enrich
  <2>5. /\ advised(a).source = f.source /\ advised(a).type = f.type
        /\ advised(a).severity = f.severity /\ advised(a).score = f.score
        /\ advised(a).own = f.own /\ advised(a).advice = a /\ advised(a).evidence = f.evidence
    BY DEF advised
  <2>6. \A b : [Made(f.source, f.type, <<f.severity, f.score>>, f.own, f.evidence)
                  EXCEPT !.advice = b] = advised(b)
    BY DEF Made, advised
  <2>7. IsFinding(advised(a))
    BY <2>1, <2>5, <2>6 DEF IsFinding
  <2>8. QED
    BY <2>4, <2>5, <2>7
<1>2. IsFiniteSet(E)
  <2>1. \A y \in E : \E f \in F : y = h[f]
    OBVIOUS
  <2> HIDE DEF h, E
  <2>2. QED
    BY <2>1, FiniteImage DEF AreFindings
<1>3. QED
  BY <1>1, <1>2 DEF AreFindings

LEMMA PipelineFindings ==
  ASSUME IInv, NEW scan \in PortScans
  PROVE  AreFindings({Enrich(f) : f \in OfDetector \union OfPorts(scan)})
<1>1. AreFindings(OfDetector \union OfPorts(scan))
  BY DetectorFindings, ScanFindings, FS_Union DEF AreFindings
<1>2. QED
  BY <1>1, EnrichedFindings

-----------------------------------------------------------------------------
(* From the pipeline to the report *)

\* Assessing, storing and reporting leave the detector alone: what has been
\* proved of it holds of the composition.
THEOREM AssessmentIsDetector == ASpec => Spec
<1>1. AInit => Init
  BY DEF AInit
<1>2. [ANext]_avars => [Next]_vars
  BY DEF ANext, Next, AssessFindings, Store, Mark, MakeReport, avars
<1>3. QED
  BY <1>1, <1>2, PTL DEF ASpec, Spec

LEMMA NoFindings == AreFindings({})
  BY FS_EmptySet DEF AreFindings

LEMMA InitAInv == AInit => AInv
<1> SUFFICES ASSUME AInit PROVE AInv
  OBVIOUS
<1>1. IInv
  BY InitIInv DEF AInit
<1>2. told = Assess({}) /\ report = Assess({}) /\ stage = "detecting" /\ rows = {} /\ marked = {}
  BY DEF AInit
<1>3. RiskIsSound(Assess({}).explained, Assess({}).risk)
  BY NoFindings, AssessmentRisk
<1>4. RiskSound
  BY <1>2, <1>3 DEF RiskSound, RiskIsSound
<1>5. QED
  BY <1>1, <1>2, <1>4 DEF AInv, ReportAgrees

LEMMA StepAInv == AInv /\ [ANext]_avars => AInv'
<1> SUFFICES ASSUME AInv, [ANext]_avars PROVE AInv'
  OBVIOUS
<1>1. IInv'
  <2>1. [Next]_vars
    BY DEF ANext, Next, AssessFindings, Store, Mark, MakeReport, avars
  <2>2. QED
    BY <2>1, StepIInv DEF AInv
<1>2. CASE UNCHANGED assessment
  BY <1>1, <1>2 DEF AInv, assessment, RiskSound, ReportAgrees
<1>3. CASE AssessFindings
  <2>1. PICK scan \in PortScans :
          LET findings == {Enrich(f) : f \in OfDetector \union OfPorts(scan)}
          IN told' = Assess(findings) /\ rows' = findings
    BY <1>3 DEF AssessFindings
  <2>2. told' = Assess(rows') /\ rows' = {Enrich(f) : f \in OfDetector \union OfPorts(scan)}
    BY <2>1
  <2>3. AreFindings(rows')
    BY <2>2, PipelineFindings DEF AInv
  <2>4. /\ stage = "detecting" /\ stage' = "assessed" /\ marked' = marked /\ report' = report
        /\ marked = {} /\ report = Assess({})
    BY <1>3 DEF AssessFindings, AInv
  <2>5. RiskIsSound(told'.explained, told'.risk)
    BY <2>2, <2>3, AssessmentRisk
  <2>6. RiskSound'
    BY <2>5 DEF RiskSound, RiskIsSound
  <2>7. ReportAgrees'
    BY <2>4 DEF ReportAgrees
  <2>8. QED
    BY <1>1, <2>2, <2>3, <2>4, <2>6, <2>7 DEF AInv
<1>4. CASE Store
  <2>1. /\ stage = "assessed" /\ report = Assess({}) /\ told' = told /\ report' = report
        /\ marked' = marked
        /\ \/ stage' = "stored" /\ rows' = rows
           \/ stage' = "lost" /\ rows' = {}
    BY <1>4 DEF Store, AInv
  <2>2. marked' \subseteq rows'
    BY <1>4, <2>1 DEF AInv
  <2>3. RiskSound' /\ ReportAgrees'
    BY <2>1 DEF AInv, RiskSound, ReportAgrees
  <2>4. QED
    BY <1>1, <2>1, <2>2, <2>3 DEF AInv
<1>5. CASE Mark
  <2>1. /\ stage = "stored" /\ stage' = stage /\ told' = told /\ rows' = rows /\ report' = report
        /\ marked' \subseteq rows'
    BY <1>5 DEF Mark, AInv
  <2>2. RiskSound' /\ ReportAgrees'
    BY <2>1 DEF AInv, RiskSound, ReportAgrees
  <2>3. QED
    BY <1>1, <2>1, <2>2 DEF AInv
<1>6. CASE MakeReport
  <2>1. /\ stage = "stored" /\ stage' = stage /\ told' = told /\ rows' = rows /\ marked' = marked
        /\ report' = Assess(Reduced(rows))
    BY <1>6 DEF MakeReport, Reduced
  <2>2. AreFindings(rows) /\ told = Assess(rows)
    BY <2>1 DEF AInv
  <2>3. RiskSound'
    BY <2>1 DEF AInv, RiskSound
  <2>4. ReportAgrees'
    BY <2>1, <2>2, ReportOfRows DEF ReportAgrees
  <2>5. QED
    BY <1>1, <2>1, <2>3, <2>4 DEF AInv
<1>7. QED
  BY <1>2, <1>3, <1>4, <1>5, <1>6 DEF ANext, avars, assessment

\* Whatever a scan finds, the rows hold each finding apart, and what the
\* pipeline told of them is what they assess to.
THEOREM AssessmentInvariance == ASpec => []AInv
  BY InitAInv, StepAInv, PTL DEF ASpec

\* The risk of a scan is nought for informational findings, and only for them
\* unless the mean of very many is rounded down to it; it never exceeds the score
\* of the worst finding.
THEOREM RiskIsAlwaysSound == ASpec => []RiskSound
<1>1. AInv => RiskSound
  BY DEF AInv
<1>2. QED
  BY <1>1, AssessmentInvariance, PTL

\* A report says of the findings what the pipeline has said.
THEOREM ReportsAgree == ASpec => []ReportAgrees
<1>1. AInv => ReportAgrees
  BY DEF AInv
<1>2. QED
  BY <1>1, AssessmentInvariance, PTL
=============================================================================
