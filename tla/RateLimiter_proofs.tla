-------------------------- MODULE RateLimiter_proofs --------------------------
(***************************************************************************)
(* Theorems about RateLimiter, for any clients, processes, limit and        *)
(* period, and however long the clock runs.                                 *)
(***************************************************************************)
EXTENDS RateLimiter, SequenceTheorems, FiniteSetTheorems, TLAPS

LEMMA SpanType == Span \in Nat
  BY LimitAssumption, Z3 DEF Span

\* What eviction leaves of a window.
LEMMA FromProperties ==
  ASSUME NEW w \in Seq(Nat), NEW i \in 1 .. Len(w) + 1
  PROVE  /\ From(w, i) \in Seq(Nat)
         /\ Len(From(w, i)) = Len(w) - i + 1
         /\ \A j \in 1 .. Len(w) - i + 1 : From(w, i)[j] = w[i + j - 1]
<1>1. Len(w) \in Nat
  OBVIOUS
<1>2. \A j \in i .. Len(w) : w[j] \in Nat
  OBVIOUS
<1>3. /\ SubSeq(w, i, Len(w)) \in Seq(Nat)
      /\ Len(SubSeq(w, i, Len(w))) = IF i <= Len(w) THEN Len(w) - i + 1 ELSE 0
      /\ \A j \in 1 .. Len(w) - i + 1 : SubSeq(w, i, Len(w))[j] = w[i + j - 1]
  BY <1>1, <1>2, SubSeqProperties
<1>4. QED
  BY <1>1, <1>3 DEF From

LEMMA AppendElements ==
  ASSUME NEW s \in Seq(Nat), NEW t \in Nat
  PROVE  /\ Append(s, t) \in Seq(Nat)
         /\ Len(Append(s, t)) = Len(s) + 1
         /\ \A i \in 1 .. Len(s) : Append(s, t)[i] = s[i]
         /\ Append(s, t)[Len(s) + 1] = t
  OBVIOUS

-----------------------------------------------------------------------------
(* What a step does to one key, without EXCEPT *)

Admitted(k, i) ==
  LET live == From(window[k], i)
  IN /\ StopsAt(window[k], i)
     /\ Fits(live)
     /\ window'[k] = Append(live, now)
     /\ answer'[k] = "passed"
     /\ retryAt'[k] = 0
     /\ passed'[k] = Append(passed[k], now)
     /\ now' = now

Refused(k, i) ==
  LET live == From(window[k], i)
  IN /\ StopsAt(window[k], i)
     /\ ~Fits(live)
     /\ window'[k] = live
     /\ answer'[k] = "refused"
     /\ retryAt'[k] = now + Second * RetryAfter(Head(live))
     /\ passed'[k] = passed[k]
     /\ now' = now

Untouched(k) ==
  /\ window'[k] = window[k]
  /\ answer'[k] = answer[k]
  /\ retryAt'[k] = retryAt[k]
  /\ passed'[k] = passed[k]
  /\ now' \in {now, now + 1}

Forgotten(k) ==
  /\ window'[k] = <<>>
  /\ answer'[k] = "none"
  /\ retryAt'[k] = 0
  /\ passed'[k] = <<>>
  /\ now' = now

Effect(k) ==
  \/ \E i \in 1 .. Len(window[k]) + 1 : Admitted(k, i) \/ Refused(k, i)
  \/ Untouched(k)
  \/ Forgotten(k)

LEMMA NextEffect ==
  ASSUME TypeOK, [Next]_vars, NEW k \in Key
  PROVE  Effect(k)
<1>1. CASE Tick
  BY <1>1 DEF Tick, Effect, Untouched
<1>2. ASSUME NEW l \in Key, Admit(l)
      PROVE  Effect(k)
  <2>1. PICK i \in 1 .. Len(window[l]) + 1 :
          /\ StopsAt(window[l], i)
          /\ Fits(From(window[l], i))
          /\ window' = [window EXCEPT ![l] = Append(From(window[l], i), now)]
          /\ answer' = [answer EXCEPT ![l] = "passed"]
          /\ retryAt' = [retryAt EXCEPT ![l] = 0]
          /\ passed' = [passed EXCEPT ![l] = Append(@, now)]
          /\ now' = now
    BY <1>2 DEF Admit
  <2>2. CASE l = k
    BY <2>1, <2>2 DEF TypeOK, Effect, Admitted
  <2>3. CASE l # k
    BY <2>1, <2>3 DEF TypeOK, Effect, Untouched
  <2>4. QED
    BY <2>2, <2>3
<1>3. ASSUME NEW l \in Key, Refuse(l)
      PROVE  Effect(k)
  <2>1. PICK i \in 1 .. Len(window[l]) + 1 :
          /\ StopsAt(window[l], i)
          /\ ~Fits(From(window[l], i))
          /\ window' = [window EXCEPT ![l] = From(window[l], i)]
          /\ answer' = [answer EXCEPT ![l] = "refused"]
          /\ retryAt' = [retryAt EXCEPT ![l] =
                           now + Second * RetryAfter(Head(From(window[l], i)))]
          /\ passed' = passed /\ now' = now
    BY <1>3 DEF Refuse
  <2>2. CASE l = k
    BY <2>1, <2>2 DEF TypeOK, Effect, Refused
  <2>3. CASE l # k
    BY <2>1, <2>3 DEF TypeOK, Effect, Untouched
  <2>4. QED
    BY <2>2, <2>3
<1>4. ASSUME NEW p \in Process, Restart(p)
      PROVE  Effect(k)
  <2>1. CASE k[1] = p
    BY <1>4, <2>1 DEF Restart, Effect, Forgotten
  <2>2. CASE k[1] # p
    BY <1>4, <2>2 DEF Restart, Effect, Untouched
  <2>3. QED
    BY <2>1, <2>2
<1>5. CASE UNCHANGED vars
  BY <1>5 DEF vars, Effect, Untouched
<1>6. QED
  BY <1>1, <1>2, <1>3, <1>4, <1>5 DEF Next

LEMMA NextDomains ==
  ASSUME TypeOK, [Next]_vars
  PROVE  /\ window' = [k \in Key |-> window'[k]]
         /\ answer' = [k \in Key |-> answer'[k]]
         /\ retryAt' = [k \in Key |-> retryAt'[k]]
         /\ passed' = [k \in Key |-> passed'[k]]
<1>1. CASE Tick \/ UNCHANGED vars
  BY <1>1 DEF Tick, vars, TypeOK
<1>2. ASSUME NEW l \in Key, Admit(l) \/ Refuse(l)
      PROVE  /\ window' = [k \in Key |-> window'[k]]
             /\ answer' = [k \in Key |-> answer'[k]]
             /\ retryAt' = [k \in Key |-> retryAt'[k]]
             /\ passed' = [k \in Key |-> passed'[k]]
  <2>1. CASE Admit(l)
    BY <2>1 DEF Admit, TypeOK
  <2>2. CASE Refuse(l)
    BY <2>2 DEF Refuse, TypeOK
  <2>3. QED
    BY <1>2, <2>1, <2>2
<1>3. ASSUME NEW p \in Process, Restart(p)
      PROVE  /\ window' = [k \in Key |-> window'[k]]
             /\ answer' = [k \in Key |-> answer'[k]]
             /\ retryAt' = [k \in Key |-> retryAt'[k]]
             /\ passed' = [k \in Key |-> passed'[k]]
  BY <1>3, Zenon DEF Restart
<1>4. QED
  BY <1>1, <1>2, <1>3 DEF Next

-----------------------------------------------------------------------------
(* The invariant of one key *)

KeyType(k) ==
  /\ window[k] \in Seq(Nat) /\ Len(window[k]) <= MaxRequests
  /\ answer[k] \in {"none", "passed", "refused"}
  /\ retryAt[k] \in Nat
  /\ passed[k] \in Seq(Nat)

KeySpaced(k) ==
  \A i \in 1 .. Len(passed[k]) - MaxRequests :
    passed[k][i + MaxRequests] > passed[k][i] + Span

KeyHonoured(k) ==
  retryAt[k] # 0 =>
    LET oldest == passed[k][Len(passed[k]) - MaxRequests + 1]
    IN retryAt[k] > oldest + Span /\ retryAt[k] <= oldest + Span + Second

KeyInv(k) ==
  /\ KeyType(k)
  /\ Suffix(k)
  /\ Ordered(k)
  /\ Promised(k)
  /\ KeySpaced(k)
  /\ KeyHonoured(k)

LEMMA UntouchedInv ==
  ASSUME now \in Nat, NEW k \in Key, KeyInv(k), Untouched(k)
  PROVE  KeyInv(k)'
<1>1. KeyType(k)'
  BY DEF KeyInv, KeyType, Untouched
<1>2. Suffix(k)'
  <2>1. /\ Len(passed[k]) - Len(window[k]) \in Nat
        /\ Len(window[k]) \in Nat /\ Len(passed[k]) \in Nat
    BY DEF KeyInv, KeyType, Suffix
  <2>2. ASSUME NEW i \in 1 .. Len(passed[k]) - Len(window[k])
        PROVE  passed[k][i] + Span < now'
    <3>1. i \in 1 .. Len(passed[k]) /\ passed[k] \in Seq(Nat)
      BY <2>1 DEF KeyInv, KeyType
    <3>2. passed[k][i] \in Nat
      BY <3>1
    <3>3. passed[k][i] + Span < now
      BY DEF KeyInv, Suffix
    <3>4. QED
      BY <3>2, <3>3, SpanType DEF Untouched
  <2>3. \A i \in 1 .. Len(passed[k]) - Len(window[k]) : passed[k][i] + Span < now'
    BY <2>2
  <2>4. QED
    BY <2>3 DEF KeyInv, Suffix, Untouched
<1>3. Ordered(k)'
  BY DEF KeyInv, KeyType, Ordered, Untouched
<1>4. Promised(k)' /\ KeySpaced(k)' /\ KeyHonoured(k)'
  BY DEF KeyInv, Promised, KeySpaced, KeyHonoured, Untouched
<1>5. QED
  BY <1>1, <1>2, <1>3, <1>4 DEF KeyInv

LEMMA ForgottenInv ==
  ASSUME NEW k \in Key, Forgotten(k)
  PROVE  KeyInv(k)'
<1>1. Len(<<>>) = 0 /\ <<>> \in Seq(Nat)
  OBVIOUS
<1>2. MaxRequests \in Nat \ {0}
  BY LimitAssumption
<1>3. QED
  BY <1>1, <1>2 DEF Forgotten, KeyInv, KeyType, Suffix, Ordered, Promised,
                    KeySpaced, KeyHonoured

\* Positions in a window of n timestamps that ends a history of b + n, when
\* eviction stops at the i-th.
LEMMA Shift ==
  ASSUME NEW n \in Nat, NEW b \in Nat, NEW i \in 1 .. n + 1
  PROVE  /\ n - i + 1 \in Nat
         /\ b + i - 1 \in Nat
         /\ (b + n) - (n - i + 1) = b + i - 1
         /\ \A j \in 1 .. n - i + 1 :
              i + j - 1 \in 1 .. n /\ b + (i + j - 1) = (b + i - 1) + j
         /\ \A j \in 1 .. b + i - 1 :
              j \in 1 .. b \/ (j - b \in 1 .. i - 1 /\ j - b \in 1 .. n
                               /\ b + (j - b) = j)
  OBVIOUS

\* The timestamps that stay are the end of the history, and the ones before
\* them are older than the period.
Evicted(k, live) ==
  /\ live \in Seq(Nat) /\ Len(live) <= MaxRequests
  /\ Len(passed[k]) - Len(live) \in Nat
  /\ \A j \in 1 .. Len(live) : live[j] = passed[k][(Len(passed[k]) - Len(live)) + j]
  /\ \A j \in 1 .. Len(passed[k]) - Len(live) : passed[k][j] + Span < now
  /\ Len(live) > 0 => live[1] + Span >= now

LEMMA EvictedWindow ==
  ASSUME now \in Nat, NEW k \in Key, KeyInv(k),
         NEW i \in 1 .. Len(window[k]) + 1, StopsAt(window[k], i),
         NEW live, live = From(window[k], i)
  PROVE  Evicted(k, live)
<1>1. PICK w \in Seq(Nat), p \in Seq(Nat), t \in Nat, span \in Nat, max \in Nat :
        w = window[k] /\ p = passed[k] /\ t = now /\ span = Span /\ max = MaxRequests
  BY SpanType, LimitAssumption DEF KeyInv, KeyType
<1>2. PICK b \in Nat : b = Len(p) - Len(w)
  BY <1>1 DEF KeyInv, Suffix
<1>3. Len(p) = b + Len(w) /\ Len(w) <= max
  BY <1>1, <1>2 DEF KeyInv, KeyType
<1>4. /\ \A j \in 1 .. Len(w) : w[j] = p[b + j]
      /\ \A j \in 1 .. b : p[j] + span < t
  BY <1>1, <1>2 DEF KeyInv, Suffix
<1>5. /\ i \in 1 .. Len(w) + 1
      /\ \A j \in 1 .. i - 1 : w[j] + span < t
      /\ i <= Len(w) => w[i] + span >= t
      /\ live = From(w, i)
  BY <1>1 DEF StopsAt
<1>11. PICK n \in Nat : n = Len(w)
  OBVIOUS
<1>12. i \in 1 .. n + 1
  BY <1>5, <1>11
<1>13. /\ live \in Seq(Nat)
      /\ Len(live) = n - i + 1
      /\ \A j \in 1 .. n - i + 1 : live[j] = w[i + j - 1]
  BY <1>5, <1>11, FromProperties
<1>14. Len(p) - Len(live) = b + i - 1 /\ b + i - 1 \in Nat
  BY <1>3, <1>11, <1>12, <1>13, Shift
<1>15. ASSUME NEW j \in 1 .. n - i + 1
      PROVE  live[j] = p[(b + i - 1) + j]
  <2>1. i + j - 1 \in 1 .. n /\ b + (i + j - 1) = (b + i - 1) + j
    BY <1>12, Shift
  <2>2. w[i + j - 1] = p[b + (i + j - 1)]
    BY <1>4, <1>11, <2>1
  <2>3. QED
    BY <1>13, <2>1, <2>2
<1>16. ASSUME NEW j \in 1 .. b + i - 1
      PROVE  p[j] + span < t
  <2>1. CASE j \in 1 .. b
    BY <1>4, <2>1
  <2>2. CASE j - b \in 1 .. i - 1 /\ j - b \in 1 .. n /\ b + (j - b) = j
    <3>1. w[j - b] + span < t /\ w[j - b] = p[b + (j - b)]
      BY <1>4, <1>5, <1>11, <2>2
    <3>2. QED
      BY <3>1, <2>2
  <2>3. QED
    BY <1>12, <2>1, <2>2, Shift
<1>17. n - i + 1 <= n
  BY <1>12
<1>18. ASSUME n - i + 1 > 0
      PROVE  i <= n /\ live[1] = w[i]
  <2>1. i <= n /\ 1 \in 1 .. n - i + 1 /\ i + 1 - 1 = i
    BY <1>12, <1>18
  <2>2. QED
    BY <1>13, <2>1
<1>19. Len(live) <= max
  BY <1>3, <1>11, <1>12, <1>13
<1>20. Len(live) > 0 => live[1] + span >= t
  BY <1>5, <1>11, <1>13, <1>18
<1>21. Len(live) = n - i + 1 /\ Len(p) - Len(live) = b + i - 1
  BY <1>13, <1>14
<1>22. /\ live \in Seq(Nat) /\ Len(live) <= max
       /\ Len(p) - Len(live) \in Nat
       /\ \A j \in 1 .. Len(live) : live[j] = p[(Len(p) - Len(live)) + j]
       /\ \A j \in 1 .. Len(p) - Len(live) : p[j] + span < t
       /\ Len(live) > 0 => live[1] + span >= t
  BY <1>13, <1>14, <1>15, <1>16, <1>19, <1>20, <1>21
<1>23. QED
  BY <1>1, <1>22 DEF Evicted

LEMMA RefusedInv ==
  ASSUME now \in Nat, NEW k \in Key, KeyInv(k),
         NEW i \in 1 .. Len(window[k]) + 1, Refused(k, i)
  PROVE  KeyInv(k)'
<1>1. PICK live : live = From(window[k], i)
  OBVIOUS
<1>2. /\ live \in Seq(Nat) /\ Len(live) <= MaxRequests
      /\ Len(passed[k]) - Len(live) \in Nat
      /\ \A j \in 1 .. Len(live) : live[j] = passed[k][(Len(passed[k]) - Len(live)) + j]
      /\ \A j \in 1 .. Len(passed[k]) - Len(live) : passed[k][j] + Span < now
      /\ Len(live) > 0 => live[1] + Span >= now
  <2>1. StopsAt(window[k], i)
    BY DEF Refused
  <2>2. Evicted(k, live)
    BY <1>1, <2>1, EvictedWindow
  <2>3. QED
    BY <2>2 DEF Evicted
<1>3. /\ ~Fits(live)
      /\ window'[k] = live /\ answer'[k] = "refused"
      /\ retryAt'[k] = now + Second * RetryAfter(Head(live))
      /\ passed'[k] = passed[k] /\ now' = now
  BY <1>1 DEF Refused
<1>4. /\ MaxRequests \in Nat \ {0} /\ Second \in Nat \ {0} /\ Span \in Nat
      /\ passed[k] \in Seq(Nat) /\ Len(passed[k]) \in Nat /\ Len(live) \in Nat
  BY LimitAssumption, SpanType, <1>2 DEF KeyInv, KeyType
<1>5. Len(live) = MaxRequests /\ Len(live) > 0 /\ Len(passed[k]) >= MaxRequests
  BY <1>2, <1>3, <1>4 DEF Fits
<1>6. PICK oldest \in Nat : /\ oldest = live[1]
                            /\ oldest = Head(live)
                            /\ oldest = passed[k][Len(passed[k]) - MaxRequests + 1]
  <2>1. 1 \in 1 .. Len(live) /\ live[1] \in Nat /\ Head(live) = live[1]
    <3>1. PICK q \in Seq(Nat) : q = live /\ Len(q) > 0
      BY <1>2, <1>5
    <3>2. 1 \in 1 .. Len(q) /\ q[1] \in Nat /\ Head(q) = q[1]
      BY <3>1
    <3>3. QED
      BY <3>1, <3>2
  <2>2. live[1] = passed[k][(Len(passed[k]) - MaxRequests) + 1]
    BY <1>2, <1>5, <2>1
  <2>3. QED
    BY <2>1, <2>2
<1>7. oldest <= now /\ oldest + Span >= now
  <2>1. Len(passed[k]) - MaxRequests + 1 \in 1 .. Len(passed[k])
    BY <1>4, <1>5
  <2>2. oldest <= now
    BY <1>6, <2>1 DEF KeyInv, Ordered
  <2>3. QED
    BY <1>2, <1>5, <1>6, <2>2
<1>8. PICK left \in Nat : left = Span - (now - oldest)
  BY <1>4, <1>7
<1>9. PICK q \in Nat : q = left \div Second
  BY <1>4
<1>10. Second * q <= left /\ left < Second * q + Second
  BY <1>4, <1>9
<1>11. retryAt'[k] = now + Second * (q + 1)
  BY <1>3, <1>6, <1>8, <1>9 DEF RetryAfter
<1>12. /\ Second * (q + 1) = Second * q + Second /\ Second * q \in Nat
  BY <1>4
<1>13. /\ retryAt'[k] \in Nat
       /\ retryAt'[k] > oldest + Span /\ retryAt'[k] <= oldest + Span + Second
  BY <1>4, <1>7, <1>8, <1>10, <1>11, <1>12
<1>14. KeyType(k)'
  BY <1>2, <1>3, <1>4, <1>13 DEF KeyType
<1>15. Suffix(k)'
  BY <1>2, <1>3 DEF Suffix
<1>16. Ordered(k)' /\ KeySpaced(k)'
  BY <1>3 DEF KeyInv, Ordered, KeySpaced
<1>17. Promised(k)' /\ KeyHonoured(k)'
  BY <1>3, <1>5, <1>6, <1>13 DEF Promised, KeyHonoured
<1>18. QED
  BY <1>14, <1>15, <1>16, <1>17 DEF KeyInv

LEMMA AdmittedInv ==
  ASSUME now \in Nat, NEW k \in Key, KeyInv(k),
         NEW i \in 1 .. Len(window[k]) + 1, Admitted(k, i)
  PROVE  KeyInv(k)'
<1>1. PICK live : live = From(window[k], i)
  OBVIOUS
<1>2. /\ live \in Seq(Nat) /\ Len(live) <= MaxRequests
      /\ Len(passed[k]) - Len(live) \in Nat
      /\ \A j \in 1 .. Len(live) : live[j] = passed[k][(Len(passed[k]) - Len(live)) + j]
      /\ \A j \in 1 .. Len(passed[k]) - Len(live) : passed[k][j] + Span < now
      /\ Len(live) > 0 => live[1] + Span >= now
  <2>1. StopsAt(window[k], i)
    BY DEF Admitted
  <2>2. Evicted(k, live)
    BY <1>1, <2>1, EvictedWindow
  <2>3. QED
    BY <2>2 DEF Evicted
<1>3. /\ Len(live) < MaxRequests
      /\ window'[k] = Append(live, now) /\ answer'[k] = "passed"
      /\ retryAt'[k] = 0
      /\ passed'[k] = Append(passed[k], now) /\ now' = now
  BY <1>1 DEF Admitted, Fits
<1>4. PICK n \in Nat, m \in Nat, o \in Nat :
        n = Len(passed[k]) /\ m = Len(live) /\ o = n - m /\ n = o + m
  BY <1>2 DEF KeyInv, KeyType
<1>5. /\ passed'[k] \in Seq(Nat) /\ Len(passed'[k]) = n + 1
      /\ \A j \in 1 .. n : passed'[k][j] = passed[k][j]
      /\ passed'[k][n + 1] = now
  BY <1>3, <1>4, AppendElements DEF KeyInv, KeyType
<1>6. /\ window'[k] \in Seq(Nat) /\ Len(window'[k]) = m + 1
      /\ \A j \in 1 .. m : window'[k][j] = live[j]
      /\ window'[k][m + 1] = now
  BY <1>2, <1>3, <1>4, AppendElements
<1>7. MaxRequests \in Nat \ {0} /\ Span \in Nat
  BY LimitAssumption, SpanType
<1>8. KeyType(k)'
  BY <1>3, <1>4, <1>5, <1>6, <1>7 DEF KeyType
<1>9. Suffix(k)'
  <2>1. Len(passed'[k]) - Len(window'[k]) = o
    BY <1>4, <1>5, <1>6
  <2>2. ASSUME NEW j \in 1 .. m + 1
        PROVE  window'[k][j] = passed'[k][o + j]
    <3>1. CASE j = m + 1
      <4>1. n = o + m
        BY <1>4
      <4>2. o + j = n + 1
        BY <3>1, <4>1
      <4>3. QED
        BY <1>5, <1>6, <3>1, <4>2
    <3>2. CASE j \in 1 .. m
      <4>1. o + j \in 1 .. n
        BY <1>4, <3>2
      <4>2. QED
        BY <1>2, <1>4, <1>5, <1>6, <3>2, <4>1
    <3>3. QED
      BY <3>1, <3>2
  <2>3. ASSUME NEW j \in 1 .. o
        PROVE  passed'[k][j] + Span < now'
    <3>1. j \in 1 .. n
      BY <1>4
    <3>2. QED
      BY <1>2, <1>3, <1>4, <1>5, <3>1
  <2>4. QED
    BY <1>6, <2>1, <2>2, <2>3 DEF Suffix
<1>10. Ordered(k)'
  <2>1. ASSUME NEW j \in 1 .. n
        PROVE  passed[k][j] \in Nat /\ passed[k][j] <= now
    <3>1. passed[k] \in Seq(Nat)
      BY DEF KeyInv, KeyType
    <3>2. QED
      BY <1>4, <3>1 DEF KeyInv, Ordered
  <2>2. ASSUME NEW j \in 1 .. n + 1 PROVE passed'[k][j] <= now'
    <3>1. CASE j \in 1 .. n
      BY <1>3, <1>5, <2>1, <3>1
    <3>2. CASE j = n + 1
      BY <1>3, <1>5, <3>2
    <3>3. QED
      BY <1>4, <3>1, <3>2
  <2>3. ASSUME NEW a \in 1 .. n + 1, NEW b \in 1 .. n + 1, a <= b
        PROVE  passed'[k][a] <= passed'[k][b]
    <3>1. CASE b = n + 1
      BY <1>3, <1>5, <2>2, <3>1
    <3>2. CASE b \in 1 .. n
      <4>1. a \in 1 .. n
        BY <2>3, <3>2
      <4>2. QED
        BY <1>4, <1>5, <2>3, <3>2, <4>1 DEF KeyInv, Ordered
    <3>3. QED
      BY <3>1, <3>2
  <2>4. QED
    BY <1>5, <2>2, <2>3 DEF Ordered
<1>11. KeySpaced(k)'
  <2>1. ASSUME NEW j \in 1 .. (n + 1) - MaxRequests
        PROVE  passed'[k][j + MaxRequests] > passed'[k][j] + Span
    <3>1. j \in 1 .. n
      BY <1>7
    <3>2. CASE j + MaxRequests = n + 1
      <4>1. j \in 1 .. o
        BY <1>3, <1>4, <1>7, <3>1, <3>2
      <4>2. passed[k][j] + Span < now
        BY <1>2, <1>4, <4>1
      <4>3. passed[k][j] \in Nat
        BY <1>4, <3>1 DEF KeyInv, KeyType
      <4>4. QED
        BY <1>5, <1>7, <3>1, <3>2, <4>2, <4>3
    <3>3. CASE j + MaxRequests # n + 1
      <4>1. j \in 1 .. n - MaxRequests /\ j + MaxRequests \in 1 .. n
        BY <1>7, <3>1, <3>3
      <4>2. QED
        BY <1>4, <1>5, <3>1, <4>1 DEF KeyInv, KeySpaced
    <3>4. QED
      BY <3>2, <3>3
  <2>2. QED
    BY <1>5, <2>1 DEF KeySpaced
<1>12. Promised(k)' /\ KeyHonoured(k)'
  BY <1>3 DEF Promised, KeyHonoured
<1>13. QED
  BY <1>8, <1>9, <1>10, <1>11, <1>12 DEF KeyInv

-----------------------------------------------------------------------------
(* The invariant of the specification *)

LEMMA InvByKeys ==
  ASSUME TypeOK
  PROVE  IInv <=> \A k \in Key : KeyInv(k)
  BY DEF TypeOK, IInv, Spaced, RetryHonoured, KeyInv, KeyType, KeySpaced, KeyHonoured

LEMMA InitInv == Init => IInv
<1> SUFFICES ASSUME Init PROVE IInv
  OBVIOUS
<1>1. Len(<<>>) = 0 /\ <<>> \in Seq(Nat) /\ MaxRequests \in Nat \ {0}
  BY LimitAssumption
<1>2. TypeOK
  BY <1>1 DEF Init, TypeOK
<1>3. ASSUME NEW k \in Key
      PROVE  KeyInv(k)
  BY <1>1 DEF Init, KeyInv, KeyType, Suffix, Ordered, Promised, KeySpaced, KeyHonoured
<1>4. QED
  BY <1>2, <1>3, InvByKeys

LEMMA NextInv == IInv /\ [Next]_vars => IInv'
<1> SUFFICES ASSUME IInv, [Next]_vars PROVE IInv'
  OBVIOUS
<1>1. TypeOK /\ now \in Nat
  BY DEF IInv, TypeOK
<1>2. ASSUME NEW k \in Key
      PROVE  KeyInv(k)'
  <2>1. KeyInv(k)
    BY <1>1, InvByKeys
  <2>2. Effect(k)
    BY <1>1, NextEffect
  <2>3. ASSUME NEW i \in 1 .. Len(window[k]) + 1, Admitted(k, i)
        PROVE  KeyInv(k)'
    BY <1>1, <2>1, <2>3, AdmittedInv
  <2>4. ASSUME NEW i \in 1 .. Len(window[k]) + 1, Refused(k, i)
        PROVE  KeyInv(k)'
    BY <1>1, <2>1, <2>4, RefusedInv
  <2>5. CASE Untouched(k)
    BY <1>1, <2>1, <2>5, UntouchedInv
  <2>6. CASE Forgotten(k)
    BY <2>6, ForgottenInv
  <2>7. QED
    BY <2>2, <2>3, <2>4, <2>5, <2>6 DEF Effect
<1>3. TypeOK'
  <2>1. now' \in Nat
    BY <1>1 DEF Next, Tick, Admit, Refuse, Restart, vars
  <2>2. ASSUME NEW k \in Key
        PROVE  /\ window'[k] \in Seq(Nat) /\ Len(window'[k]) <= MaxRequests
               /\ answer'[k] \in {"none", "passed", "refused"}
               /\ retryAt'[k] \in Nat
               /\ passed'[k] \in Seq(Nat)
    BY <1>2 DEF KeyInv, KeyType
  <2>3. /\ window' \in [Key -> Seq(Nat)]
        /\ answer' \in [Key -> {"none", "passed", "refused"}]
        /\ retryAt' \in [Key -> Nat]
        /\ passed' \in [Key -> Seq(Nat)]
    BY <1>1, <2>2, NextDomains
  <2>4. QED
    BY <2>1, <2>2, <2>3 DEF TypeOK
<1>4. QED
  BY <1>2, <1>3 DEF IInv, Spaced, RetryHonoured, KeyInv, KeySpaced, KeyHonoured

\* Windows, answers, promises and history of every client agree in every
\* reachable state.
THEOREM LimiterInvariance == Spec => []IInv
  BY InitInv, NextInv, PTL DEF Spec

\* A window never holds more than MaxRequests timestamps.
THEOREM LimiterTypes == Spec => []TypeOK
<1>1. IInv => TypeOK
  BY DEF IInv
<1>2. QED
  BY <1>1, LimiterInvariance, PTL

\* A process lets a client through at most MaxRequests times in any period.
THEOREM RequestsAreSpaced == Spec => []Spaced
<1>1. IInv => Spaced
  BY DEF IInv
<1>2. QED
  BY <1>1, LimiterInvariance, PTL

\* Retry-After is long enough, and less than a second too long.
THEOREM RetryAfterIsRight == Spec => []RetryHonoured
<1>1. IInv => RetryHonoured
  BY DEF IInv
<1>2. QED
  BY <1>1, LimiterInvariance, PTL

\* What the window does not hold is not recent, so the header promises no more
\* requests than the period has room for, whenever it is written.
LEMMA WindowHoldsRecent ==
  ASSUME IInv, NEW k \in Key
  PROVE  Remaining(k) \in 0 .. MaxRequests - Cardinality(Recent(k))
<1> DEFINE old == Len(passed[k]) - Len(window[k])
           kept == old + 1 .. Len(passed[k])
<1>1. /\ passed[k] \in Seq(Nat) /\ window[k] \in Seq(Nat) /\ Len(window[k]) <= MaxRequests
      /\ now \in Nat
  BY DEF IInv, TypeOK
<1>2. old \in Nat /\ \A i \in 1 .. old : passed[k][i] + Span < now
  BY DEF IInv, Suffix
<1>3. Len(passed[k]) \in Nat /\ Len(window[k]) \in Nat /\ MaxRequests \in Nat
  BY <1>1, LimitAssumption
<1>4. Recent(k) \in SUBSET kept
  <2> SUFFICES ASSUME NEW i \in 1 .. Len(passed[k]), passed[k][i] + Span >= now
               PROVE  i \in kept
    BY DEF Recent
  <2>1. passed[k][i] \in Nat
    BY <1>1
  <2>2. i \notin 1 .. old
    BY <1>1, <1>2, <2>1, SpanType
  <2>3. QED
    BY <1>2, <1>3, <2>2
<1>5. IsFiniteSet(kept) /\ Cardinality(kept) = Len(window[k])
  <2>1. old + 1 \in Int /\ Len(passed[k]) \in Int
    BY <1>2, <1>3
  <2>2. /\ IsFiniteSet(kept)
        /\ Cardinality(kept) = IF old + 1 > Len(passed[k]) THEN 0
                               ELSE Len(passed[k]) - (old + 1) + 1
    BY <2>1, FS_Interval
  <2>3. old = Len(passed[k]) - Len(window[k]) /\ old \in Nat
    BY <1>2
  <2> HIDE DEF old, kept
  <2>4. (IF old + 1 > Len(passed[k]) THEN 0 ELSE Len(passed[k]) - (old + 1) + 1) = Len(window[k])
    <3>1. \A o, p, w \in Nat : o = p - w => (IF o + 1 > p THEN 0 ELSE p - (o + 1) + 1) = w
      OBVIOUS
    <3>2. QED
      BY <1>3, <2>3, <3>1
  <2>5. QED
    BY <2>2, <2>4
<1> HIDE DEF kept
<1>6. Cardinality(Recent(k)) <= Len(window[k]) /\ Cardinality(Recent(k)) \in Nat
  BY <1>4, <1>5, FS_Subset, FS_CardinalityType
<1>7. QED
  BY <1>1, <1>3, <1>6 DEF Remaining

\* X-RateLimit-Remaining promises no request that would be refused, whatever
\* happens between the decision and the response.
THEOREM HeaderIsHonest == Spec => []HeaderHonest
<1>1. IInv => HeaderHonest
  BY WindowHoldsRecent DEF HeaderHonest
<1>2. QED
  BY <1>1, LimiterInvariance, PTL

-----------------------------------------------------------------------------
(* The window decides as the whole history would *)

\* What eviction leaves has no room exactly when the history is full.
LEMMA WindowDecides ==
  ASSUME now \in Nat, NEW k \in Key, KeyInv(k),
         NEW i \in 1 .. Len(window[k]) + 1, StopsAt(window[k], i)
  PROVE  ~Fits(From(window[k], i)) <=> Limit!Full(k)
<1>1. PICK live : live = From(window[k], i)
  OBVIOUS
<1>2. Evicted(k, live)
  BY <1>1, EvictedWindow
<1>3. PICK p \in Seq(Nat), l \in Seq(Nat), max \in Nat, span \in Nat, t \in Nat :
        p = passed[k] /\ l = live /\ max = MaxRequests /\ span = Span /\ t = now
  BY <1>2, LimitAssumption, SpanType DEF KeyInv, KeyType, Evicted
<1>4. PICK n \in Nat, m \in Nat : n = Len(p) /\ m = Len(l)
  OBVIOUS
<1>5. /\ max > 0 /\ m <= max /\ n - m \in Nat
      /\ \A j \in 1 .. m : l[j] = p[(n - m) + j]
      /\ \A j \in 1 .. n - m : p[j] + span < t
      /\ m > 0 => l[1] + span >= t
  BY <1>2, <1>3, <1>4, LimitAssumption DEF Evicted
<1>6. Fits(live) <=> m < max
  BY <1>3, <1>4 DEF Fits
<1>7. Limit!Full(k) <=> n >= max /\ p[n - max + 1] + span >= t
  BY <1>3, <1>4 DEF Limit!Full
<1>8. ASSUME ~(m < max)
      PROVE  n >= max /\ p[n - max + 1] + span >= t
  <2>1. m = max /\ n >= max /\ 1 \in 1 .. m /\ (n - m) + 1 = n - max + 1
    BY <1>5, <1>8
  <2>2. l[1] = p[(n - m) + 1]
    BY <1>5, <2>1
  <2>3. QED
    BY <1>5, <2>1, <2>2
<1>9. ASSUME m < max, n >= max
      PROVE  ~(p[n - max + 1] + span >= t)
  <2>1. PICK j \in Nat : j = n - max + 1
    BY <1>9
  <2>2. j \in 1 .. n - m /\ j \in 1 .. n
    BY <1>5, <1>9, <2>1
  <2>3. p[j] \in Nat
    BY <1>4, <2>2
  <2>4. p[j] + span < t
    BY <1>5, <2>2
  <2>5. QED
    BY <2>1, <2>3, <2>4
<1>10. QED
  BY <1>1, <1>6, <1>7, <1>8, <1>9

LEMMA NextRefines == IInv /\ [Next]_vars => [Limit!Next]_(Limit!vars)
<1> SUFFICES ASSUME IInv, [Next]_vars PROVE [Limit!Next]_(Limit!vars)
  OBVIOUS
<1>1. TypeOK /\ now \in Nat /\ \A k \in Key : KeyInv(k)
  BY InvByKeys DEF IInv, TypeOK
<1>2. CASE Tick
  BY <1>2 DEF Tick, Limit!Next, Limit!Tick
<1>3. ASSUME NEW k \in Key, Admit(k)
      PROVE  Limit!Next
  <2>1. PICK i \in 1 .. Len(window[k]) + 1 :
          StopsAt(window[k], i) /\ Fits(From(window[k], i))
    BY <1>3 DEF Admit
  <2>2. ~Limit!Full(k)
    BY <1>1, <2>1, WindowDecides
  <2>3. Limit!Pass(k)
    BY <1>3, <2>2 DEF Admit, Limit!Pass
  <2>4. QED
    BY <2>3 DEF Limit!Next
<1>4. ASSUME NEW k \in Key, Refuse(k)
      PROVE  Limit!Next
  <2>1. PICK i \in 1 .. Len(window[k]) + 1 :
          StopsAt(window[k], i) /\ ~Fits(From(window[k], i))
    BY <1>4 DEF Refuse
  <2>2. Limit!Full(k)
    BY <1>1, <2>1, WindowDecides
  <2>3. Limit!Refuse(k)
    BY <1>4, <2>2 DEF Refuse, Limit!Refuse
  <2>4. QED
    BY <2>3 DEF Limit!Next
<1>5. ASSUME NEW p \in Process, Restart(p)
      PROVE  Limit!Next
  <2> DEFINE lost == {k \in Key : k[1] = p}
  <2>1. /\ passed' = [k \in Key |-> IF k \in lost THEN <<>> ELSE passed[k]]
        /\ answer' = [k \in Key |-> IF k \in lost THEN "none" ELSE answer[k]]
        /\ now' = now
    BY <1>5 DEF Restart
  <2>2. Limit!Forget(lost)
    BY <2>1 DEF Limit!Forget
  <2>3. lost \in SUBSET Key
    OBVIOUS
  <2>4. QED
    BY <2>2, <2>3 DEF Limit!Next
<1>6. CASE UNCHANGED vars
  BY <1>6 DEF vars, Limit!vars
<1>7. QED
  BY <1>2, <1>3, <1>4, <1>5, <1>6 DEF Next

\* A window in memory, with everything older than the period evicted, answers
\* every request as the whole history would.
THEOREM WindowsImplementLimit == Spec => LimitSpec
<1>1. Init => Limit!Init
  BY DEF Init, Limit!Init
<1>2. QED
  BY <1>1, LimiterInvariance, NextRefines, PTL DEF Spec, LimitSpec, Limit!Spec
=============================================================================
