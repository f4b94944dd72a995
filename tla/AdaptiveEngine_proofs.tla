------------------------ MODULE AdaptiveEngine_proofs ------------------------
(***************************************************************************)
(* Theorems about AdaptiveEngine, for any items, batches, latencies and     *)
(* thresholds.                                                              *)
(***************************************************************************)
EXTENDS AdaptiveEngine, FiniteSetTheorems, WellFoundedInduction, TLAPS

\* Induction over a set of natural numbers, from their well-foundedness.
LEMMA Induction ==
  ASSUME NEW S \in SUBSET Nat, 0 \in S, \A n \in S : n + 1 \in S
  PROVE  S = Nat
<1> SUFFICES ASSUME Nat \ S # {} PROVE FALSE
  OBVIOUS
<1> DEFINE R == OpToRel(<, Nat)
<1>1. PICK x \in Nat \ S : \A y \in Nat \ S : <<y, x>> \notin R
  <2> HIDE DEF R
  <2>1. IsWellFoundedOn(R, Nat)
    BY NatLessThanWellFounded, Zenon DEF R
  <2>2. QED
    BY <2>1, WFMin, Zenon
<1>2. x - 1 \in Nat /\ x - 1 < x
  OBVIOUS
<1>3. <<x - 1, x>> \in R
  BY <1>2, Zenon DEF OpToRel
<1>4. x - 1 \in S
  BY <1>1, <1>2, <1>3
<1>5. QED
  BY <1>4

-----------------------------------------------------------------------------
(* The delay after n drops *)

LEMMA EscalatedType ==
  ASSUME NEW d \in Nat
  PROVE  Escalated(d) \in Nat
  BY EngineAssumption DEF Escalated, AtMost

LEMMA EscalatedBounds ==
  ASSUME NEW d \in MinDelay .. MaxDelay
  PROVE  Escalated(d) \in MinDelay .. MaxDelay /\ Escalated(d) >= d
  BY EngineAssumption DEF Escalated, AtMost

LEMMA EscalatedMonotone ==
  ASSUME NEW c \in Nat, NEW d \in Nat, c <= d
  PROVE  Escalated(c) <= Escalated(d)
  BY EngineAssumption DEF Escalated, AtMost

Delays == [Nat -> Nat]

\* Function g begins with the first n + 1 delays.
Begins(g, n) == g[0] = MinDelay /\ \A k \in 1 .. n : g[k] = Escalated(g[k - 1])

LEMMA SomethingBegins == \A n \in Nat : \E g \in Delays : Begins(g, n)
<1> DEFINE S == {n \in Nat : \E g \in Delays : Begins(g, n)}
<1>1. 0 \in S
  <2>1. [n \in Nat |-> MinDelay] \in Delays
    BY EngineAssumption DEF Delays
  <2>2. QED
    BY <2>1 DEF Begins
<1>2. ASSUME NEW n \in S PROVE n + 1 \in S
  <2>1. PICK g \in Delays : Begins(g, n)
    OBVIOUS
  <2> DEFINE h == [g EXCEPT ![n + 1] = Escalated(g[n])]
  <2>2. h \in Delays
    BY EscalatedType DEF Delays
  <2>3. h[0] = MinDelay
    BY <2>1 DEF Begins, Delays
  <2>4. ASSUME NEW k \in 1 .. n + 1 PROVE h[k] = Escalated(h[k - 1])
    BY <2>1 DEF Begins, Delays
  <2> HIDE DEF h
  <2>5. Begins(h, n + 1)
    BY <2>3, <2>4 DEF Begins
  <2>6. QED
    BY <2>2, <2>5
<1>3. S = Nat
  <2> HIDE DEF S
  <2>1. S \in SUBSET Nat
    BY DEF S
  <2>2. QED
    BY <1>1, <1>2, <2>1, Induction
<1>4. QED
  BY <1>3

LEMMA OneBegins ==
  ASSUME NEW g \in Delays, NEW h \in Delays, NEW n \in Nat, Begins(g, n), Begins(h, n)
  PROVE  g[n] = h[n]
<1> DEFINE S == {m \in Nat : m <= n => g[m] = h[m]}
<1>1. 0 \in S
  BY DEF Begins
<1>2. ASSUME NEW m \in S PROVE m + 1 \in S
  BY DEF Begins
<1>3. S = Nat
  <2> HIDE DEF S
  <2>1. S \in SUBSET Nat
    BY DEF S
  <2>2. QED
    BY <1>1, <1>2, <2>1, Induction
<1>4. QED
  BY <1>3

\* The recursion of DelayAfter has a solution: DelayAfter is one.
LEMMA DelayAfterUnfolds ==
  /\ DelayAfter \in Delays
  /\ DelayAfter[0] = MinDelay
  /\ \A n \in Nat : DelayAfter[n + 1] = Escalated(DelayAfter[n])
<1> DEFINE G(n) == CHOOSE g \in Delays : Begins(g, n)
           F    == [n \in Nat |-> G(n)[n]]
           Body(f) == [n \in Nat |-> IF n = 0 THEN MinDelay ELSE Escalated(f[n - 1])]
<1>1. \A n \in Nat : G(n) \in Delays /\ Begins(G(n), n)
  BY SomethingBegins
<1> HIDE DEF G
<1>2. F \in Delays
  BY <1>1 DEF Delays
<1>3. F[0] = MinDelay
  BY <1>1 DEF Begins
<1>4. ASSUME NEW n \in Nat PROVE F[n + 1] = Escalated(F[n])
  <2>1. G(n) \in Delays /\ G(n + 1) \in Delays /\ Begins(G(n), n) /\ Begins(G(n + 1), n)
    BY <1>1 DEF Begins
  <2>2. G(n + 1)[n] = G(n)[n]
    BY <2>1, OneBegins
  <2>3. G(n + 1)[n + 1] = Escalated(G(n + 1)[n])
    BY <1>1 DEF Begins
  <2>4. QED
    BY <2>2, <2>3
<1> HIDE DEF F
<1>5. F = Body(F)
  <2>1. F = [n \in Nat |-> F[n]]
    BY <1>2 DEF Delays
  <2>2. ASSUME NEW n \in Nat
        PROVE  F[n] = IF n = 0 THEN MinDelay ELSE Escalated(F[n - 1])
    <3>1. CASE n = 0
      BY <1>3, <3>1
    <3>2. CASE n # 0
      <4>1. n - 1 \in Nat /\ (n - 1) + 1 = n
        BY <3>2
      <4>2. QED
        BY <1>4, <3>2, <4>1
    <3>3. QED
      BY <3>1, <3>2
  <2>3. QED
    BY <2>1, <2>2
<1>6. DelayAfter = Body(DelayAfter)
  BY <1>5 DEF DelayAfter
<1>7. \A n \in Nat : DelayAfter[n] = IF n = 0 THEN MinDelay ELSE Escalated(DelayAfter[n - 1])
  BY <1>6
<1>8. DelayAfter[0] = MinDelay /\ \A n \in Nat : DelayAfter[n + 1] = Escalated(DelayAfter[n])
  BY <1>7
<1>9. DelayAfter = [n \in Nat |-> DelayAfter[n]]
  BY <1>6
<1>10. \A n \in Nat : DelayAfter[n] \in Nat
  <2> DEFINE S == {n \in Nat : DelayAfter[n] \in Nat}
  <2>1. 0 \in S
    BY <1>8, EngineAssumption
  <2>2. ASSUME NEW n \in S PROVE n + 1 \in S
    BY <1>8, EscalatedType
  <2>3. S = Nat
    <3> HIDE DEF S
    <3>1. S \in SUBSET Nat
      BY DEF S
    <3>2. QED
      BY <2>1, <2>2, <3>1, Induction
  <2>4. QED
    BY <2>3
<1>11. QED
  BY <1>8, <1>9, <1>10 DEF Delays

-----------------------------------------------------------------------------
(* The inductive invariant *)

LEMMA InitIInv == Init => IInv
<1> SUFFICES ASSUME Init PROVE IInv
  OBVIOUS
<1>1. InFlight = {}
  BY DEF Init, InFlight
<1>2. IsFiniteSet(InFlight) /\ Throttled
  BY <1>1, FS_EmptySet, EngineAssumption DEF Init, Throttled
<1>3. QED
  BY <1>2, EngineAssumption DEF Init, IInv, ProbeInv, TypeOK, Exhausted, SlowsOnCause, Mode

LEMMA ConcurrencyType ==
  ASSUME TypeOK
  PROVE  Concurrency \in 1 .. Requested
  BY EngineAssumption DEF TypeOK, Concurrency, AtLeast

LEMMA TunedType ==
  ASSUME TypeOK, NEW latency \in Latency
  PROVE  Tuned(latency) \in MinDelay .. MaxDelay
<1>1. delay \in MinDelay .. MaxDelay
  BY DEF TypeOK
<1>2. AtLeast(MinDelay, (9 * delay) \div 10) \in MinDelay .. MaxDelay
  BY <1>1, EngineAssumption DEF AtLeast
<1>3. QED
  BY <1>1, <1>2, EscalatedBounds DEF Tuned

\* One of the first SpikeFactor successes is no spike.
LEMMA FirstIsNoSpike ==
  ASSUME TypeOK, NEW latency \in Latency, succeeded + 1 <= SpikeFactor
  PROVE  ~Spikes(latency)
<1>1. latency \in Nat /\ latencies \in Nat /\ succeeded \in Nat /\ SpikeFactor \in Nat
  BY EngineAssumption DEF TypeOK
<1>2. \A a, b, c, d \in Nat : a + 1 <= b => c * (a + 1) <= b * (d + c)
  <2> SUFFICES ASSUME NEW a \in Nat, NEW b \in Nat, NEW c \in Nat, NEW d \in Nat, a + 1 <= b
               PROVE  c * (a + 1) <= b * (d + c)
    OBVIOUS
  <2>1. PICK e \in Nat : b = (a + 1) + e
    <3>1. b - (a + 1) \in Nat
      OBVIOUS
    <3>2. QED
      BY <3>1
  <2>2. b * (d + c) = c * (a + 1) + (d * (a + 1) + e * (d + c))
    BY <2>1
  <2>3. d * (a + 1) \in Nat /\ e * (d + c) \in Nat /\ c * (a + 1) \in Nat
    OBVIOUS
  <2>4. QED
    BY <2>2, <2>3
<1>3. QED
  BY <1>1, <1>2 DEF Spikes

LEMMA TunedAtFirst ==
  ASSUME TypeOK, NEW latency \in Latency, succeeded + 1 <= SpikeFactor, dropped = 0, delay = MinDelay
  PROVE  Tuned(latency) = MinDelay
<1>1. 100 * dropped < Reliable * (Sent + 1)
  <2>1. \A r, n \in Nat : r > 0 => 0 < r * (n + 1)
    OBVIOUS
  <2>2. QED
    BY <2>1, EngineAssumption DEF TypeOK, Sent
<1>2. AtLeast(MinDelay, (9 * delay) \div 10) = MinDelay
  BY EngineAssumption DEF AtLeast
<1>3. QED
  BY <1>1, <1>2, FirstIsNoSpike DEF Tuned

\* A batch is followed by the next one when none of its probes is under way.
LEMMA BatchIsOver ==
  ASSUME IInv, NextBatch
  PROVE  InFlight = {}
  BY DEF IInv, ProbeInv, Throttled, NextBatch, InFlight

\* At most one probe comes under way, and only through the semaphore.
LEMMA ThrottledStep ==
  ASSUME IInv, TypeOK', [Next]_vars
  PROVE  IsFiniteSet(InFlight') /\ Throttled'
<1>1. /\ IsFiniteSet(InFlight) /\ Cardinality(InFlight) <= permits /\ permits \in Nat
      /\ \A i \in InFlight : BatchOf[i] = batch
      /\ Cardinality(InFlight) \in Nat /\ pc \in [Item -> {"new", "paused", "running", "done"}]
  BY FS_CardinalityType, EngineAssumption DEF IInv, ProbeInv, TypeOK, Throttled
<1>2. CASE NextBatch
  <2>1. InFlight = {} /\ InFlight' = {}
    BY <1>2, BatchIsOver DEF NextBatch, InFlight
  <2>2. permits' \in Nat
    BY EngineAssumption DEF TypeOK
  <2>3. QED
    BY <2>1, <2>2, FS_EmptySet DEF Throttled
<1>3. ASSUME NEW i \in Item, Start(i)
      PROVE  IsFiniteSet(InFlight') /\ Throttled'
  <2>1. InFlight' = InFlight \union {i} /\ i \notin InFlight /\ UNCHANGED <<batch, permits>>
    BY <1>1, <1>3 DEF Start, Pause, InFlight
  <2>2. IsFiniteSet(InFlight') /\ Cardinality(InFlight') = Cardinality(InFlight) + 1
    BY <1>1, <2>1, FS_AddElement
  <2>3. Cardinality(InFlight) < permits /\ BatchOf[i] = batch
    BY <1>3 DEF Start
  <2>4. QED
    BY <1>1, <2>1, <2>2, <2>3 DEF Throttled
<1>4. CASE InFlight' \in SUBSET InFlight /\ UNCHANGED <<batch, permits>>
  BY <1>1, <1>4, FS_Subset, FS_CardinalityType DEF Throttled
<1>5. ASSUME NEW i \in Item, Wake(i) \/ Succeed(i) \/ Drop(i) \/ Raise(i)
      PROVE  InFlight' \in SUBSET InFlight /\ UNCHANGED <<batch, permits>>
  BY <1>1, <1>5 DEF Wake, Succeed, Drop, Raise, InFlight
<1>6. CASE UNCHANGED vars
  BY <1>4, <1>6 DEF vars, InFlight
<1>7. QED
  BY <1>2, <1>3, <1>4, <1>5, <1>6 DEF Next, Probe

\* A step of a probe leaves the other probes alone.
LEMMA StepProbes ==
  ASSUME IInv, [Next]_vars
  PROVE  ProbeInv'
<1> USE DEF IInv, ProbeInv
<1>1. CASE UNCHANGED vars
  BY <1>1 DEF vars, stats, TypeOK, Exhausted, SlowsOnCause
<1>2. CASE NextBatch
  <2>1. permits' \in 1 .. Requested
    BY <1>2, ConcurrencyType DEF NextBatch
  <2>2. batch' \in 1 .. Batches + 1
    BY <1>2, EngineAssumption DEF NextBatch, TypeOK
  <2>3. QED
    BY <1>2, <2>1, <2>2 DEF NextBatch, stats, TypeOK, Exhausted, SlowsOnCause
<1>3. ASSUME NEW i \in Item, Start(i) PROVE ProbeInv'
  BY <1>3, EngineAssumption DEF Start, Pause, stats, TypeOK, Exhausted, SlowsOnCause
<1>4. ASSUME NEW i \in Item, Wake(i) PROVE ProbeInv'
  BY <1>4 DEF Wake, stats, TypeOK, Exhausted, SlowsOnCause
<1>5. ASSUME NEW i \in Item, Succeed(i) PROVE ProbeInv'
  <2>1. PICK latency \in Latency :
          /\ latencies' = latencies + latency
          /\ delay' = IF mode = "adaptive" THEN Tuned(latency) ELSE delay
    BY <1>5 DEF Succeed
  <2>2. TypeOK'
    <3>1. delay' \in MinDelay .. MaxDelay /\ latencies' \in Nat
      BY <2>1, TunedType, EngineAssumption DEF TypeOK
    <3>2. QED
      BY <1>5, <3>1 DEF Succeed, StreakReset, TypeOK
  <2>3. Exhausted'
    BY <1>5 DEF Succeed, TypeOK, Exhausted
  <2>4. SlowsOnCause'
    <3>1. SUFFICES ASSUME dropped = 0, succeeded + 1 <= SpikeFactor
                   PROVE  delay' = MinDelay
      BY <1>5 DEF Succeed, SlowsOnCause
    <3>2. delay = MinDelay
      BY <3>1, EngineAssumption DEF SlowsOnCause, TypeOK
    <3>3. QED
      BY <2>1, <3>1, <3>2, TunedAtFirst
  <2>5. QED
    BY <1>5, <2>2, <2>3, <2>4 DEF Succeed, TypeOK
<1>6. ASSUME NEW i \in Item, Drop(i) PROVE ProbeInv'
  <2>1. delay' \in MinDelay .. MaxDelay
    BY <1>6, EscalatedBounds DEF Drop, TypeOK
  <2>2. drops[i] \in 0 .. MaxRetries - 1
    BY <1>6, EngineAssumption DEF Drop, TypeOK
  <2>3. TypeOK'
    BY <1>6, <2>1, <2>2, EngineAssumption DEF Drop, LastAttempt, TypeOK
  <2>4. Exhausted'
    BY <1>6, <2>2, EngineAssumption DEF Drop, LastAttempt, TypeOK, Exhausted
  <2>5. SlowsOnCause'
    BY <1>6 DEF Drop, TypeOK, SlowsOnCause
  <2>6. QED
    BY <1>6, <2>2, <2>3, <2>4, <2>5, EngineAssumption DEF Drop, LastAttempt, TypeOK
<1>7. ASSUME NEW i \in Item, Raise(i) PROVE ProbeInv'
  BY <1>7 DEF Raise, stats, TypeOK, Exhausted, SlowsOnCause
<1>8. QED
  BY <1>1, <1>2, <1>3, <1>4, <1>5, <1>6, <1>7 DEF Next, Probe

LEMMA StepIInv == IInv /\ [Next]_vars => IInv'
  BY StepProbes, ThrottledStep DEF IInv, ProbeInv

\* Types, and what the statistics and the probes say of each other.
THEOREM EngineInvariance == Spec => []IInv
  BY InitIInv, StepIInv, PTL DEF Spec

\* A probe without a value has used every attempt, unless it raised.
THEOREM ProbesAreExhausted == Spec => []Exhausted
<1>1. IInv => Exhausted
  BY DEF IInv, ProbeInv
<1>2. QED
  BY <1>1, EngineInvariance, PTL

\* Without a drop, the first SpikeFactor successes do not slow the engine.
THEOREM EngineSlowsOnCause == Spec => []SlowsOnCause
<1>1. IInv => SlowsOnCause
  BY DEF IInv, ProbeInv
<1>2. QED
  BY <1>1, EngineInvariance, PTL

\* No more probes are under way than the concurrency computed for their batch.
THEOREM ConcurrencyIsKept == Spec => []Throttled
<1>1. IInv => Throttled
  BY DEF IInv, ProbeInv
<1>2. QED
  BY <1>1, EngineInvariance, PTL

-----------------------------------------------------------------------------
(* Statistics *)

\* What makes Accounted inductive: what is counted is finite.
Counted == IsFiniteSet(Reached) /\ IsFiniteSet(DroppedAttempts) /\ Accounted

LEMMA InitCounted == Init => Counted
<1> SUFFICES ASSUME Init PROVE Counted
  OBVIOUS
<1>1. Reached = {}
  BY DEF Init, Reached
<1>2. DroppedAttempts = {}
  BY DEF Init, DroppedAttempts
<1>3. QED
  BY <1>1, <1>2, FS_EmptySet DEF Init, Counted, Accounted

LEMMA StepCounted == IInv /\ Counted /\ [Next]_vars => Counted'
<1> SUFFICES ASSUME IInv, Counted, [Next]_vars PROVE Counted'
  OBVIOUS
<1>1. /\ drops \in [Item -> 0 .. MaxRetries] /\ result \in [Item -> {"none", "value", "raised"}]
      /\ succeeded \in Nat /\ dropped \in Nat /\ MaxRetries \in Nat
      /\ \A i \in Item : result[i] # "none" => pc[i] = "done"
      /\ \A i \in Item : pc[i] = "running" => drops[i] < MaxRetries
  BY EngineAssumption DEF IInv, ProbeInv, TypeOK, Exhausted
<1>2. /\ IsFiniteSet(Reached) /\ succeeded = Cardinality(Reached)
      /\ IsFiniteSet(DroppedAttempts) /\ dropped = Cardinality(DroppedAttempts)
  BY DEF Counted, Accounted
<1>3. CASE UNCHANGED <<succeeded, dropped, Reached, DroppedAttempts>>
  BY <1>2, <1>3 DEF Counted, Accounted
<1>4. ASSUME NEW i \in Item, Succeed(i) PROVE Counted'
  <2>1. Reached' = Reached \union {i} /\ i \notin Reached
    BY <1>1, <1>4 DEF Succeed, Reached
  <2>2. IsFiniteSet(Reached') /\ Cardinality(Reached') = succeeded + 1
    BY <1>2, <2>1, FS_AddElement
  <2>3. UNCHANGED <<dropped, DroppedAttempts>> /\ succeeded' = succeeded + 1
    BY <1>4 DEF Succeed, DroppedAttempts
  <2>4. QED
    BY <1>2, <2>2, <2>3 DEF Counted, Accounted
<1>5. ASSUME NEW i \in Item, Drop(i) PROVE Counted'
  <2> DEFINE a == <<i, drops[i] + 1>>
  <2>1. drops[i] + 1 \in 1 .. MaxRetries /\ drops' = [drops EXCEPT ![i] = drops[i] + 1]
    BY <1>1, <1>5 DEF Drop
  <2>2. a \in Item \X (1 .. MaxRetries) /\ a \notin DroppedAttempts
    BY <1>1, <2>1 DEF DroppedAttempts
  <2>3. ASSUME NEW b \in Item \X (1 .. MaxRetries)
        PROVE  b[2] <= drops'[b[1]] <=> b[2] <= drops[b[1]] \/ b = a
    BY <1>1, <2>1
  <2>4. DroppedAttempts' = DroppedAttempts \union {a}
    <3> HIDE DEF a
    <3>1. QED
      BY <2>2, <2>3 DEF DroppedAttempts
  <2>5. IsFiniteSet(DroppedAttempts') /\ Cardinality(DroppedAttempts') = dropped + 1
    BY <1>2, <2>2, <2>4, FS_AddElement
  <2>6. UNCHANGED <<succeeded, Reached>> /\ dropped' = dropped + 1
    BY <1>5 DEF Drop, Reached
  <2>7. QED
    BY <1>2, <2>5, <2>6 DEF Counted, Accounted
<1>6. ASSUME NEW i \in Item, Raise(i) PROVE UNCHANGED <<succeeded, dropped, Reached, DroppedAttempts>>
  BY <1>1, <1>6 DEF Raise, stats, Reached, DroppedAttempts
<1>7. QED
  BY <1>3, <1>4, <1>5, <1>6 DEF Next, Probe, NextBatch, Start, Wake, vars, stats, Reached, DroppedAttempts

\* Successes and dropped attempts are counted once each, however the probes
\* interleave: gather awaits them all, and they share one AdaptiveStats.
THEOREM StatisticsAreAccounted == Spec => []Accounted
<1>1. Counted => Accounted
  BY DEF Counted
<1>2. QED
  BY <1>1, InitCounted, StepCounted, EngineInvariance, PTL DEF Spec

-----------------------------------------------------------------------------
(* Drops in a row *)

LEMMA StepSlowsDown == IInv /\ SlowsDown /\ [Next]_vars => SlowsDown'
<1> SUFFICES ASSUME TypeOK, SlowsDown, [Next]_vars, mode' = "adaptive"
             PROVE  delay' >= DelayAfter[consecutive']
  BY DEF IInv, ProbeInv, SlowsDown
<1>1. mode' = mode
  BY DEF Next, Probe, NextBatch, Start, Wake, Succeed, Drop, Raise, vars
<1>2. consecutive \in Nat /\ delay \in Nat /\ DelayAfter[consecutive] \in Nat
      /\ delay >= DelayAfter[consecutive]
  BY <1>1, DelayAfterUnfolds, EngineAssumption DEF TypeOK, SlowsDown, Delays
<1>3. CASE UNCHANGED stats
  BY <1>2, <1>3 DEF stats
<1>4. ASSUME NEW i \in Item, Succeed(i) PROVE delay' >= DelayAfter[consecutive']
  <2>1. consecutive' = 0
    BY <1>4 DEF Succeed, StreakReset
  <2>2. delay' \in MinDelay .. MaxDelay
    <3>1. PICK latency \in Latency :
            delay' = IF mode = "adaptive" THEN Tuned(latency) ELSE delay
      BY <1>4 DEF Succeed
    <3>2. QED
      BY <3>1, TunedType DEF TypeOK
  <2>3. QED
    BY <2>1, <2>2, DelayAfterUnfolds, EngineAssumption
<1>5. ASSUME NEW i \in Item, Drop(i) PROVE delay' >= DelayAfter[consecutive']
  <2>1. delay' = Escalated(delay) /\ consecutive' = consecutive + 1
    BY <1>1, <1>5 DEF Drop
  <2>2. Escalated(DelayAfter[consecutive]) <= Escalated(delay)
    BY <1>2, EscalatedMonotone
  <2>3. DelayAfter[consecutive + 1] = Escalated(DelayAfter[consecutive])
    BY <1>2, DelayAfterUnfolds
  <2>4. QED
    BY <2>1, <2>2, <2>3
<1>6. QED
  BY <1>3, <1>4, <1>5 DEF Next, Probe, NextBatch, Start, Wake, Raise, vars

\* In adaptive mode n drops in a row slow the engine down n times.
THEOREM DropsSlowDown == Spec => []SlowsDown
<1>1. Init => SlowsDown
  BY DelayAfterUnfolds, EngineAssumption DEF Init, SlowsDown
<1>2. QED
  BY <1>1, EngineInvariance, StepSlowsDown, PTL DEF Spec

-----------------------------------------------------------------------------
(* The engine has no loop that goes on for ever *)

\* A probe's own step brings it nearer to its end and leaves the others be.
LEMMA ProbeCounts ==
  ASSUME ProbeInv, NEW i \in Item, Probe(i)
  PROVE  /\ StepsLeft(i)' < StepsLeft(i)
         /\ \A j \in Item \ {i} : StepsLeft(j)' = StepsLeft(j)
<1> USE DEF StepsLeft
<1>1. /\ pc \in [Item -> {"new", "paused", "running", "done"}]
      /\ drops \in [Item -> 0 .. MaxRetries] /\ drops[i] \in Nat /\ MaxRetries \in Nat
      /\ pc[i] # "done" => drops[i] < MaxRetries
  BY EngineAssumption DEF ProbeInv, TypeOK
<1>2. CASE Start(i)
  BY <1>1, <1>2 DEF Start, Pause
<1>3. CASE Wake(i)
  BY <1>1, <1>3 DEF Wake
<1>4. CASE Succeed(i)
  BY <1>1, <1>4 DEF Succeed
<1>5. CASE Drop(i)
  BY <1>1, <1>5 DEF Drop, LastAttempt
<1>6. CASE Raise(i)
  BY <1>1, <1>6 DEF Raise
<1>7. QED
  BY <1>2, <1>3, <1>4, <1>5, <1>6 DEF Probe

\* However the attempts of probes interleave, each of them is numbered.
THEOREM EnginesGetOn == Spec => GetsOn
<1>1. ASSUME IInv, [Next]_vars
      PROVE  [\/ batch' > batch /\ \A i \in Item : StepsLeft(i)' = StepsLeft(i)
              \/ \E i \in Item :
                   StepsLeft(i)' < StepsLeft(i) /\ \A j \in Item \ {i} : StepsLeft(j)' = StepsLeft(j)]_vars
  <2>1. CASE NextBatch
    BY <1>1, <2>1, EngineAssumption DEF NextBatch, StepsLeft, IInv, ProbeInv, TypeOK
  <2>2. CASE \E i \in Item : Probe(i)
    BY <1>1, <2>2, ProbeCounts DEF IInv
  <2>3. QED
    BY <1>1, <2>1, <2>2 DEF Next
<1>2. QED
  BY <1>1, EngineInvariance, PTL DEF Spec, GetsOn
=============================================================================
