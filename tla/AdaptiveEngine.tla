---------------------------- MODULE AdaptiveEngine ----------------------------
(***************************************************************************)
(* An AdaptiveScanEngine that serves batch after batch.  The probes of a    *)
(* batch run at once, as many as its semaphore lets through, and share the  *)
(* statistics; a probe is interrupted at its sleeps and while its coroutine *)
(* runs, never while it records what became of an attempt.                  *)
(*                                                                          *)
(* Delays and latencies are whole ticks, a product with 1.5 or 0.9 rounded  *)
(* down.                                                                    *)
(***************************************************************************)
EXTENDS Integers, FiniteSets

CONSTANTS
  Item,        \* what is probed
  BatchOf,     \* the number of the batch of each item, from 1
  Batches,     \* how many batches there are
  Requested,   \* the concurrency each batch asks for
  Latency,     \* how long an attempt that succeeds may take
  MaxRetries,  \* max_retries
  MinDelay,    \* min_delay
  MaxDelay,    \* max_delay
  DropRate,    \* _DROP_RATE_THRESHOLD, in percent
  Reliable,    \* the drop rate below which _tune_delay speeds up, in percent
  SpikeFactor, \* _LATENCY_SPIKE_FACTOR
  MaxDrops     \* _MAX_CONSECUTIVE_DROPS

Mode == {"aggressive", "normal", "stealth", "adaptive"}

ASSUME EngineAssumption ==
  /\ Batches \in Nat \ {0}
  /\ BatchOf \in [Item -> 1 .. Batches]
  /\ Requested \in Nat \ {0}
  /\ Latency \subseteq Nat
  /\ MaxRetries \in Nat \ {0}
  /\ MinDelay \in Nat /\ MaxDelay \in Nat /\ MinDelay <= MaxDelay
  /\ DropRate \in 1 .. 100 /\ Reliable \in 1 .. 100
  /\ SpikeFactor \in Nat \ {0}
  /\ MaxDrops \in Nat \ {0}

VARIABLES
  mode,         \* self.mode
  batch,        \* the batch that runs; Batches + 1 when all have
  permits,      \* the value its semaphore was made with
  pc,           \* of each probe: "new", "paused" in a sleep, "running" or "done"
  drops,        \* the attempts of each probe that were dropped
  result,       \* what the probe returned: "none", a "value", or "raised"
  succeeded,    \* stats.probes_succeeded
  dropped,      \* stats.probes_dropped
  latencies,    \* stats.total_latency_ms
  consecutive,  \* stats.consecutive_drops
  delay         \* stats.current_delay

stats == <<succeeded, dropped, latencies, consecutive, delay>>
vars  == <<mode, batch, permits, pc, drops, result, stats>>

TypeOK ==
  /\ mode \in Mode
  /\ batch \in 1 .. Batches + 1
  /\ permits \in 1 .. Requested
  /\ pc \in [Item -> {"new", "paused", "running", "done"}]
  /\ drops \in [Item -> 0 .. MaxRetries]
  /\ result \in [Item -> {"none", "value", "raised"}]
  /\ succeeded \in Nat /\ dropped \in Nat /\ latencies \in Nat
  /\ consecutive \in 0 .. dropped
  /\ delay \in MinDelay .. MaxDelay

\* stats.probes_sent: it goes up with one of the two counters, in one step.
Sent == succeeded + dropped

Init ==
  /\ mode \in Mode
  /\ batch = 1
  /\ permits = Requested
  /\ pc = [i \in Item |-> "new"]
  /\ drops = [i \in Item |-> 0]
  /\ result = [i \in Item |-> "none"]
  /\ succeeded = 0 /\ dropped = 0 /\ latencies = 0
  /\ consecutive = 0
  /\ delay = MinDelay

-----------------------------------------------------------------------------
AtMost(x, y)  == IF x < y THEN x ELSE y
AtLeast(x, y) == IF x > y THEN x ELSE y

\* _escalate_delay
Escalated(d) == AtMost(MaxDelay, (3 * d) \div 2)

\* Mutant: the average is that of the attempts before this one.
SpikesEarlier(latency) == latency * succeeded > SpikeFactor * latencies

\* The latency is more than SpikeFactor times the average.  It is part of the
\* average already.
Spikes(latency) == latency * (succeeded + 1) > SpikeFactor * (latencies + latency)

\* _tune_delay
Tuned(latency) ==
  IF Spikes(latency) THEN Escalated(delay)
  ELSE IF 100 * dropped < Reliable * (Sent + 1)
         THEN AtLeast(MinDelay, (9 * delay) \div 10)
         ELSE delay

\* Mutant: a concurrency of one is halved too.
ConcurrencyHalved ==
  IF 100 * dropped > DropRate * Sent THEN Requested \div 2
  ELSE IF consecutive >= MaxDrops THEN Requested \div 4
  ELSE Requested

\* _effective_concurrency
Concurrency ==
  IF 100 * dropped > DropRate * Sent THEN AtLeast(1, Requested \div 2)
  ELSE IF consecutive >= MaxDrops THEN AtLeast(1, Requested \div 4)
  ELSE Requested

InFlight == {i \in Item : pc[i] \in {"paused", "running"}}

\* _pre_probe_delay: the sleep before an attempt, none if it is zero.
Pause(i) ==
  IF mode = "aggressive" \/ (mode = "adaptive" /\ MinDelay = 0)
    THEN pc' = [pc EXCEPT ![i] = "running"]
    ELSE pc' = [pc EXCEPT ![i] = "paused"]

\* The semaphore lets probe i through.
Start(i) ==
  /\ BatchOf[i] = batch
  /\ pc[i] = "new"
  /\ Cardinality(InFlight) < permits
  /\ Pause(i)
  /\ UNCHANGED <<mode, batch, permits, drops, result, stats>>

\* The sleeps before an attempt are over.
Wake(i) ==
  /\ pc[i] = "paused"
  /\ pc' = [pc EXCEPT ![i] = "running"]
  /\ UNCHANGED <<mode, batch, permits, drops, result, stats>>

\* Mutant: the run of drops is not reset.
StreakKept == consecutive' = consecutive

StreakReset == consecutive' = 0

\* The attempt succeeds, after `latency`: _record_success.
Succeed(i) ==
  /\ pc[i] = "running"
  /\ pc' = [pc EXCEPT ![i] = "done"]
  /\ result' = [result EXCEPT ![i] = "value"]
  /\ StreakReset
  /\ succeeded' = succeeded + 1
  /\ \E latency \in Latency :
       /\ latencies' = latencies + latency
       /\ delay' = IF mode = "adaptive" THEN Tuned(latency) ELSE delay
  /\ UNCHANGED <<mode, batch, permits, drops, dropped>>

\* Mutant: one attempt more.
LastOneLate(attempt) == attempt = MaxRetries + 1

LastAttempt(attempt) == attempt = MaxRetries

\* The attempt times out or the connection fails: _record_drop, and a
\* back-off before the next attempt, if there is one.
Drop(i) ==
  /\ pc[i] = "running"
  /\ drops' = [drops EXCEPT ![i] = @ + 1]
  /\ pc' = [pc EXCEPT ![i] = IF LastAttempt(drops'[i]) THEN "done" ELSE "paused"]
  /\ dropped' = dropped + 1
  /\ consecutive' = consecutive + 1
  /\ delay' = IF mode = "adaptive" THEN Escalated(delay) ELSE delay
  /\ UNCHANGED <<mode, batch, permits, result, succeeded, latencies>>

\* Any other exception leaves probe unrecorded; gather keeps it and
\* batch_probe returns None in its place.
Raise(i) ==
  /\ pc[i] = "running"
  /\ pc' = [pc EXCEPT ![i] = "done"]
  /\ result' = [result EXCEPT ![i] = "raised"]
  /\ UNCHANGED <<mode, batch, permits, drops, stats>>

\* The batch returns; the next one computes its concurrency, once.
NextBatch ==
  /\ batch <= Batches
  /\ \A i \in Item : BatchOf[i] = batch => pc[i] = "done"
  /\ batch' = batch + 1
  /\ permits' = Concurrency
  /\ UNCHANGED <<mode, pc, drops, result, stats>>

Probe(i) == Start(i) \/ Wake(i) \/ Succeed(i) \/ Drop(i) \/ Raise(i)
Next == NextBatch \/ \E i \in Item : Probe(i)

Spec     == Init /\ [][Next]_vars
\* The coroutine of a probe ends: it brings the timeout that a drop reports.
FairSpec == Spec /\ WF_vars(NextBatch) /\ \A i \in Item : WF_vars(Probe(i))

-----------------------------------------------------------------------------
(* Properties *)

\* What batch_probe returns of an item tells whether it was reached: a probe
\* without a value has used every attempt, unless an exception left it, and
\* one with a value was dropped fewer times than there are attempts.
Exhausted ==
  \A i \in Item :
    /\ pc[i] = "done" /\ result[i] = "none" <=> drops[i] = MaxRetries
    /\ result[i] # "none" => pc[i] = "done"

\* The statistics the engine reports are those of its probes, however their
\* attempts interleaved: an item with a value is one success, and every attempt
\* that was dropped counts once, whatever became of its probe.
Reached         == {i \in Item : result[i] = "value"}
DroppedAttempts == {a \in Item \X (1 .. MaxRetries) : a[2] <= drops[a[1]]}
Accounted ==
  /\ succeeded = Cardinality(Reached)
  /\ dropped = Cardinality(DroppedAttempts)

\* The semaphore: no more probes are under way than the concurrency computed
\* for their batch, and none of another batch.
Throttled ==
  /\ Cardinality(InFlight) <= permits
  /\ \A i \in InFlight : BatchOf[i] = batch

\* The delay after n drops in a row, from the shortest delay.
DelayAfter[n \in Nat] == IF n = 0 THEN MinDelay ELSE Escalated(DelayAfter[n - 1])

\* In adaptive mode n drops in a row, of whatever probes, slow the engine
\* down n times, whatever it had sped up before.
SlowsDown == mode = "adaptive" => delay >= DelayAfter[consecutive]

\* The first SpikeFactor successes cannot be spikes, since each is part of
\* the average it is compared with: until then only drops slow the engine.
SlowsOnCause == dropped = 0 /\ succeeded <= SpikeFactor => delay = MinDelay

\* Every batch returns, whatever its probes meet.
Ends == <>(batch > Batches)

\* A bound on the steps that probe i has still to take: two for each attempt.
StepsLeft(i) ==
  LET attempts == MaxRetries - drops[i]
  IN [new     |-> 2 * attempts + 2, paused |-> 2 * attempts + 1,
      running |-> 2 * attempts,     done   |-> 0][pc[i]]

\* The engine has no loop that goes on for ever: every step brings one probe
\* nearer to its end and no other farther from its own, or ends a batch.
GetsOn ==
  [][\/ batch' > batch /\ \A i \in Item : StepsLeft(i)' = StepsLeft(i)
     \/ \E i \in Item :
          StepsLeft(i)' < StepsLeft(i) /\ \A j \in Item \ {i} : StepsLeft(j)' = StepsLeft(j)]_vars

\* "Automatically lowers concurrency if the drop rate climbs."  Does not
\* hold: the drops of a batch slow the next one only.
ThrottledAtOnce ==
  [][\A i \in Item : pc[i] = "new" /\ pc'[i] # "new" =>
       Cardinality(InFlight) < Concurrency]_vars

-----------------------------------------------------------------------------
\* What makes the properties inductive: the probes and the statistics, and
\* the semaphore.
ProbeInv ==
  /\ TypeOK
  /\ Exhausted
  /\ SlowsOnCause
  /\ \A i \in Item : pc[i] \in {"new", "paused", "running"} => drops[i] < MaxRetries
  /\ \A i \in Item : pc[i] = "new" => drops[i] = 0

IInv == ProbeInv /\ IsFiniteSet(InFlight) /\ Throttled
=============================================================================
