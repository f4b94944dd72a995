------------------------ MODULE RescanScheduler_proofs ------------------------
(***************************************************************************)
(* Theorems about RescanScheduler, for any targets, periods and events.     *)
(* What is said of one scheduler assumes that there is one API process.     *)
(***************************************************************************)
EXTENDS RescanScheduler, TLAPS

LEMMA OlderType ==
  ASSUME NEW a \in Age
  PROVE  Older(a) \in Age /\ Older(a) >= a /\ (a < Interval => Older(a) = a + 1)
                          /\ (a = Interval => Older(a) = Interval)
  BY PeriodsAssumption DEF Age, Older

LEMMA InitTypeOK == Init => TypeOK
  BY PeriodsAssumption DEF Init, TypeOK, Age

LEMMA SleepType ==
  ASSUME TypeOK, NEW p \in Process, Sleep(p)
  PROVE  TypeOK'
  BY PeriodsAssumption DEF TypeOK, Sleep, targets, scans, history

LEMMA NextTypeOK == TypeOK /\ [Next]_vars => TypeOK'
<1> SUFFICES ASSUME TypeOK, [Next]_vars PROVE TypeOK'
  OBVIOUS
<1>1. CASE Tick
  <2>1. \A p \in Process : (IF wait[p] > 0 THEN wait[p] - 1 ELSE 0) \in 0 .. TickPeriod
    BY PeriodsAssumption DEF TypeOK
  <2>2. QED
    BY <1>1, <2>1, OlderType DEF TypeOK, Tick, scans
<1>2. ASSUME NEW p \in Process, SchedulerStep(p)
      PROVE  TypeOK'
  <2>1. CASE Start(p)
    BY <2>1, PeriodsAssumption DEF TypeOK, Start, targets, scans, history
  <2>2. CASE Select(p)
    BY <2>2 DEF TypeOK, Select, targets, scans, history
  <2>3. CASE Collected(p)
    BY <2>3 DEF TypeOK, Collected, targets, scans, history
  <2>4. CASE CollectFault(p) \/ Done(p)
    BY <2>4, SleepType DEF CollectFault, Done
  <2>5. ASSUME NEW t \in Target, Check(p, t)
        PROVE  TypeOK'
    BY <2>5 DEF TypeOK, Check, targets, scans, history
  <2>6. ASSUME NEW t \in Target, Fire(p, t)
        PROVE  TypeOK'
    BY <2>6, PeriodsAssumption DEF TypeOK, Fire, targets, Age
  <2>7. ASSUME NEW t \in Target, FireFault(p, t)
        PROVE  TypeOK'
    BY <2>7 DEF TypeOK, FireFault, targets, scans, history
  <2>8. QED
    BY <1>2, <2>1, <2>2, <2>3, <2>4, <2>5, <2>6, <2>7 DEF SchedulerStep
<1>3. ASSUME NEW p \in Process, Stop(p)
      PROVE  TypeOK'
  BY <1>3 DEF TypeOK, Stop, targets, scans, history
<1>4. ASSUME NEW t \in Target, Complete(t) \/ Fail(t)
      PROVE  TypeOK'
  <2>1. live' \in [Target -> Nat]
    BY <1>4 DEF TypeOK, Complete, Fail
  <2>2. QED
    BY <1>4, <2>1, PeriodsAssumption
       DEF TypeOK, Complete, Fail, targets, history, schedulers, Age
<1>5. ASSUME NEW t \in Target, Lose(t) \/ Manual(t)
      PROVE  TypeOK'
  BY <1>5 DEF TypeOK, Lose, Manual, targets, history, schedulers
<1>6. ASSUME NEW t \in Target, Toggle(t)
      PROVE  TypeOK'
  BY <1>6 DEF TypeOK, Toggle, scans, history, schedulers
<1>7. CASE UNCHANGED vars
  BY <1>7 DEF TypeOK, vars, targets, scans, history, schedulers
<1>8. QED
  BY <1>1, <1>2, <1>3, <1>4, <1>5, <1>6, <1>7 DEF Next, Ends

\* Every reachable state is well typed, however many schedulers there are.
THEOREM SchedulerTypes == Spec => []TypeOK
  BY InitTypeOK, NextTypeOK, PTL DEF Spec

-----------------------------------------------------------------------------
(* One scheduler *)

PairInv(p, t) ==
  /\ Settled(p, t)
  /\ Spacing(p, t)
  /\ "manual" \notin Events[t] => Unique(p, t)
  /\ "manual" \notin Events[t] /\ "fail" \notin Events[t] => Stamped(p, t)

LEMMA InitPairInv ==
  ASSUME Init, NEW p \in Process, NEW t \in Target
  PROVE  PairInv(p, t)
<1>1. sinceScan[t] <= Interval /\ Interval \in Nat /\ TickPeriod \in Nat /\ TickPeriod <= Interval
  BY PeriodsAssumption DEF Init
<1>2. QED
  BY <1>1 DEF Init, PairInv, Settled, Spacing, Unique, Stamped, Open

\* Sleeping on is safe wherever the tick was left.
LEMMA SleepPair ==
  ASSUME TypeOK, NEW p \in Process, NEW t \in Target, PairInv(p, t), Sleep(p)
  PROVE  PairInv(p, t)'
<1>1. /\ pc'[p] = "sleep" /\ wait'[p] = TickPeriod /\ snap'[p] = {} /\ due'[p] = {}
      /\ live' = live /\ lost' = lost /\ last' = last /\ lastButOne' = lastButOne
      /\ sinceScan' = sinceScan
  BY DEF TypeOK, Sleep, targets, scans, history
<1>2. last[t] \in Nat /\ TickPeriod \in Nat
  BY PeriodsAssumption DEF TypeOK, Age
<1>3. QED
  BY <1>1, <1>2 DEF PairInv, Settled, Spacing, Unique, Stamped, Open

LEMMA TickPair ==
  ASSUME TypeOK, NEW p \in Process, NEW t \in Target, PairInv(p, t), Tick
  PROVE  PairInv(p, t)'
<1>1. /\ sinceScan'[t] = Older(sinceScan[t]) /\ last'[t] = Older(last[t])
      /\ lastButOne'[t] = Older(lastButOne[t])
      /\ wait'[p] = (IF wait[p] > 0 THEN wait[p] - 1 ELSE 0)
      /\ pc' = pc /\ snap' = snap /\ due' = due /\ live' = live /\ lost' = lost
  BY DEF Tick, scans
<1>2. /\ sinceScan[t] \in Nat /\ last[t] \in Nat /\ lastButOne[t] \in Nat
      /\ sinceScan[t] <= Interval /\ last[t] <= Interval /\ lastButOne[t] <= Interval
      /\ wait[p] \in Nat /\ wait[p] <= TickPeriod
      /\ Interval \in Nat /\ TickPeriod \in Nat /\ TickPeriod <= Interval
  BY PeriodsAssumption DEF TypeOK, Age
<1>3. Settled(p, t)'
  BY <1>1 DEF PairInv, Settled
<1>4. Spacing(p, t)'
  <2>1. last'[t] >= last[t] /\ (last[t] < Interval => last'[t] = last[t] + 1)
        /\ (last[t] = Interval => last'[t] = Interval)
    BY <1>1, <1>2 DEF Older
  <2>2. last'[t] \in Nat /\ wait'[p] \in Nat /\ wait'[p] + 1 >= wait[p]
    BY <1>1, <1>2 DEF Older
  <2>3. pc[p] = "sleep" => last'[t] + wait'[p] >= TickPeriod
    <3>1. CASE last[t] < Interval
      BY <1>2, <2>1, <2>2, <3>1 DEF PairInv, Spacing
    <3>2. CASE last[t] = Interval
      BY <1>2, <2>1, <2>2, <3>2
    <3>3. QED
      BY <1>2, <3>1, <3>2
  <2>4. QED
    BY <1>1, <1>2, <2>1, <2>2, <2>3 DEF PairInv, Spacing
<1>5. Unique(p, t) => Unique(p, t)'
  BY <1>1 DEF Unique, Open
<1>6. Stamped(p, t) => Stamped(p, t)'
  BY <1>1, <1>2 DEF Stamped, Open, Older
<1>7. QED
  BY <1>3, <1>4, <1>5, <1>6 DEF PairInv

\* A rescan is inserted where no open scan was found, and becomes the last.
LEMMA FirePair ==
  ASSUME TypeOK, NEW p \in Process, NEW t \in Target, PairInv(p, t),
         NEW u \in Target, Fire(p, u)
  PROVE  PairInv(p, t)'
<1>1. /\ pc[p] = "fire" /\ u \in due[p] /\ due'[p] = due[p] \ {u}
      /\ sinceScan' = sinceScan /\ lost' = lost /\ pc' = pc /\ wait' = wait /\ snap' = snap
  BY DEF TypeOK, Fire, targets
<1>2. /\ live[t] \in Nat /\ lost[t] \in Nat /\ last[t] \in Nat /\ lastButOne[t] \in Nat
      /\ sinceScan[t] \in Nat
  BY DEF TypeOK, Age
<1>3. CASE u = t
  <2>1. live'[t] = live[t] + 1 /\ lastButOne'[t] = last[t] /\ last'[t] = 0
    BY <1>3 DEF TypeOK, Fire
  <2>2. snap[p] = {}
    BY <1>1 DEF PairInv, Settled
  <2>3. QED
    BY <1>1, <1>2, <1>3, <2>1, <2>2
       DEF PairInv, Settled, Spacing, Unique, Stamped, Open
<1>4. CASE u # t
  <2>1. live'[t] = live[t] /\ lastButOne'[t] = lastButOne[t] /\ last'[t] = last[t]
    BY <1>4 DEF TypeOK, Fire
  <2>2. QED
    BY <1>1, <1>2, <1>4, <2>1
       DEF PairInv, Settled, Spacing, Unique, Stamped, Open
<1>5. QED
  BY <1>3, <1>4

\* The other steps of the scheduler leave scans and history alone.
LEMMA SchedulerPair ==
  ASSUME TypeOK, NEW p \in Process, NEW t \in Target, PairInv(p, t), SchedulerStep(p)
  PROVE  PairInv(p, t)'
<1>1. /\ last[t] \in Nat /\ TickPeriod \in Nat /\ sinceScan[t] \in Nat
      /\ lastButOne[t] \in Nat /\ lastButOne[t] <= Interval /\ Interval \in Nat
      /\ wait[p] \in Nat
  BY PeriodsAssumption DEF TypeOK, Age
<1>2. CASE Start(p)
  <2>1. /\ pc[p] = "down" /\ pc'[p] = "sleep" /\ wait'[p] = TickPeriod
        /\ snap' = snap /\ due' = due /\ last' = last /\ live' = live /\ lost' = lost
        /\ sinceScan' = sinceScan /\ lastButOne' = lastButOne
    BY <1>2 DEF TypeOK, Start, targets, scans, history
  <2>2. QED
    BY <1>1, <2>1 DEF PairInv, Settled, Spacing, Unique, Stamped, Open
<1>3. CASE Select(p)
  <2>1. /\ pc[p] = "sleep" /\ wait[p] = 0 /\ pc'[p] = "collect"
        /\ t \in snap'[p] => sinceScan[t] = Interval
        /\ due' = due /\ last' = last /\ live' = live /\ lost' = lost
        /\ sinceScan' = sinceScan /\ lastButOne' = lastButOne
    BY <1>3 DEF TypeOK, Select, targets, scans, history
  <2>2. due[p] = {}
    BY <2>1 DEF PairInv, Settled
  <2>3. QED
    BY <1>1, <2>1, <2>2 DEF PairInv, Settled, Spacing, Unique, Stamped, Open
<1>4. CASE Collected(p)
  <2>1. /\ pc[p] = "collect" /\ snap[p] = {} /\ pc'[p] = "fire"
        /\ snap' = snap /\ due' = due /\ last' = last /\ live' = live /\ lost' = lost
        /\ sinceScan' = sinceScan /\ lastButOne' = lastButOne
    BY <1>4 DEF TypeOK, Collected, targets, scans, history
  <2>2. QED
    BY <1>1, <2>1 DEF PairInv, Settled, Spacing, Unique, Stamped, Open
<1>5. CASE CollectFault(p) \/ Done(p)
  BY <1>5, SleepPair DEF CollectFault, Done
<1>6. ASSUME NEW u \in Target, Check(p, u)
      PROVE  PairInv(p, t)'
  <2>1. /\ pc[p] = "collect" /\ pc' = pc /\ u \in snap[p] /\ snap'[p] = snap[p] \ {u}
        /\ due'[p] = (IF Open(u) = 0 THEN due[p] \union {u} ELSE due[p])
        /\ last' = last /\ live' = live /\ lost' = lost
        /\ sinceScan' = sinceScan /\ lastButOne' = lastButOne
    BY <1>6 DEF TypeOK, Check, targets, scans, history
  <2>2. QED
    BY <1>1, <2>1 DEF PairInv, Settled, Spacing, Unique, Stamped, Open
<1>7. ASSUME NEW u \in Target, Fire(p, u)
      PROVE  PairInv(p, t)'
  BY <1>7, FirePair
<1>8. ASSUME NEW u \in Target, FireFault(p, u)
      PROVE  PairInv(p, t)'
  <2>1. /\ pc[p] = "fire" /\ pc' = pc /\ wait' = wait /\ snap' = snap
        /\ due'[p] = due[p] \ {u}
        /\ last' = last /\ live' = live /\ lost' = lost
        /\ sinceScan' = sinceScan /\ lastButOne' = lastButOne
    BY <1>8 DEF TypeOK, FireFault, targets, scans, history
  <2>2. QED
    BY <1>1, <2>1 DEF PairInv, Settled, Spacing, Unique, Stamped, Open
<1>9. QED
  BY <1>2, <1>3, <1>4, <1>5, <1>6, <1>7, <1>8 DEF SchedulerStep

LEMMA StopPair ==
  ASSUME TypeOK, NEW p \in Process, NEW t \in Target, PairInv(p, t), Stop(p)
  PROVE  PairInv(p, t)'
<1>1. /\ pc'[p] = "down" /\ snap'[p] = {} /\ due'[p] = {}
      /\ last' = last /\ live' = live /\ lost' = lost
      /\ sinceScan' = sinceScan /\ lastButOne' = lastButOne
  BY DEF TypeOK, Stop, targets, scans, history
<1>2. QED
  BY <1>1 DEF PairInv, Settled, Spacing, Unique, Stamped, Open

\* Scans and clients leave the scheduler alone.
LEMMA ScanPair ==
  ASSUME TypeOK, NEW p \in Process, NEW t \in Target, PairInv(p, t), NEW u \in Target,
         Complete(u) \/ Fail(u) \/ Lose(u) \/ Manual(u) \/ Toggle(u)
  PROVE  PairInv(p, t)'
<1>1. /\ pc' = pc /\ wait' = wait /\ snap' = snap /\ due' = due
      /\ last' = last /\ lastButOne' = lastButOne
  BY DEF Complete, Fail, Lose, Manual, Toggle, history, schedulers
<1>2. /\ last[t] \in Nat /\ lastButOne[t] \in Nat /\ sinceScan[t] \in Nat
      /\ live[t] \in Nat /\ lost[t] \in Nat
  BY DEF TypeOK, Age
<1>3. Settled(p, t)' /\ Spacing(p, t)'
  BY <1>1 DEF PairInv, Settled, Spacing
<1>4. ASSUME "manual" \notin Events[t], Unique(p, t)
      PROVE  Unique(p, t)'
  <2>1. live'[t] + lost'[t] <= live[t] + lost[t] /\ live'[t] + lost'[t] \in Nat
    BY <1>2, <1>4 DEF TypeOK, Complete, Fail, Lose, Manual, Toggle, scans
  <2>2. QED
    BY <1>1, <1>2, <1>4, <2>1 DEF Unique, Open
<1>5. ASSUME "manual" \notin Events[t], "fail" \notin Events[t], Stamped(p, t)
      PROVE  Stamped(p, t)'
  <2>1. CASE Complete(u) /\ u = t
    <3>1. sinceScan'[t] = 0
      BY <2>1 DEF TypeOK, Complete
    <3>2. QED
      BY <1>1, <1>2, <1>5, <3>1 DEF Stamped
  <2>2. CASE ~(Complete(u) /\ u = t)
    <3>1. sinceScan'[t] = sinceScan[t] /\ (live'[t] + lost'[t] = 0 => live[t] + lost[t] = 0)
      BY <1>2, <1>5, <2>2 DEF TypeOK, Complete, Fail, Lose, Manual, Toggle, scans, targets
    <3>2. QED
      BY <1>1, <1>5, <3>1 DEF Stamped, Open
  <2>3. QED
    BY <2>1, <2>2
<1>6. QED
  BY <1>3, <1>4, <1>5 DEF PairInv

LEMMA NextPairInv ==
  ASSUME TypeOK, [Next]_vars, NEW p \in Process, Process = {p},
         NEW t \in Target, PairInv(p, t)
  PROVE  PairInv(p, t)'
<1>1. CASE UNCHANGED vars
  BY <1>1 DEF vars, targets, scans, history, schedulers,
              PairInv, Settled, Spacing, Unique, Stamped, Open
<1>2. QED
  BY <1>1, TickPair, SchedulerPair, StopPair, ScanPair DEF Next, Ends

\* With one scheduler, its view of the targets, the open scans and the ages
\* of the rescans agree in every reachable state.
THEOREM SchedulerInvariance ==
  ASSUME NEW p, Process = {p}
  PROVE  Spec => []IInv
<1>1. p \in Process
  OBVIOUS
<1>2. Init => IInv
  BY InitTypeOK, InitPairInv DEF IInv, PairInv
<1>3. IInv /\ [Next]_vars => IInv'
  BY <1>1, NextTypeOK, NextPairInv DEF IInv, PairInv
<1>4. QED
  BY <1>2, <1>3, PTL DEF Spec

\* One scheduler never opens two scans of a target that no client scans.
THEOREM RescansAreUnique ==
  ASSUME NEW p, Process = {p}
  PROVE  Spec => []NeverDoubleFire
<1>1. IInv => NeverDoubleFire
  BY DEF IInv, Unique, NeverDoubleFire
<1>2. QED
  BY <1>1, SchedulerInvariance, PTL

\* One scheduler dispatches a target at most once per tick, whatever becomes
\* of its scans and of the process.
THEOREM RescansAreATickApart ==
  ASSUME NEW p, Process = {p}
  PROVE  Spec => TickApart
<1>1. IInv => [\A t \in Target : Fired(t) => last[t] >= TickPeriod]_vars
  BY DEF IInv, Spacing, Fired
<1>2. QED
  BY <1>1, SchedulerInvariance, PTL DEF TickApart

\* One scheduler: three rescans of a target whose scans do not fail, and that
\* no client scans, span the interval.
THEOREM ThreeRescansSpanInterval ==
  ASSUME NEW p, Process = {p}
  PROVE  Spec => ThreeSpanInterval
<1>1. IInv => [\A t \in Target :
                 Fired(t) /\ Events[t] \intersect {"manual", "fail"} = {}
                   => lastButOne[t] = Interval]_vars
  BY DEF IInv, Stamped, Fired
<1>2. QED
  BY <1>1, SchedulerInvariance, PTL DEF ThreeSpanInterval
=============================================================================
