--------------------------- MODULE RescanScheduler ---------------------------
(***************************************************************************)
(* Continuous monitoring: one RescanScheduler per API process, the targets  *)
(* it rescans, and the scans that are open on each target.  A scan is open  *)
(* while its row is PENDING or RUNNING; what happens to one scan is the     *)
(* subject of ScanLifecycle.                                                *)
(*                                                                          *)
(* A tick of the scheduler is not atomic: the targets are selected, the     *)
(* open scans of each are looked up and each rescan is inserted in steps    *)
(* with awaits between them, while scans end and clients act.               *)
(***************************************************************************)
EXTENDS Integers, FiniteSets

CONSTANTS
  Process,     \* API processes; each starts a scheduler
  Target,      \* rows of the targets table
  Interval,    \* RESCAN_INTERVAL_MINUTES, in clock ticks
  TickPeriod,  \* RESCAN_TICK_SECONDS, in clock ticks
  MaxManual,   \* bound on the open scans under which clients POST another
  Events,      \* the events that may happen to each target
  Faults       \* the events that may happen to each process

(***************************************************************************)
(* fail    a scan ends FAILED            manual  a client calls POST /scan  *)
(* lose    the executor of a scan is     toggle  the operator changes       *)
(*         lost and its row stays open           auto_rescan                *)
(* refuse  the rescan's row may fail                                        *)
(*         to be inserted                                                   *)
(*                                                                          *)
(* fault   collecting the targets fails  stop    the process is stopped,    *)
(*                                               or started again           *)
(***************************************************************************)
EventKind == {"fail", "lose", "refuse", "manual", "toggle"}

ASSUME EventsAssumption ==
  /\ Events \in [Target -> SUBSET EventKind]
  /\ Faults \in [Process -> SUBSET {"fault", "stop"}]
ASSUME PeriodsAssumption ==
  /\ Interval \in Nat /\ TickPeriod \in Nat /\ MaxManual \in Nat
  /\ TickPeriod <= Interval

VARIABLES
  auto,        \* targets.auto_rescan
  sinceScan,   \* age of targets.last_scanned_at; Interval: older, or NULL
  live,        \* open scans of a target that somebody executes
  lost,        \* open scans of a target that nobody executes
  last,        \* age of the last rescan of a target (history)
  lastButOne,  \* age of the one before (history)
  pc,          \* where each scheduler stands in its loop
  wait,        \* what is left of its sleep
  snap,        \* stale targets selected by _collect_due_targets, to be looked at
  due          \* targets collected, to be dispatched

targets    == <<auto, sinceScan>>
scans      == <<live, lost>>
history    == <<last, lastButOne>>
schedulers == <<pc, wait, snap, due>>
vars       == <<targets, scans, history, schedulers>>

Age == 0 .. Interval

TypeOK ==
  /\ auto \in [Target -> BOOLEAN]
  /\ sinceScan \in [Target -> Age]
  /\ live \in [Target -> Nat] /\ lost \in [Target -> Nat]
  /\ last \in [Target -> Age] /\ lastButOne \in [Target -> Age]
  /\ pc \in [Process -> {"down", "sleep", "collect", "fire"}]
  /\ wait \in [Process -> 0 .. TickPeriod]
  /\ snap \in [Process -> SUBSET Target]
  /\ due \in [Process -> SUBSET Target]

Init ==
  /\ auto = [t \in Target |-> TRUE]
  /\ sinceScan \in [Target -> {0, Interval}]
  /\ live = [t \in Target |-> 0] /\ lost = [t \in Target |-> 0]
  /\ last = [t \in Target |-> Interval]
  /\ lastButOne = [t \in Target |-> Interval]
  /\ pc = [p \in Process |-> "sleep"]
  /\ wait = [p \in Process |-> TickPeriod]
  /\ snap = [p \in Process |-> {}] /\ due = [p \in Process |-> {}]

-----------------------------------------------------------------------------
(* Time *)

Older(a) == IF a < Interval THEN a + 1 ELSE a

Tick ==
  /\ sinceScan' = [t \in Target |-> Older(sinceScan[t])]
  /\ last' = [t \in Target |-> Older(last[t])]
  /\ lastButOne' = [t \in Target |-> Older(lastButOne[t])]
  /\ wait' = [p \in Process |-> IF wait[p] > 0 THEN wait[p] - 1 ELSE 0]
  /\ UNCHANGED <<auto, scans, pc, snap, due>>

-----------------------------------------------------------------------------
(* The scheduler *)

\* Mutant: start() ticks at once.
StartAtOnce(p) ==
  /\ pc[p] = "down"
  /\ pc' = [pc EXCEPT ![p] = "sleep"]
  /\ wait' = [wait EXCEPT ![p] = 0]
  /\ UNCHANGED <<targets, scans, history, snap, due>>

\* start() in the lifespan of a new process: _loop sleeps before its first tick.
Start(p) ==
  /\ pc[p] = "down"
  /\ pc' = [pc EXCEPT ![p] = "sleep"]
  /\ wait' = [wait EXCEPT ![p] = TickPeriod]
  /\ UNCHANGED <<targets, scans, history, snap, due>>

\* stop(): a sleeping loop returns; one that is in a tick is given five
\* seconds and then cancelled, wherever it is.  The scans the process was
\* executing are lost with it, each by a step of Lose.
Stop(p) ==
  /\ "stop" \in Faults[p]
  /\ pc[p] # "down"
  /\ pc' = [pc EXCEPT ![p] = "down"]
  /\ snap' = [snap EXCEPT ![p] = {}]
  /\ due' = [due EXCEPT ![p] = {}]
  /\ UNCHANGED <<targets, scans, history, wait>>

\* The sleep is over: SELECT the targets, with the age they have now.
Select(p) ==
  /\ pc[p] = "sleep"
  /\ wait[p] = 0
  /\ pc' = [pc EXCEPT ![p] = "collect"]
  /\ snap' = [snap EXCEPT ![p] = {t \in Target : auto[t] /\ sinceScan[t] = Interval}]
  /\ UNCHANGED <<targets, scans, history, wait, due>>

Open(t) == live[t] + lost[t]

\* Mutant: open scans are not looked for.
CheckNothing(p, t) ==
  /\ pc[p] = "collect"
  /\ t \in snap[p]
  /\ snap' = [snap EXCEPT ![p] = @ \ {t}]
  /\ due' = [due EXCEPT ![p] = @ \union {t}]
  /\ UNCHANGED <<targets, scans, history, pc, wait>>

\* A selected target is due unless it has an open scan by now.
Check(p, t) ==
  /\ pc[p] = "collect"
  /\ t \in snap[p]
  /\ snap' = [snap EXCEPT ![p] = @ \ {t}]
  /\ due' = IF Open(t) = 0 THEN [due EXCEPT ![p] = @ \union {t}] ELSE due
  /\ UNCHANGED <<targets, scans, history, pc, wait>>

Collected(p) ==
  /\ pc[p] = "collect"
  /\ snap[p] = {}
  /\ pc' = [pc EXCEPT ![p] = "fire"]
  /\ UNCHANGED <<targets, scans, history, wait, snap, due>>

Sleep(p) ==
  /\ pc' = [pc EXCEPT ![p] = "sleep"]
  /\ wait' = [wait EXCEPT ![p] = TickPeriod]
  /\ snap' = [snap EXCEPT ![p] = {}]
  /\ due' = [due EXCEPT ![p] = {}]
  /\ UNCHANGED <<targets, scans, history>>

\* An exception ends the tick, not the loop.
CollectFault(p) ==
  /\ "fault" \in Faults[p]
  /\ pc[p] = "collect"
  /\ Sleep(p)

\* _dispatch_rescan: the row is inserted PENDING, whatever the target has become.
Fire(p, t) ==
  /\ pc[p] = "fire"
  /\ t \in due[p]
  /\ due' = [due EXCEPT ![p] = @ \ {t}]
  /\ live' = [live EXCEPT ![t] = @ + 1]
  /\ lastButOne' = [lastButOne EXCEPT ![t] = last[t]]
  /\ last' = [last EXCEPT ![t] = 0]
  /\ UNCHANGED <<targets, lost, pc, wait, snap>>

\* Mutant: the first failure ends the tick.
FireFaultAborts(p, t) ==
  /\ "refuse" \in Events[t]
  /\ pc[p] = "fire"
  /\ t \in due[p]
  /\ Sleep(p)

\* The insertion fails: the next target is tried.
FireFault(p, t) ==
  /\ "refuse" \in Events[t]
  /\ pc[p] = "fire"
  /\ t \in due[p]
  /\ due' = [due EXCEPT ![p] = @ \ {t}]
  /\ UNCHANGED <<targets, scans, history, pc, wait, snap>>

Done(p) == pc[p] = "fire" /\ due[p] = {} /\ Sleep(p)

SchedulerStep(p) ==
  \/ Start(p) \/ Select(p) \/ Collected(p) \/ CollectFault(p) \/ Done(p)
  \/ \E t \in Target : Check(p, t) \/ Fire(p, t) \/ FireFault(p, t)

-----------------------------------------------------------------------------
(* Scans and clients *)

\* Mutant: last_scanned_at is not stamped.
CompleteUnstamped(t) ==
  /\ live[t] > 0
  /\ live' = [live EXCEPT ![t] = @ - 1]
  /\ UNCHANGED <<targets, lost, history, schedulers>>

\* _persist_results stamps the target in the transaction that ends the scan.
Complete(t) ==
  /\ live[t] > 0
  /\ live' = [live EXCEPT ![t] = @ - 1]
  /\ sinceScan' = [sinceScan EXCEPT ![t] = 0]
  /\ UNCHANGED <<auto, lost, history, schedulers>>

\* A scan that ends FAILED leaves the target alone.
Fail(t) ==
  /\ "fail" \in Events[t]
  /\ live[t] > 0
  /\ live' = [live EXCEPT ![t] = @ - 1]
  /\ UNCHANGED <<targets, lost, history, schedulers>>

Lose(t) ==
  /\ "lose" \in Events[t]
  /\ live[t] > 0
  /\ live' = [live EXCEPT ![t] = @ - 1]
  /\ lost' = [lost EXCEPT ![t] = @ + 1]
  /\ UNCHANGED <<targets, history, schedulers>>

\* POST /scan does not look for open scans.
Manual(t) ==
  /\ "manual" \in Events[t]
  /\ Open(t) < MaxManual
  /\ live' = [live EXCEPT ![t] = @ + 1]
  /\ UNCHANGED <<targets, lost, history, schedulers>>

Toggle(t) ==
  /\ "toggle" \in Events[t]
  /\ auto' = [auto EXCEPT ![t] = ~@]
  /\ UNCHANGED <<sinceScan, scans, history, schedulers>>

Ends(t) == Complete(t) \/ Fail(t)

Next ==
  \/ Tick
  \/ \E p \in Process : SchedulerStep(p) \/ Stop(p)
  \/ \E t \in Target : Ends(t) \/ Lose(t) \/ Manual(t) \/ Toggle(t)

Spec == Init /\ [][Next]_vars

(***************************************************************************)
(* Time passes, a scheduler that can go on does, and a scan that somebody   *)
(* executes ends: every phase of the pipeline has a timeout.                *)
(***************************************************************************)
Fairness ==
  /\ WF_vars(Tick)
  /\ \A p \in Process : WF_vars(SchedulerStep(p))
  /\ \A t \in Target : WF_vars(Ends(t))

FairSpec == Spec /\ Fairness

-----------------------------------------------------------------------------
(* Properties *)

\* One scheduler: a target that no client scans never has two open scans,
\* because the tick that dispatches it has seen it without one and nobody
\* else inserts.
NeverDoubleFire == \A t \in Target : "manual" \notin Events[t] => Open(t) <= 1

\* A scheduler dispatches a rescan of t.
Fired(t) ==
  /\ \E p \in Process : t \in due[p] /\ t \notin due'[p]
  /\ live'[t] = live[t] + 1

\* One scheduler: a target is rescanned at most once per tick, also when its
\* scans fail at once and when the process is stopped and started again.
TickApart ==
  [][\A t \in Target : Fired(t) => last[t] >= TickPeriod]_vars

\* One scheduler, and a target whose scans do not fail and that no client
\* scans: a scan that ends while the tick looks at its target may be repeated
\* at once, but never twice: three rescans of a target span the interval.
ThreeSpanInterval ==
  [][\A t \in Target :
       Fired(t) /\ Events[t] \intersect {"manual", "fail"} = {} => lastButOne[t] = Interval]_vars

\* Once processes are left alone, every target that is not opted out, whose
\* rescans can be inserted and whose scans are not lost is scanned again and
\* again, though some of its scans fail, and whatever becomes of the others.
RescannedForEver ==
  <>[][\A p \in Process : ~Stop(p) /\ ~CollectFault(p)]_vars =>
    \A t \in Target :
      Events[t] \intersect {"refuse", "lose"} = {} => []<>(live[t] > 0 \/ ~auto[t])

-----------------------------------------------------------------------------
\* The scheduler's two sets are disjoint, and of the tick it is in.
Settled(p, t) ==
  /\ t \notin snap[p] \intersect due[p]
  /\ pc[p] # "collect" => snap[p] = {}
  /\ pc[p] \notin {"collect", "fire"} => due[p] = {}

\* Nobody opens a scan of a target that has been found without one.
Unique(p, t) ==
  /\ Open(t) <= 1
  /\ t \in due[p] => Open(t) = 0

\* The last rescan of a target is as old as the scheduler's sleep.
Spacing(p, t) ==
  /\ pc[p] = "sleep" => last[t] + wait[p] >= TickPeriod
  /\ pc[p] = "collect" => last[t] >= TickPeriod
  /\ t \in due[p] => last[t] >= TickPeriod

\* A target is stale no sooner than an interval after its last rescan but one.
Stamped(p, t) ==
  /\ sinceScan[t] <= lastButOne[t]
  /\ Open(t) = 0 => sinceScan[t] <= last[t]
  /\ t \in snap[p] \union due[p] => lastButOne[t] = Interval

\* The inductive invariant of an instance with one scheduler.
IInv ==
  /\ TypeOK
  /\ \A p \in Process, t \in Target :
       /\ Settled(p, t)
       /\ Spacing(p, t)
       /\ "manual" \notin Events[t] => Unique(p, t)
       /\ "manual" \notin Events[t] /\ "fail" \notin Events[t] => Stamped(p, t)
=============================================================================
