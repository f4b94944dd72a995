------------------------- MODULE ScanLifecycle_proofs -------------------------
(***************************************************************************)
(* Theorems about ScanLifecycle, for any set of scans, any bounds and any   *)
(* events that may happen to each scan.                                     *)
(***************************************************************************)
EXTENDS ScanLifecycle, TLAPS

\* The names used below belong to the sets they are used in.
LEMMA Names ==
  /\ "off" \in Phase /\ "start" \in Phase /\ "claim" \in Phase
  /\ "enter" \in Phase /\ "mark" \in Phase /\ "scan" \in Phase
  /\ "persist" \in Phase /\ "close" \in Phase /\ "failing" \in Phase
  /\ "fail" \in Phase
  /\ "local" \in Executor /\ "celery" \in Executor
  /\ "absent" \in Status /\ "pending" \in Status /\ "running" \in Status
  /\ "completed" \in Status /\ "failed" \in Status /\ "cancelled" \in Status
  BY DEF Phase, Executor, Status

\* A nested function stays one when a value of its range is replaced.
LEMMA UpdateType ==
  ASSUME NEW X, NEW Y, NEW Z, NEW f \in [X -> [Y -> Z]],
         NEW x \in X, NEW y \in Y, NEW z \in Z
  PROVE  [f EXCEPT ![x][y] = z] \in [X -> [Y -> Z]]
  OBVIOUS

-----------------------------------------------------------------------------
(* Types *)

LEMMA InitTypeOK == Init => TypeOK
  BY Names, BoundsAssumption DEF Init, TypeOK

\* The steps actions are made of keep the types of what they change.
LEMMA StepType ==
  ASSUME TypeOK, NEW s \in Scan, NEW e \in Executor,
         NEW from, NEW to \in Phase, Step(s, e, from, to)
  PROVE  pc' \in [Scan -> [Executor -> Phase]]
  BY UpdateType DEF TypeOK, Step

LEMMA LoadType ==
  ASSUME TypeOK, NEW s \in Scan, NEW e \in Executor,
         NEW from, NEW to \in Phase, Load(s, e, from, to)
  PROVE  TypeOK'
<1>1. pc' \in [Scan -> [Executor -> Phase]]
  BY StepType DEF Load
<1>2. seen' \in [Scan -> [Executor -> Status]]
  <2>1. seen \in [Scan -> [Executor -> Status]] /\ status[s] \in Status
    BY DEF TypeOK
  <2>2. QED
    BY <2>1, UpdateType DEF Load
<1>3. QED
  BY <1>1, <1>2 DEF TypeOK, Load, row, front, broker

LEMMA CommitType ==
  ASSUME TypeOK, NEW s \in Scan, NEW e \in Executor,
         NEW new \in Status, Commit(s, e, new)
  PROVE  /\ status' \in [Scan -> Status]
         /\ seen' \in [Scan -> [Executor -> Status]]
<1>1. status' \in [Scan -> Status]
  BY DEF TypeOK, Commit
<1>2. seen' \in [Scan -> [Executor -> Status]]
  BY Names, UpdateType DEF TypeOK, Commit
<1>3. QED
  BY <1>1, <1>2

LEMMA RollbackType ==
  ASSUME TypeOK, NEW s \in Scan, NEW e \in Executor,
         NEW phases, NEW to \in Phase, Rollback(s, e, phases, to)
  PROVE  TypeOK'
<1>1. pc' \in [Scan -> [Executor -> Phase]]
  BY UpdateType DEF TypeOK, Rollback
<1>2. seen' \in [Scan -> [Executor -> Status]]
  BY Names, UpdateType DEF TypeOK, Rollback
<1>3. QED
  BY <1>1, <1>2 DEF TypeOK, Rollback, row, front, broker

LEMMA ReleaseType ==
  ASSUME TypeOK, NEW s \in Scan, NEW m \in {"queued", "acked"}, Release(s, m)
  PROVE  /\ message' \in [Scan -> {"unsent", "sending", "queued", "delivered", "acked"}]
         /\ pc' \in [Scan -> [Executor -> Phase]]
         /\ seen' \in [Scan -> [Executor -> Status]]
<1>1. message' \in [Scan -> {"unsent", "sending", "queued", "delivered", "acked"}]
  BY DEF TypeOK, Release
<1>2. pc' \in [Scan -> [Executor -> Phase]]
  BY Names, UpdateType DEF TypeOK, Release
<1>3. seen' \in [Scan -> [Executor -> Status]]
  BY Names, UpdateType DEF TypeOK, Release
<1>4. QED
  BY <1>1, <1>2, <1>3

LEMMA PipelineType ==
  ASSUME TypeOK, NEW s \in Scan, NEW e \in Executor, Pipeline(s, e)
  PROVE  TypeOK'
<1>1. CASE MarkLoad(s, e)
  BY <1>1, LoadType, Names DEF MarkLoad
<1>2. CASE MarkRunning(s, e)
  <2>1. pc' \in [Scan -> [Executor -> Phase]]
    BY <1>2, StepType, Names DEF MarkRunning
  <2> DEFINE new == IF seen[s][e] = "pending" THEN "running" ELSE seen[s][e]
  <2>2. new \in Status
    BY Names DEF TypeOK
  <2>3. Commit(s, e, new)
    BY <1>2 DEF MarkRunning
  <2> HIDE DEF new
  <2>4. /\ status' \in [Scan -> Status]
        /\ seen' \in [Scan -> [Executor -> Status]]
    BY <2>2, <2>3, CommitType
  <2>5. QED
    BY <1>2, <2>1, <2>4 DEF MarkRunning, TypeOK, front, broker
<1>3. CASE MarkFault(s, e)
  BY <1>3, RollbackType, Names DEF MarkFault
<1>4. CASE PersistLoad(s, e)
  BY <1>4, LoadType, Names DEF PersistLoad
<1>5. CASE PersistResults(s, e)
  <2>1. pc' \in [Scan -> [Executor -> Phase]]
    BY <1>5, StepType, Names DEF PersistResults
  <2>2. /\ status' \in [Scan -> Status]
        /\ seen' \in [Scan -> [Executor -> Status]]
    BY <1>5, CommitType, Names DEF PersistResults
  <2>3. batches' \in [Scan -> Nat]
    BY <1>5 DEF PersistResults, TypeOK
  <2>4. QED
    BY <1>5, <2>1, <2>2, <2>3 DEF PersistResults, TypeOK, front, broker
<1>6. CASE PersistFault(s, e)
  BY <1>6, RollbackType, Names DEF PersistFault
<1>7. QED
  BY <1>1, <1>2, <1>3, <1>4, <1>5, <1>6 DEF Pipeline

LEMMA LocalType ==
  ASSUME TypeOK, NEW s \in Scan, LocalStep(s)
  PROVE  TypeOK'
<1>1. CASE BackgroundLoad(s) \/ FailLoad(s)
  BY <1>1, LoadType, Names DEF BackgroundLoad, FailLoad
<1>2. CASE BackgroundClaim(s)
  <2>1. pc' \in [Scan -> [Executor -> Phase]]
    BY <1>2, StepType, Names DEF BackgroundClaim
  <2>2. QED
    BY <1>2, <2>1, CommitType, Names DEF BackgroundClaim, TypeOK, front, broker
<1>3. CASE BackgroundFault(s) \/ FailFault(s)
  BY <1>3, RollbackType, Names DEF BackgroundFault, FailFault
<1>4. CASE Pipeline(s, "local")
  BY <1>4, PipelineType, Names
<1>5. CASE LocalReturn(s)
  <2>1. pc' \in [Scan -> [Executor -> Phase]]
    BY <1>5, StepType, Names DEF LocalReturn
  <2>2. QED
    BY <1>5, <2>1 DEF LocalReturn, TypeOK, row, front, broker
<1>6. CASE LocalRaise(s)
  <2>1. pc' \in [Scan -> [Executor -> Phase]]
    BY <1>6, UpdateType, Names DEF LocalRaise, TypeOK
  <2>2. QED
    BY <1>6, <2>1 DEF LocalRaise, TypeOK, row, front, broker
<1>7. CASE MarkFailed(s)
  <2> DEFINE old == seen[s]["local"]
             new == IF old \in {"completed", "cancelled"} THEN old ELSE "failed"
  <2>1. pc' \in [Scan -> [Executor -> Phase]]
    BY <1>7, StepType, Names DEF MarkFailed
  <2>2. new \in Status
    BY Names DEF TypeOK
  <2>3. Commit(s, "local", new)
    BY <1>7 DEF MarkFailed
  <2>4. QED
    BY <1>7, <2>1, <2>2, <2>3, CommitType, Names DEF MarkFailed, TypeOK, front, broker
<1>8. QED
  BY <1>1, <1>2, <1>3, <1>4, <1>5, <1>6, <1>7 DEF LocalStep

LEMMA WorkerType ==
  ASSUME TypeOK, NEW s \in Scan, WorkerStep(s) \/ WorkerCrash(s) \/ HardLimit(s)
  PROVE  TypeOK'
<1> USE BoundsAssumption DEF TypeOK, row, front
<1>1. CASE Pipeline(s, "celery")
  BY <1>1, PipelineType, Names
<1>2. CASE WorkerReturn(s) \/ WorkerGiveUp(s) \/ HardLimit(s)
  <2>1. Release(s, "acked")
    BY <1>2 DEF WorkerReturn, WorkerGiveUp, HardLimit
  <2>2. QED
    BY <1>2, <2>1, ReleaseType DEF WorkerReturn, WorkerGiveUp, HardLimit
<1>3. CASE WorkerRetry(s)
  BY <1>3, ReleaseType DEF WorkerRetry
<1>4. CASE WorkerCrash(s)
  BY <1>4, ReleaseType DEF WorkerCrash
<1>5. QED
  BY <1>1, <1>2, <1>3, <1>4 DEF WorkerStep

LEMMA DispatchType ==
  ASSUME TypeOK, NEW s \in Scan, DispatchStep(s) \/ TakeMessage(s)
  PROVE  TypeOK'
<1> USE DEF TypeOK, row, front, broker
<1>1. ASSUME NEW m \in {"unsent", "sending", "queued"}, NEW fallback \in BOOLEAN,
             Dispatch(s, m, fallback)
      PROVE  TypeOK'
  <2>1. pc' \in [Scan -> [Executor -> Phase]]
    BY <1>1, UpdateType, Names DEF Dispatch
  <2>2. QED
    BY <1>1, <2>1 DEF Dispatch
<1>2. CASE Enqueue(s) \/ EnqueueRefused(s) \/ EnqueueTimeout(s)
  BY <1>1, <1>2 DEF Enqueue, EnqueueRefused, EnqueueTimeout
<1>3. CASE PublishLate(s) \/ DeliverFault(s)
  <2>1. PICK m \in {"queued", "unsent", "acked"} : message' = [message EXCEPT ![s] = m]
    BY <1>3 DEF PublishLate, DeliverFault
  <2>2. message' \in [Scan -> {"unsent", "sending", "queued", "delivered", "acked"}]
    BY <2>1
  <2>3. QED
    BY <1>3, <2>2 DEF PublishLate, DeliverFault
<1>4. CASE StartRescan(s)
  <2>1. pc' \in [Scan -> [Executor -> Phase]]
    BY <1>4, UpdateType, Names DEF StartRescan
  <2>2. request' \in [Scan -> {"none", "committed", "dispatched", "lost"}]
    BY <1>4 DEF StartRescan
  <2>3. QED
    BY <1>4, <2>1, <2>2 DEF StartRescan
<1>5. CASE Deliver(s)
  <2>1. pc' \in [Scan -> [Executor -> Phase]]
    BY <1>5, UpdateType, Names DEF Deliver
  <2>2. QED
    BY <1>5, <2>1 DEF Deliver
<1>6. QED
  BY <1>2, <1>3, <1>4, <1>5 DEF DispatchStep, TakeMessage

LEMMA ApiCrashType ==
  ASSUME TypeOK, NEW hosted \in SUBSET Scan, ApiCrash(hosted)
  PROVE  TypeOK'
<1>1. pc' \in [Scan -> [Executor -> Phase]]
  <2>1. ASSUME NEW s \in Scan
        PROVE  [pc[s] EXCEPT !["local"] = "off"] \in [Executor -> Phase]
    BY Names DEF TypeOK
  <2>2. QED
    BY <2>1 DEF ApiCrash, TypeOK
<1>2. seen' \in [Scan -> [Executor -> Status]]
  <2>1. ASSUME NEW s \in Scan
        PROVE  [seen[s] EXCEPT !["local"] = "absent"] \in [Executor -> Status]
    BY Names DEF TypeOK
  <2>2. QED
    BY <2>1 DEF ApiCrash, TypeOK
<1>3. QED
  BY <1>1, <1>2 DEF ApiCrash, TypeOK, row

LEMMA NextTypeOK == TypeOK /\ [Next]_vars => TypeOK'
<1> SUFFICES ASSUME TypeOK, [Next]_vars PROVE TypeOK'
  OBVIOUS
<1>1. ASSUME NEW s \in Scan, Create(s) PROVE TypeOK'
  <2>1. PICK who \in {"route", "scheduler"} : CreateScan(s, who)
    BY <1>1 DEF Create, InitiateScan, InsertRescan
  <2>2. status' \in [Scan -> Status]
    BY <2>1, Names DEF CreateScan, TypeOK
  <2>3. /\ source' \in [Scan -> {"none", "route", "scheduler"}]
        /\ request' \in [Scan -> {"none", "committed", "dispatched", "lost"}]
    BY <2>1 DEF CreateScan, TypeOK
  <2>4. QED
    BY <2>1, <2>2, <2>3 DEF CreateScan, TypeOK, broker
<1>2. ASSUME NEW s \in Scan, CancelStep(s) PROVE TypeOK'
  BY <1>2, Names DEF CancelStep, CancelLoad, CancelCommit, CancelFault, TypeOK, row, broker
<1>3. CASE UNCHANGED vars
  BY <1>3 DEF vars, TypeOK, row, front, broker
<1>4. QED
  BY <1>1, <1>2, <1>3, DispatchType, LocalType, WorkerType, ApiCrashType DEF Next, ScanStep

\* Every variable keeps its type, and the counters their bounds.
THEOREM TypeCorrect == Spec => []TypeOK
  BY InitTypeOK, NextTypeOK, PTL DEF Spec

-----------------------------------------------------------------------------
(* A step of one scan leaves the others alone *)

\* The state of scan t does not change.
Still(t) ==
  /\ status'[t] = status[t] /\ batches'[t] = batches[t]
  /\ request'[t] = request[t] /\ cancelling'[t] = cancelling[t]
  /\ message'[t] = message[t] /\ retries'[t] = retries[t]
  /\ crashes'[t] = crashes[t] /\ pc'[t] = pc[t] /\ seen'[t] = seen[t]

LEMMA Frame ==
  ASSUME TypeOK, NEW s \in Scan, NEW t \in Scan, t # s, ScanStep(s)
  PROVE  Still(t)
<1> USE DEF Still, TypeOK, row, front, broker
<1>1. ASSUME NEW e \in Executor, Pipeline(s, e) PROVE Still(t)
  BY <1>1 DEF Pipeline, MarkLoad, MarkRunning, MarkFault, PersistLoad,
     PersistResults, PersistFault, Load, Step, Commit, Rollback
<1>2. CASE Create(s) \/ DispatchStep(s) \/ CancelStep(s) \/ TakeMessage(s)
  BY <1>2 DEF Create, InitiateScan, InsertRescan, CreateScan, DispatchStep,
     Enqueue, EnqueueRefused, EnqueueTimeout, Dispatch, PublishLate, StartRescan,
     CancelStep, CancelLoad, CancelCommit, CancelFault, TakeMessage, Deliver,
     DeliverFault
<1>3. CASE LocalStep(s)
  BY <1>1, <1>3, Names DEF LocalStep, BackgroundLoad, BackgroundClaim, BackgroundFault,
     LocalReturn, LocalRaise, FailLoad, MarkFailed, FailFault, Load, Step, Commit,
     Rollback
<1>4. CASE WorkerStep(s) \/ WorkerCrash(s) \/ HardLimit(s)
  BY <1>1, <1>4, Names DEF WorkerStep, WorkerReturn, WorkerRetry, WorkerGiveUp,
     WorkerCrash, HardLimit, Release
<1>5. QED
  BY <1>2, <1>3, <1>4 DEF ScanStep

-----------------------------------------------------------------------------
(* What the steps of an executor do to the state of their scan *)

\* The parts of scan s that no step of an executor's transactions changes.
Outside(s) ==
  /\ request'[s] = request[s] /\ cancelling'[s] = cancelling[s]
  /\ retries'[s] = retries[s] /\ crashes'[s] = crashes[s]

Other(e) == IF e = "local" THEN "celery" ELSE "local"

\* Executor e goes from one of the phases `from` to the phase `to`.
Goes(s, e, from, to) ==
  /\ pc[s][e] \in from /\ pc'[s][e] = to
  /\ pc'[s][Other(e)] = pc[s][Other(e)] /\ seen'[s][Other(e)] = seen[s][Other(e)]

LEMMA OtherExecutor ==
  ASSUME NEW e \in Executor
  PROVE  Other(e) \in Executor /\ Other(e) # e
  BY DEF Other, Executor

LEMMA LoadEffect ==
  ASSUME TypeOK, NEW s \in Scan, NEW e \in Executor, NEW from, NEW to, Load(s, e, from, to)
  PROVE  /\ Outside(s) /\ Goes(s, e, {from}, to) /\ message'[s] = message[s]
         /\ status'[s] = status[s] /\ batches'[s] = batches[s]
         /\ seen'[s][e] = status[s]
  BY OtherExecutor DEF TypeOK, Load, Step, Outside, Goes, row, front, broker

LEMMA CommitEffect ==
  ASSUME TypeOK, NEW s \in Scan, NEW e \in Executor, NEW from, NEW to, NEW new,
         Step(s, e, from, to), Commit(s, e, new), UNCHANGED <<front, broker>>
  PROVE  /\ Outside(s) /\ Goes(s, e, {from}, to) /\ message'[s] = message[s]
         /\ status'[s] = (IF new = seen[s][e] THEN status[s] ELSE new)
         /\ seen'[s][e] = "absent"
  BY OtherExecutor DEF TypeOK, Commit, Step, Outside, Goes, front, broker

LEMMA RollbackEffect ==
  ASSUME TypeOK, NEW s \in Scan, NEW e \in Executor, NEW phases, NEW to,
         Rollback(s, e, phases, to)
  PROVE  /\ "dbFault" \in Events[s]
         /\ Outside(s) /\ Goes(s, e, phases, to) /\ message'[s] = message[s]
         /\ status'[s] = status[s] /\ batches'[s] = batches[s]
         /\ seen'[s][e] = "absent"
  BY OtherExecutor DEF TypeOK, Rollback, Outside, Goes, row, front, broker

LEMMA ReleaseEffect ==
  ASSUME TypeOK, NEW s \in Scan, NEW m, Release(s, m)
  PROVE  /\ message'[s] = m
         /\ pc'[s]["celery"] = "off" /\ seen'[s]["celery"] = "absent"
         /\ pc'[s]["local"] = pc[s]["local"] /\ seen'[s]["local"] = seen[s]["local"]
  BY Names DEF TypeOK, Release

\* The pipeline, one transaction at a time: the row is loaded, marked RUNNING,
\* completed, or a transaction on it fails.
Loads(s, e) ==
  /\ Goes(s, e, {"enter"}, "mark") \/ Goes(s, e, {"scan"}, "persist")
  /\ status'[s] = status[s] /\ batches'[s] = batches[s]
  /\ seen'[s][e] = status[s]

Marks(s, e) ==
  /\ Goes(s, e, {"mark"}, "scan")
  /\ status'[s] = (IF seen[s][e] = "pending" THEN "running" ELSE status[s])
  /\ batches'[s] = batches[s]

Persists(s, e) ==
  /\ Goes(s, e, {"persist"}, "close")
  /\ status'[s] = (IF seen[s][e] = "completed" THEN status[s] ELSE "completed")
  /\ batches'[s] = batches[s] + 1

Faults(s, e) ==
  /\ "dbFault" \in Events[s]
  /\ Goes(s, e, {"enter", "mark"}, "scan") \/ Goes(s, e, {"scan", "persist"}, "close")
  /\ status'[s] = status[s] /\ batches'[s] = batches[s]

LEMMA PipelineEffect ==
  ASSUME TypeOK, NEW s \in Scan, NEW e \in Executor, Pipeline(s, e)
  PROVE  /\ Outside(s) /\ message'[s] = message[s]
         /\ Loads(s, e) \/ Marks(s, e) \/ Persists(s, e) \/ Faults(s, e)
<1> USE DEF Loads, Marks, Persists, Faults
<1>1. CASE MarkLoad(s, e) \/ PersistLoad(s, e)
  BY <1>1, LoadEffect DEF MarkLoad, PersistLoad
<1>2. CASE MarkRunning(s, e)
  <2> DEFINE new == IF seen[s][e] = "pending" THEN "running" ELSE seen[s][e]
  <2>1. Step(s, e, "mark", "scan") /\ Commit(s, e, new) /\ UNCHANGED <<batches, front, broker>>
    BY <1>2 DEF MarkRunning
  <2> HIDE DEF new
  <2>2. /\ Outside(s) /\ Goes(s, e, {"mark"}, "scan") /\ message'[s] = message[s]
        /\ status'[s] = (IF new = seen[s][e] THEN status[s] ELSE new)
        /\ seen'[s][e] = "absent"
    BY <2>1, CommitEffect
  <2>3. QED
    BY <2>1, <2>2 DEF new
<1>3. CASE PersistResults(s, e)
  <2>1. batches'[s] = batches[s] + 1
    BY <1>3 DEF PersistResults, TypeOK
  <2>2. QED
    BY <1>3, <2>1, CommitEffect DEF PersistResults
<1>4. CASE MarkFault(s, e) \/ PersistFault(s, e)
  BY <1>4, RollbackEffect DEF MarkFault, PersistFault
<1>5. QED
  BY <1>1, <1>2, <1>3, <1>4 DEF Pipeline

\* What a local run does before and after the pipeline.
LEMMA LocalEffect ==
  ASSUME TypeOK, NEW s \in Scan, LocalStep(s), ~Pipeline(s, "local")
  PROVE  /\ Outside(s) /\ message'[s] = message[s] /\ batches'[s] = batches[s]
         /\ \/ /\ \/ Goes(s, "local", {"start"}, "claim")
                  \/ Goes(s, "local", {"failing"}, "fail")
               /\ status'[s] = status[s]
               /\ seen'[s]["local"] = status[s]
            \/ /\ Goes(s, "local", {"claim"}, "enter")
               /\ status'[s] = (IF seen[s]["local"] = "running" THEN status[s] ELSE "running")
            \/ /\ Goes(s, "local", {"fail"}, "off")
               /\ status'[s] = (IF seen[s]["local"] \in {"completed", "cancelled", "failed"}
                                THEN status[s] ELSE "failed")
            \/ /\ "dbFault" \in Events[s]
               /\ \/ Goes(s, "local", {"start", "claim"}, "off")
                  \/ Goes(s, "local", {"failing", "fail"}, "off")
               /\ status'[s] = status[s]
            \/ /\ Goes(s, "local", {"close"}, "off")
               /\ status'[s] = status[s]
            \/ /\ "raiseLocal" \in Events[s]
               /\ Goes(s, "local", Raising, "failing")
               /\ status'[s] = status[s]
<1>1. CASE BackgroundLoad(s) \/ FailLoad(s)
  BY <1>1, LoadEffect, Names DEF BackgroundLoad, FailLoad
<1>2. CASE BackgroundClaim(s)
  BY <1>2, CommitEffect, Names DEF BackgroundClaim
<1>3. CASE MarkFailed(s)
  <2> DEFINE old == seen[s]["local"]
             new == IF old \in {"completed", "cancelled"} THEN old ELSE "failed"
  <2>1. Step(s, "local", "fail", "off") /\ Commit(s, "local", new) /\ UNCHANGED <<batches, front, broker>>
    BY <1>3 DEF MarkFailed
  <2> HIDE DEF new
  <2>2. /\ Outside(s) /\ Goes(s, "local", {"fail"}, "off") /\ message'[s] = message[s]
        /\ status'[s] = (IF new = seen[s]["local"] THEN status[s] ELSE new)
    BY <2>1, CommitEffect, Names
  <2>3. QED
    BY <2>1, <2>2 DEF new
<1>4. CASE BackgroundFault(s) \/ FailFault(s)
  BY <1>4, RollbackEffect, Names DEF BackgroundFault, FailFault
<1>5. CASE LocalReturn(s)
  BY <1>5, OtherExecutor, Names DEF LocalReturn, TypeOK, Step, Goes, Outside, row, front, broker
<1>6. CASE LocalRaise(s)
  BY <1>6, OtherExecutor, Names DEF LocalRaise, TypeOK, Goes, Outside, row, front, broker
<1>7. QED
  BY <1>1, <1>2, <1>3, <1>4, <1>5, <1>6 DEF LocalStep

\* How a worker lets go of a message.
LEMMA WorkerEffect ==
  ASSUME TypeOK, NEW s \in Scan, ~Pipeline(s, "celery"),
         WorkerStep(s) \/ WorkerCrash(s) \/ HardLimit(s)
  PROVE  /\ status'[s] = status[s] /\ batches'[s] = batches[s]
         /\ request'[s] = request[s] /\ cancelling'[s] = cancelling[s]
         /\ pc'[s]["celery"] = "off" /\ seen'[s]["celery"] = "absent"
         /\ pc'[s]["local"] = pc[s]["local"] /\ seen'[s]["local"] = seen[s]["local"]
         /\ pc[s]["celery"] # "off" \/ message[s] = "delivered"
         /\ \/ /\ message'[s] = "acked"
               /\ \/ pc[s]["celery"] = "close"
                  \/ "raise" \in Events[s]
                  \/ "hardLimit" \in Events[s]
               /\ retries'[s] = retries[s] /\ crashes'[s] = crashes[s]
            \/ /\ message'[s] = "queued"
               /\ \/ retries'[s] = retries[s] + 1 /\ crashes'[s] = crashes[s]
                  \/ retries'[s] = retries[s] /\ crashes'[s] = crashes[s] + 1
<1>1. CASE WorkerReturn(s) \/ WorkerGiveUp(s)
  BY <1>1, ReleaseEffect DEF WorkerReturn, WorkerGiveUp, Raising, row, front
<1>2. CASE HardLimit(s)
  BY <1>2, ReleaseEffect DEF HardLimit, row, front
<1>3. CASE WorkerRetry(s)
  <2>1. retries'[s] = retries[s] + 1
    BY <1>3 DEF WorkerRetry, TypeOK
  <2>2. QED
    BY <1>3, <2>1, ReleaseEffect DEF WorkerRetry, Raising, row, front
<1>4. CASE WorkerCrash(s)
  <2>1. crashes'[s] = crashes[s] + 1
    BY <1>4 DEF WorkerCrash, TypeOK
  <2>2. QED
    BY <1>4, <2>1, ReleaseEffect DEF WorkerCrash, row, front
<1>5. QED
  BY <1>1, <1>2, <1>3, <1>4 DEF WorkerStep

\* How a scan comes to be, how it finds an executor, and how its message
\* travels.
Creates(s) ==
  /\ request[s] = "none" /\ request'[s] = "committed"
  /\ status'[s] = "pending"
  /\ message'[s] = message[s]
  /\ pc'[s]["local"] = pc[s]["local"] /\ pc'[s]["celery"] = pc[s]["celery"]

Dispatches(s) ==
  /\ request[s] = "committed" /\ request'[s] = "dispatched"
  /\ status'[s] = status[s]
  /\ pc'[s]["celery"] = pc[s]["celery"]
  /\ \/ message'[s] = "queued" /\ pc'[s]["local"] = pc[s]["local"]
     \/ message'[s] = "unsent" /\ pc'[s]["local"] = "start"
     \/ message'[s] = message[s] /\ pc'[s]["local"] = "enter"
     \/ /\ "slowBroker" \in Events[s]
        /\ message'[s] = "sending" /\ pc'[s]["local"] = "start"

Travels(s) ==
  /\ request'[s] = request[s] /\ status'[s] = status[s]
  /\ pc'[s]["local"] = pc[s]["local"]
  /\ \/ /\ message[s] = "sending" /\ message'[s] \in {"queued", "unsent"}
        /\ pc'[s]["celery"] = pc[s]["celery"]
     \/ /\ message[s] = "queued" /\ message'[s] = "delivered"
        /\ pc'[s]["celery"] = "enter"
     \/ /\ "redisFault" \in Events[s]
        /\ message[s] = "queued" /\ message'[s] = "acked"
        /\ pc'[s]["celery"] = pc[s]["celery"]

LEMMA DispatchEffect ==
  ASSUME TypeOK, NEW s \in Scan, Create(s) \/ DispatchStep(s) \/ TakeMessage(s)
  PROVE  /\ batches'[s] = batches[s] /\ cancelling'[s] = cancelling[s]
         /\ retries'[s] = retries[s] /\ crashes'[s] = crashes[s]
         /\ seen'[s]["local"] = seen[s]["local"] /\ seen'[s]["celery"] = seen[s]["celery"]
         /\ Creates(s) \/ Dispatches(s) \/ Travels(s)
<1> USE DEF Creates, Dispatches, Travels
<1> USE Names DEF TypeOK, row, front, broker
<1>1. CASE Create(s)
  BY <1>1 DEF Create, InitiateScan, InsertRescan, CreateScan
<1>2. CASE Enqueue(s) \/ EnqueueRefused(s) \/ EnqueueTimeout(s)
  BY <1>2 DEF Enqueue, EnqueueRefused, EnqueueTimeout, Dispatch
<1>3. CASE PublishLate(s)
  BY <1>3 DEF PublishLate
<1>4. CASE StartRescan(s)
  BY <1>4 DEF StartRescan
<1>5. CASE TakeMessage(s)
  BY <1>5 DEF TakeMessage, Deliver, DeliverFault
<1>6. QED
  BY <1>1, <1>2, <1>3, <1>4, <1>5 DEF DispatchStep

LEMMA CancelEffect ==
  ASSUME TypeOK, NEW s \in Scan, CancelStep(s)
  PROVE  /\ batches'[s] = batches[s] /\ request'[s] = request[s]
         /\ retries'[s] = retries[s] /\ crashes'[s] = crashes[s]
         /\ message'[s] = message[s] /\ pc'[s] = pc[s] /\ seen'[s] = seen[s]
         /\ \/ /\ "cancel" \in Events[s] /\ status[s] = "pending"
               /\ status'[s] = status[s]
            \/ /\ cancelling[s] /\ ~cancelling'[s]
               /\ status'[s] \in {status[s], "cancelled"}
  BY DEF CancelStep, CancelLoad, CancelCommit, CancelFault, TypeOK, row, front, broker

LEMMA ApiCrashEffect ==
  ASSUME TypeOK, NEW hosted \in SUBSET Scan, ApiCrash(hosted), NEW s \in Scan
  PROVE  \/ Still(s)
         \/ /\ "apiCrash" \in Events[s]
            /\ status'[s] = status[s] /\ batches'[s] = batches[s]
            /\ retries'[s] = retries[s] /\ crashes'[s] = crashes[s]
            /\ ~cancelling'[s]
            /\ request'[s] = (IF request[s] = "committed" THEN "lost" ELSE request[s])
            /\ message'[s] = (IF message[s] = "sending" THEN "unsent" ELSE message[s])
            /\ pc'[s]["local"] = "off" /\ pc'[s]["celery"] = pc[s]["celery"]
            /\ seen'[s]["local"] = "absent" /\ seen'[s]["celery"] = seen[s]["celery"]
  BY Names DEF TypeOK, ApiCrash, Still, row

-----------------------------------------------------------------------------
(* Each part of the inductive invariant is kept by a step of its scan *)

\* The parts of the state of a scan stay in agreement.
LEMMA CoherentStep ==
  ASSUME TypeOK, NEW s \in Scan, Coherent(s),
         ScanStep(s)
  PROVE  Coherent(s)'
<1> USE DEF Coherent, Outside, Goes, Other, Raising
<1>0. /\ batches[s] \in Nat /\ retries[s] \in Nat /\ crashes[s] \in Nat
      /\ cancelling[s] \in BOOLEAN
      /\ "local" \in Executor /\ "celery" \in Executor
  BY Names DEF TypeOK
<1>1. CASE Pipeline(s, "local")
  <2>1. Outside(s) /\ message'[s] = message[s]
    BY <1>0, <1>1, PipelineEffect
  <2>2. CASE Loads(s, "local")
    BY <1>0, <2>1, <2>2 DEF Loads
  <2>3. CASE Marks(s, "local")
    BY <1>0, <2>1, <2>3 DEF Marks
  <2>4. CASE Persists(s, "local")
    BY <1>0, <2>1, <2>4 DEF Persists
  <2>5. CASE Faults(s, "local")
    BY <1>0, <2>1, <2>5 DEF Faults
  <2>6. QED
    BY <1>0, <1>1, <2>2, <2>3, <2>4, <2>5, PipelineEffect
<1>2. CASE Pipeline(s, "celery")
  <2>1. Outside(s) /\ message'[s] = message[s]
    BY <1>0, <1>2, PipelineEffect
  <2>2. CASE Loads(s, "celery")
    BY <1>0, <2>1, <2>2 DEF Loads
  <2>3. CASE Marks(s, "celery")
    BY <1>0, <2>1, <2>3 DEF Marks
  <2>4. CASE Persists(s, "celery")
    BY <1>0, <2>1, <2>4 DEF Persists
  <2>5. CASE Faults(s, "celery")
    BY <1>0, <2>1, <2>5 DEF Faults
  <2>6. QED
    BY <1>0, <1>2, <2>2, <2>3, <2>4, <2>5, PipelineEffect
<1>3. CASE LocalStep(s) /\ ~Pipeline(s, "local")
  BY <1>0, <1>3, LocalEffect
<1>4. CASE ~Pipeline(s, "celery") /\ (WorkerStep(s) \/ WorkerCrash(s) \/ HardLimit(s))
  BY <1>0, <1>4, WorkerEffect
<1>5. CASE Create(s) \/ DispatchStep(s) \/ TakeMessage(s)
  <2>1. /\ batches'[s] = batches[s] /\ cancelling'[s] = cancelling[s]
        /\ retries'[s] = retries[s] /\ crashes'[s] = crashes[s]
        /\ seen'[s]["local"] = seen[s]["local"] /\ seen'[s]["celery"] = seen[s]["celery"]
    BY <1>5, DispatchEffect
  <2>2. CASE Creates(s)
    BY <1>0, <2>1, <2>2 DEF Creates
  <2>3. CASE Dispatches(s)
    BY <1>0, <2>1, <2>3 DEF Dispatches
  <2>4. CASE Travels(s)
    BY <1>0, <2>1, <2>4 DEF Travels
  <2>5. QED
    BY <1>5, <2>2, <2>3, <2>4, DispatchEffect
<1>6. CASE CancelStep(s)
  BY <1>0, <1>6, CancelEffect
<1>7. QED
  BY <1>1, <1>2, <1>3, <1>4, <1>5, <1>6 DEF ScanStep, LocalStep, WorkerStep

\* What is inserted, or may still be, stays paid for.
LEMMA PaidStep ==
  ASSUME TypeOK, NEW s \in Scan, Coherent(s), Paid(s),
         ScanStep(s)
  PROVE  Paid(s)'
<1> USE DEF PromptBroker, Coherent, Paid, Due, Working, Outside, Goes, Other, Raising
<1>0. /\ batches[s] \in Nat /\ retries[s] \in Nat /\ crashes[s] \in Nat
      /\ cancelling[s] \in BOOLEAN
      /\ "local" \in Executor /\ "celery" \in Executor
  BY Names DEF TypeOK
<1>1. CASE Pipeline(s, "local")
  <2>1. Outside(s) /\ message'[s] = message[s]
    BY <1>0, <1>1, PipelineEffect
  <2>2. CASE Loads(s, "local")
    BY <1>0, <2>1, <2>2 DEF Loads
  <2>3. CASE Marks(s, "local")
    BY <1>0, <2>1, <2>3 DEF Marks
  <2>4. CASE Persists(s, "local")
    BY <1>0, <2>1, <2>4 DEF Persists
  <2>5. CASE Faults(s, "local")
    BY <1>0, <2>1, <2>5 DEF Faults
  <2>6. QED
    BY <1>0, <1>1, <2>2, <2>3, <2>4, <2>5, PipelineEffect
<1>2. CASE Pipeline(s, "celery")
  <2>1. Outside(s) /\ message'[s] = message[s]
    BY <1>0, <1>2, PipelineEffect
  <2>2. CASE Loads(s, "celery")
    BY <1>0, <2>1, <2>2 DEF Loads
  <2>3. CASE Marks(s, "celery")
    BY <1>0, <2>1, <2>3 DEF Marks
  <2>4. CASE Persists(s, "celery")
    BY <1>0, <2>1, <2>4 DEF Persists
  <2>5. CASE Faults(s, "celery")
    BY <1>0, <2>1, <2>5 DEF Faults
  <2>6. QED
    BY <1>0, <1>2, <2>2, <2>3, <2>4, <2>5, PipelineEffect
<1>3. CASE LocalStep(s) /\ ~Pipeline(s, "local")
  BY <1>0, <1>3, LocalEffect
<1>4. CASE ~Pipeline(s, "celery") /\ (WorkerStep(s) \/ WorkerCrash(s) \/ HardLimit(s))
  BY <1>0, <1>4, WorkerEffect
<1>5. CASE Create(s) \/ DispatchStep(s) \/ TakeMessage(s)
  <2>1. /\ batches'[s] = batches[s] /\ cancelling'[s] = cancelling[s]
        /\ retries'[s] = retries[s] /\ crashes'[s] = crashes[s]
        /\ seen'[s]["local"] = seen[s]["local"] /\ seen'[s]["celery"] = seen[s]["celery"]
    BY <1>5, DispatchEffect
  <2>2. CASE Creates(s)
    BY <1>0, <2>1, <2>2 DEF Creates
  <2>3. CASE Dispatches(s)
    <3>1. CASE PromptBroker(s)
      BY <1>0, <2>1, <2>3, <3>1 DEF Dispatches
    <3>2. CASE ~PromptBroker(s)
      BY <1>0, <2>1, <2>3, <3>2 DEF Dispatches
    <3>3. QED
      BY <3>1, <3>2
  <2>4. CASE Travels(s)
    BY <1>0, <2>1, <2>4 DEF Travels
  <2>5. QED
    BY <1>5, <2>2, <2>3, <2>4, DispatchEffect
<1>6. CASE CancelStep(s)
  BY <1>0, <1>6, CancelEffect
<1>7. QED
  BY <1>1, <1>2, <1>3, <1>4, <1>5, <1>6 DEF ScanStep, LocalStep, WorkerStep

\* With a prompt broker there is one executor, and its view is fresh.
LEMMA PromptStep ==
  ASSUME TypeOK, NEW s \in Scan, Coherent(s), Prompt(s),
         PromptBroker(s),
         ScanStep(s)
  PROVE  Prompt(s)'
<1> USE DEF PromptBroker, Coherent, Prompt, Fresh, InTransaction, Working, Outside, Goes, Other, Raising
<1>0. /\ batches[s] \in Nat /\ retries[s] \in Nat /\ crashes[s] \in Nat
      /\ cancelling[s] \in BOOLEAN
      /\ "local" \in Executor /\ "celery" \in Executor
  BY Names DEF TypeOK
<1>1. CASE Pipeline(s, "local")
  <2>1. Outside(s) /\ message'[s] = message[s]
    BY <1>0, <1>1, PipelineEffect
  <2>2. CASE Loads(s, "local")
    BY <1>0, <2>1, <2>2 DEF Loads
  <2>3. CASE Marks(s, "local")
    BY <1>0, <2>1, <2>3 DEF Marks
  <2>4. CASE Persists(s, "local")
    BY <1>0, <2>1, <2>4 DEF Persists
  <2>5. CASE Faults(s, "local")
    BY <1>0, <2>1, <2>5 DEF Faults
  <2>6. QED
    BY <1>0, <1>1, <2>2, <2>3, <2>4, <2>5, PipelineEffect
<1>2. CASE Pipeline(s, "celery")
  <2>1. Outside(s) /\ message'[s] = message[s]
    BY <1>0, <1>2, PipelineEffect
  <2>2. CASE Loads(s, "celery")
    BY <1>0, <2>1, <2>2 DEF Loads
  <2>3. CASE Marks(s, "celery")
    BY <1>0, <2>1, <2>3 DEF Marks
  <2>4. CASE Persists(s, "celery")
    BY <1>0, <2>1, <2>4 DEF Persists
  <2>5. CASE Faults(s, "celery")
    BY <1>0, <2>1, <2>5 DEF Faults
  <2>6. QED
    BY <1>0, <1>2, <2>2, <2>3, <2>4, <2>5, PipelineEffect
<1>3. CASE LocalStep(s) /\ ~Pipeline(s, "local")
  BY <1>0, <1>3, LocalEffect
<1>4. CASE ~Pipeline(s, "celery") /\ (WorkerStep(s) \/ WorkerCrash(s) \/ HardLimit(s))
  BY <1>0, <1>4, WorkerEffect
<1>5. CASE Create(s) \/ DispatchStep(s) \/ TakeMessage(s)
  <2>1. /\ batches'[s] = batches[s] /\ cancelling'[s] = cancelling[s]
        /\ retries'[s] = retries[s] /\ crashes'[s] = crashes[s]
        /\ seen'[s]["local"] = seen[s]["local"] /\ seen'[s]["celery"] = seen[s]["celery"]
    BY <1>5, DispatchEffect
  <2>2. CASE Creates(s)
    BY <1>0, <2>1, <2>2 DEF Creates
  <2>3. CASE Dispatches(s)
    BY <1>0, <2>1, <2>3 DEF Dispatches
  <2>4. CASE Travels(s)
    BY <1>0, <2>1, <2>4 DEF Travels
  <2>5. QED
    BY <1>5, <2>2, <2>3, <2>4, DispatchEffect
<1>6. CASE CancelStep(s)
  BY <1>0, <1>6, CancelEffect
<1>7. QED
  BY <1>1, <1>2, <1>3, <1>4, <1>5, <1>6 DEF ScanStep, LocalStep, WorkerStep

\* What clients do not cancel is not cancelled.
LEMMA NeverCancelledStep ==
  ASSUME TypeOK, NEW s \in Scan, NeverCancelled(s),
         "cancel" \notin Events[s],
         ScanStep(s)
  PROVE  NeverCancelled(s)'
<1> USE DEF NeverCancelled, Outside, Goes, Other
<1>0. /\ batches[s] \in Nat /\ retries[s] \in Nat /\ crashes[s] \in Nat
      /\ cancelling[s] \in BOOLEAN
      /\ "local" \in Executor /\ "celery" \in Executor
  BY Names DEF TypeOK
<1>1. CASE Pipeline(s, "local")
  <2>1. Outside(s) /\ message'[s] = message[s]
    BY <1>0, <1>1, PipelineEffect
  <2>2. CASE Loads(s, "local")
    BY <1>0, <2>1, <2>2 DEF Loads
  <2>3. CASE Marks(s, "local")
    BY <1>0, <2>1, <2>3 DEF Marks
  <2>4. CASE Persists(s, "local")
    BY <1>0, <2>1, <2>4 DEF Persists
  <2>5. CASE Faults(s, "local")
    BY <1>0, <2>1, <2>5 DEF Faults
  <2>6. QED
    BY <1>0, <1>1, <2>2, <2>3, <2>4, <2>5, PipelineEffect
<1>2. CASE Pipeline(s, "celery")
  <2>1. Outside(s) /\ message'[s] = message[s]
    BY <1>0, <1>2, PipelineEffect
  <2>2. CASE Loads(s, "celery")
    BY <1>0, <2>1, <2>2 DEF Loads
  <2>3. CASE Marks(s, "celery")
    BY <1>0, <2>1, <2>3 DEF Marks
  <2>4. CASE Persists(s, "celery")
    BY <1>0, <2>1, <2>4 DEF Persists
  <2>5. CASE Faults(s, "celery")
    BY <1>0, <2>1, <2>5 DEF Faults
  <2>6. QED
    BY <1>0, <1>2, <2>2, <2>3, <2>4, <2>5, PipelineEffect
<1>3. CASE LocalStep(s) /\ ~Pipeline(s, "local")
  BY <1>0, <1>3, LocalEffect
<1>4. CASE ~Pipeline(s, "celery") /\ (WorkerStep(s) \/ WorkerCrash(s) \/ HardLimit(s))
  BY <1>0, <1>4, WorkerEffect
<1>5. CASE Create(s) \/ DispatchStep(s) \/ TakeMessage(s)
  <2>1. /\ batches'[s] = batches[s] /\ cancelling'[s] = cancelling[s]
        /\ retries'[s] = retries[s] /\ crashes'[s] = crashes[s]
        /\ seen'[s]["local"] = seen[s]["local"] /\ seen'[s]["celery"] = seen[s]["celery"]
    BY <1>5, DispatchEffect
  <2>2. CASE Creates(s)
    BY <1>0, <2>1, <2>2 DEF Creates
  <2>3. CASE Dispatches(s)
    BY <1>0, <2>1, <2>3 DEF Dispatches
  <2>4. CASE Travels(s)
    BY <1>0, <2>1, <2>4 DEF Travels
  <2>5. QED
    BY <1>5, <2>2, <2>3, <2>4, DispatchEffect
<1>6. CASE CancelStep(s)
  BY <1>0, <1>6, CancelEffect
<1>7. QED
  BY <1>1, <1>2, <1>3, <1>4, <1>5, <1>6 DEF ScanStep, LocalStep, WorkerStep

\* Without failures, what nobody works on has ended.
LEMMA EndedStep ==
  ASSUME TypeOK, NEW s \in Scan, Coherent(s), Ended(s),
         Recoverable(s),
         ScanStep(s)
  PROVE  Ended(s)'
<1> USE DEF Coherent, Ended, Stale, Terminal, Working, Outside, Goes, Other, Raising
<1>0. /\ batches[s] \in Nat /\ retries[s] \in Nat /\ crashes[s] \in Nat
      /\ cancelling[s] \in BOOLEAN
      /\ "local" \in Executor /\ "celery" \in Executor
  BY Names DEF TypeOK
<1>r. /\ "dbFault" \notin Events[s] /\ "redisFault" \notin Events[s]
      /\ "raise" \notin Events[s] /\ "hardLimit" \notin Events[s]
  BY DEF Recoverable
<1>1. CASE Pipeline(s, "local")
  <2>1. Outside(s) /\ message'[s] = message[s]
    BY <1>0, <1>r, <1>1, PipelineEffect
  <2>2. CASE Loads(s, "local")
    BY <1>0, <1>r, <2>1, <2>2 DEF Loads
  <2>3. CASE Marks(s, "local")
    BY <1>0, <1>r, <2>1, <2>3 DEF Marks
  <2>4. CASE Persists(s, "local")
    BY <1>0, <1>r, <2>1, <2>4 DEF Persists
  <2>5. CASE Faults(s, "local")
    BY <1>0, <1>r, <2>1, <2>5 DEF Faults
  <2>6. QED
    BY <1>0, <1>r, <1>1, <2>2, <2>3, <2>4, <2>5, PipelineEffect
<1>2. CASE Pipeline(s, "celery")
  <2>1. Outside(s) /\ message'[s] = message[s]
    BY <1>0, <1>r, <1>2, PipelineEffect
  <2>2. CASE Loads(s, "celery")
    BY <1>0, <1>r, <2>1, <2>2 DEF Loads
  <2>3. CASE Marks(s, "celery")
    BY <1>0, <1>r, <2>1, <2>3 DEF Marks
  <2>4. CASE Persists(s, "celery")
    BY <1>0, <1>r, <2>1, <2>4 DEF Persists
  <2>5. CASE Faults(s, "celery")
    BY <1>0, <1>r, <2>1, <2>5 DEF Faults
  <2>6. QED
    BY <1>0, <1>r, <1>2, <2>2, <2>3, <2>4, <2>5, PipelineEffect
<1>3. CASE LocalStep(s) /\ ~Pipeline(s, "local")
  <2>1. Outside(s) /\ message'[s] = message[s]
    BY <1>0, <1>3, LocalEffect
  <2>2. CASE pc[s]["local"] \in {"start", "failing"}
    BY <1>0, <1>r, <1>3, <2>1, <2>2, LocalEffect
  <2>3. CASE pc[s]["local"] = "claim"
    BY <1>0, <1>r, <1>3, <2>1, <2>3, LocalEffect
  <2>4. CASE pc[s]["local"] = "fail"
    BY <1>0, <1>r, <1>3, <2>1, <2>4, LocalEffect
  <2>5. CASE pc[s]["local"] \in Raising
    BY <1>0, <1>r, <1>3, <2>1, <2>5, LocalEffect
  <2>6. QED
    BY <1>r, <1>3, <2>2, <2>3, <2>4, <2>5, LocalEffect
<1>4. CASE ~Pipeline(s, "celery") /\ (WorkerStep(s) \/ WorkerCrash(s) \/ HardLimit(s))
  BY <1>0, <1>r, <1>4, WorkerEffect
<1>5. CASE Create(s) \/ DispatchStep(s) \/ TakeMessage(s)
  <2>1. /\ batches'[s] = batches[s] /\ cancelling'[s] = cancelling[s]
        /\ retries'[s] = retries[s] /\ crashes'[s] = crashes[s]
        /\ seen'[s]["local"] = seen[s]["local"] /\ seen'[s]["celery"] = seen[s]["celery"]
    BY <1>5, DispatchEffect
  <2>2. CASE Creates(s)
    BY <1>0, <1>r, <2>1, <2>2 DEF Creates
  <2>3. CASE Dispatches(s)
    BY <1>0, <1>r, <2>1, <2>3 DEF Dispatches
  <2>4. CASE Travels(s)
    BY <1>0, <1>r, <2>1, <2>4 DEF Travels
  <2>5. QED
    BY <1>5, <2>2, <2>3, <2>4, DispatchEffect
<1>6. CASE CancelStep(s)
  BY <1>0, <1>r, <1>6, CancelEffect
<1>7. QED
  BY <1>1, <1>2, <1>3, <1>4, <1>5, <1>6 DEF ScanStep, LocalStep, WorkerStep

-----------------------------------------------------------------------------
(* The inductive invariant *)

LEMMA InitScanInv ==
  ASSUME Init, NEW s \in Scan
  PROVE  ScanInv(s)
  BY Names DEF Init, ScanInv, Coherent, Paid, Due, Prompt, Fresh, InTransaction,
     NeverCancelled, Ended, Stale, Working, Terminal

LEMMA StillScanInv ==
  ASSUME NEW s \in Scan, ScanInv(s), Still(s)
  PROVE  ScanInv(s)'
<1> USE DEF Still
<1>1. Coherent(s)' /\ Paid(s)'
  BY DEF ScanInv, Coherent, Paid, Due
<1>2. ASSUME PromptBroker(s) PROVE Prompt(s)'
  BY <1>2 DEF ScanInv, Prompt, Fresh
<1>3. ASSUME "cancel" \notin Events[s] PROVE NeverCancelled(s)'
  BY <1>3 DEF ScanInv, NeverCancelled
<1>4. ASSUME Recoverable(s) PROVE Ended(s)'
  BY <1>4 DEF ScanInv, Ended, Stale
<1>5. QED
  BY <1>1, <1>2, <1>3, <1>4 DEF ScanInv

\* The loss of an API process keeps every part.
LEMMA ApiCrashScanInv ==
  ASSUME TypeOK, NEW hosted \in SUBSET Scan, ApiCrash(hosted),
         NEW s \in Scan, ScanInv(s), ~Still(s)
  PROVE  ScanInv(s)'
<1> DEFINE Lost ==
      /\ "apiCrash" \in Events[s]
      /\ status'[s] = status[s] /\ batches'[s] = batches[s]
      /\ retries'[s] = retries[s] /\ crashes'[s] = crashes[s]
      /\ ~cancelling'[s]
      /\ request'[s] = (IF request[s] = "committed" THEN "lost" ELSE request[s])
      /\ message'[s] = (IF message[s] = "sending" THEN "unsent" ELSE message[s])
      /\ pc'[s]["local"] = "off" /\ pc'[s]["celery"] = pc[s]["celery"]
      /\ seen'[s]["local"] = "absent" /\ seen'[s]["celery"] = seen[s]["celery"]
<1>1. Lost
  BY ApiCrashEffect
<1>2. batches[s] \in Nat /\ retries[s] \in Nat /\ crashes[s] \in Nat
  BY DEF TypeOK
<1>3. Coherent(s)'
  BY <1>1 DEF ScanInv, Coherent
<1>4. Paid(s)'
  BY <1>1, <1>2 DEF ScanInv, Paid, Due, Working
<1>5. ASSUME PromptBroker(s) PROVE Prompt(s)'
  BY <1>1, <1>2, <1>5 DEF ScanInv, Prompt, Fresh, InTransaction, Working
<1>6. ASSUME "cancel" \notin Events[s] PROVE NeverCancelled(s)'
  BY <1>1, <1>6 DEF ScanInv, NeverCancelled
<1>7. ~Recoverable(s)
  BY <1>1 DEF Recoverable
<1>8. QED
  BY <1>3, <1>4, <1>5, <1>6, <1>7 DEF ScanInv

LEMMA StepScanInv ==
  ASSUME TypeOK, NEW s \in Scan, ScanInv(s), ScanStep(s)
  PROVE  ScanInv(s)'
  BY CoherentStep, PaidStep, PromptStep, NeverCancelledStep, EndedStep DEF ScanInv

LEMMA NextIInv == IInv /\ [Next]_vars => IInv'
<1> SUFFICES ASSUME IInv, [Next]_vars PROVE IInv'
  OBVIOUS
<1>1. TypeOK /\ TypeOK' /\ \A t \in Scan : ScanInv(t)
  BY NextTypeOK DEF IInv
<1>2. ASSUME NEW t \in Scan PROVE ScanInv(t)'
  <2>1. CASE \E s \in Scan : ScanStep(s)
    <3>1. PICK s \in Scan : ScanStep(s)
      BY <2>1
    <3>2. CASE s = t
      BY <1>1, <3>1, <3>2, StepScanInv
    <3>3. CASE s # t
      BY <1>1, <3>1, <3>3, Frame, StillScanInv
    <3>4. QED
      BY <3>2, <3>3
  <2>2. CASE \E hosted \in SUBSET Scan : ApiCrash(hosted)
    BY <1>1, <2>2, ApiCrashScanInv, StillScanInv
  <2>3. CASE UNCHANGED vars
    <3>1. Still(t)
      BY <2>3 DEF vars, row, front, broker, Still
    <3>2. QED
      BY <1>1, <3>1, StillScanInv
  <2>4. QED
    BY <2>1, <2>2, <2>3 DEF Next
<1>3. QED
  BY <1>1, <1>2 DEF IInv

\* The inductive invariant holds whatever the events and the bounds.
THEOREM Invariance == Spec => []IInv
<1>1. Init => IInv
  BY InitTypeOK, InitScanInv DEF IInv
<1>2. QED
  BY <1>1, NextIInv, PTL DEF Spec

-----------------------------------------------------------------------------
(* What the invariant gives *)

\* However many deliveries, retries and losses, each extra copy of the
\* findings is paid for by one of them.
THEOREM DuplicatesAreExplained == Spec => []DuplicatesExplained
<1>1. ASSUME TypeOK, NEW s \in Scan, Paid(s)
      PROVE  batches[s] <= 1 + retries[s] + crashes[s]
                             + (IF PromptBroker(s) THEN 0 ELSE 1)
  <2>1. batches[s] \in Nat /\ retries[s] \in Nat /\ crashes[s] \in Nat
    BY <1>1 DEF TypeOK
  <2>2. Due(s) \in Nat
    BY DEF Due
  <2> DEFINE bound == 1 + retries[s] + crashes[s] + (IF PromptBroker(s) THEN 0 ELSE 1)
  <2>3. bound \in Nat
    BY <2>1
  <2>4. batches[s] + Due(s) <= bound
    BY <1>1 DEF Paid
  <2> HIDE DEF bound
  <2>5. batches[s] <= bound
    BY <2>1, <2>2, <2>3, <2>4
  <2>6. QED
    BY <2>5 DEF bound
<1>2. IInv => DuplicatesExplained
  BY <1>1 DEF IInv, ScanInv, DuplicatesExplained
<1>3. QED
  BY <1>2, Invariance, PTL

\* A scan whose publication never outlives its timeout has one executor.
THEOREM ExecutorIsUnique == Spec => []OneExecutor
<1>1. IInv => OneExecutor
  BY DEF IInv, ScanInv, Prompt, OneExecutor
<1>2. QED
  BY <1>1, Invariance, PTL

\* ... and no findings when it was marked FAILED.
THEOREM FailureHasNoFindings == Spec => []FailedHasNoFindings
<1>1. IInv => FailedHasNoFindings
  BY DEF IInv, ScanInv, Prompt, FailedHasNoFindings
<1>2. QED
  BY <1>1, Invariance, PTL

\* If moreover no client cancels it, findings mean that it is COMPLETED.
THEOREM FindingsMeanCompletion == Spec => []FindingsOnlyOfCompleted
<1>1. ASSUME IInv, NEW s \in Scan, Undisturbed(s), batches[s] > 0
      PROVE  status[s] = "completed"
  <2>1. Prompt(s) /\ NeverCancelled(s)
    BY <1>1 DEF IInv, ScanInv, PromptBroker, Undisturbed
  <2>2. QED
    BY <1>1, <2>1 DEF Prompt, NeverCancelled
<1>2. IInv => FindingsOnlyOfCompleted
  BY <1>1 DEF FindingsOnlyOfCompleted
<1>3. QED
  BY <1>2, Invariance, PTL

\* A scan that meets only what it recovers from is not orphaned: the late
\* acknowledgement, the rejection on loss and the failure handlers of the local
\* runs are enough.
THEOREM LossesOrphanNoScan == Spec => []NoOrphan
<1>1. ASSUME IInv, NEW s \in Scan, Recoverable(s), status[s] \in Active
      PROVE  Owned(s)
  <2>1. TypeOK /\ Coherent(s) /\ Ended(s)
    BY <1>1 DEF IInv, ScanInv
  <2>2. request[s] \in {"none", "committed", "dispatched", "lost"}
    BY <2>1 DEF TypeOK
  <2>3. QED
    BY <1>1, <2>1, <2>2 DEF Coherent, Ended, Owned, Active, Terminal, Working
<1>2. IInv => NoOrphan
  BY <1>1 DEF NoOrphan
<1>3. QED
  BY <1>2, Invariance, PTL

\* A COMPLETED scan has its findings, whatever fails.
THEOREM CompletionHasFindings == Spec => []CompletedHasFindings
<1> DEFINE Filled(s) == status[s] = "completed" => batches[s] > 0
<1>1. Init => CompletedHasFindings
  BY DEF Init, CompletedHasFindings
<1>2. ASSUME TypeOK, NEW s \in Scan, Filled(s), ScanStep(s)
      PROVE  Filled(s)'
  <2>0. batches[s] \in Nat /\ "local" \in Executor /\ "celery" \in Executor
    BY <1>2, Names DEF TypeOK
  <2>1. ASSUME NEW e \in Executor, Pipeline(s, e) PROVE Filled(s)'
    BY <1>2, <2>0, <2>1, PipelineEffect DEF Loads, Marks, Persists, Faults
  <2>2. CASE LocalStep(s) /\ ~Pipeline(s, "local")
    BY <1>2, <2>2, LocalEffect
  <2>3. CASE ~Pipeline(s, "celery") /\ (WorkerStep(s) \/ WorkerCrash(s) \/ HardLimit(s))
    BY <1>2, <2>3, WorkerEffect
  <2>4. CASE Create(s) \/ DispatchStep(s) \/ TakeMessage(s)
    BY <1>2, <2>4, DispatchEffect DEF Creates, Dispatches, Travels
  <2>5. CASE CancelStep(s)
    BY <1>2, <2>5, CancelEffect
  <2>6. QED
    BY <1>2, <2>0, <2>1, <2>2, <2>3, <2>4, <2>5 DEF ScanStep, LocalStep, WorkerStep
<1>3. TypeOK /\ CompletedHasFindings /\ [Next]_vars => CompletedHasFindings'
  <2> SUFFICES ASSUME TypeOK, CompletedHasFindings, [Next]_vars, NEW t \in Scan
               PROVE  Filled(t)'
    BY DEF CompletedHasFindings
  <2>1. Filled(t)
    BY DEF CompletedHasFindings
  <2>2. CASE \E s \in Scan : ScanStep(s)
    <3>1. PICK s \in Scan : ScanStep(s)
      BY <2>2
    <3>2. CASE s # t
      BY <2>1, <3>1, <3>2, Frame DEF Still
    <3>3. QED
      BY <1>2, <2>1, <3>1, <3>2
  <2>3. CASE \E hosted \in SUBSET Scan : ApiCrash(hosted)
    BY <2>1, <2>3 DEF ApiCrash, row
  <2>4. CASE UNCHANGED vars
    BY <2>1, <2>4 DEF vars, row
  <2>5. QED
    BY <2>2, <2>3, <2>4 DEF Next
<1>4. QED
  BY <1>1, <1>3, TypeCorrect, PTL DEF Spec

-----------------------------------------------------------------------------
(* The rows implement the life of a scan that the API promises *)

\* What one step may do to what a client sees of its scan: nothing, or one
\* event of ScanJob.
Visible(s) ==
  \/ status'[s] = status[s] /\ (batches'[s] > 0 <=> batches[s] > 0)
  \/ /\ \/ status[s] = "absent" /\ status'[s] = "pending"
        \/ status[s] = "pending" /\ status'[s] = "running"
        \/ status[s] \in {"pending", "running"} /\ status'[s] = "failed"
     /\ (batches'[s] > 0 <=> batches[s] > 0)
  \/ /\ status[s] \in {"pending", "running"} /\ status'[s] = "completed"
     /\ batches'[s] > 0

LEMMA ScanStepVisible ==
  ASSUME TypeOK, CompletedHasFindings, NEW s \in Scan, Undisturbed(s),
         ScanInv(s), ScanStep(s)
  PROVE  Visible(s)
<1>0. /\ batches[s] \in Nat /\ status[s] \in Status
      /\ "local" \in Executor /\ "celery" \in Executor
      /\ Coherent(s) /\ Prompt(s) /\ NeverCancelled(s)
      /\ status[s] = "completed" => batches[s] > 0
  BY Names DEF TypeOK, ScanInv, CompletedHasFindings, PromptBroker, Undisturbed
<1> USE DEF Visible, Coherent, Prompt, Fresh, NeverCancelled, InTransaction, Working,
            Status, Goes, Other, Raising
<1>1. CASE Pipeline(s, "local")
  <2>1. CASE Loads(s, "local")
    BY <1>0, <2>1 DEF Loads
  <2>2. CASE Marks(s, "local")
    BY <1>0, <2>2 DEF Marks
  <2>3. CASE Persists(s, "local")
    BY <1>0, <2>3 DEF Persists
  <2>4. CASE Faults(s, "local")
    BY <1>0, <2>4 DEF Faults
  <2>5. QED
    BY <1>0, <1>1, <2>1, <2>2, <2>3, <2>4, PipelineEffect
<1>2. CASE Pipeline(s, "celery")
  <2>1. CASE Loads(s, "celery")
    BY <1>0, <2>1 DEF Loads
  <2>2. CASE Marks(s, "celery")
    BY <1>0, <2>2 DEF Marks
  <2>3. CASE Persists(s, "celery")
    BY <1>0, <2>3 DEF Persists
  <2>4. CASE Faults(s, "celery")
    BY <1>0, <2>4 DEF Faults
  <2>5. QED
    BY <1>0, <1>2, <2>1, <2>2, <2>3, <2>4, PipelineEffect
<1>3. CASE LocalStep(s) /\ ~Pipeline(s, "local")
  BY <1>0, <1>3, LocalEffect
<1>4. CASE ~Pipeline(s, "celery") /\ (WorkerStep(s) \/ WorkerCrash(s) \/ HardLimit(s))
  BY <1>0, <1>4, WorkerEffect
<1>5. CASE Create(s) \/ DispatchStep(s) \/ TakeMessage(s)
  BY <1>0, <1>5, DispatchEffect DEF Creates, Dispatches, Travels
<1>6. CASE CancelStep(s)
  BY <1>0, <1>6, CancelEffect
<1>7. QED
  BY <1>1, <1>2, <1>3, <1>4, <1>5, <1>6 DEF ScanStep, LocalStep, WorkerStep

LEMMA NextVisible ==
  ASSUME IInv, CompletedHasFindings, [Next]_vars
  PROVE  \/ \A t \in Scan : status'[t] = status[t] /\ batches'[t] = batches[t]
         \/ \E s \in Scan :
              /\ Undisturbed(s) => Visible(s)
              /\ \A t \in Scan \ {s} : status'[t] = status[t] /\ batches'[t] = batches[t]
<1>1. CASE \E s \in Scan : ScanStep(s)
  <2>1. PICK s \in Scan : ScanStep(s)
    BY <1>1
  <2>2. TypeOK /\ ScanInv(s)
    BY DEF IInv
  <2>3. QED
    BY <2>1, <2>2, ScanStepVisible, Frame DEF Still
<1>2. CASE \E hosted \in SUBSET Scan : ApiCrash(hosted)
  BY <1>2 DEF ApiCrash, row
<1>3. CASE UNCHANGED vars
  BY <1>3 DEF vars, row
<1>4. QED
  BY <1>1, <1>2, <1>3 DEF Next

\* Of scans with a prompt broker and no cancellation, every behaviour of the
\* executors, the queue and the faults is one of the jobs clients were promised.
THEOREM RowsImplementJobs == Spec => JobSpec
<1> DEFINE st  == [s \in Quiet |-> status[s]]
           pub == [s \in Quiet |-> batches[s] > 0]
<1>1. Init => Job!Init
  <2> SUFFICES ASSUME Init PROVE Job!Init
    OBVIOUS
  <2>1. ASSUME NEW s \in Quiet
        PROVE  status[s] = "absent" /\ (batches[s] > 0) = FALSE
    BY DEF Init, Quiet
  <2>2. st = [s \in Quiet |-> "absent"] /\ pub = [s \in Quiet |-> FALSE]
    BY <2>1, Zenon
  <2>3. QED
    BY <2>2 DEF Job!Init
<1>2. IInv /\ CompletedHasFindings /\ [Next]_vars => [Job!Next]_(Job!vars)
  <2> SUFFICES ASSUME IInv, CompletedHasFindings, [Next]_vars
               PROVE  [Job!Next]_(Job!vars)
    OBVIOUS
  <2>0. ASSUME \A t \in Quiet : status'[t] = status[t] /\ (batches'[t] > 0) = (batches[t] > 0)
        PROVE  UNCHANGED Job!vars
    <3>1. st' = st
      BY <2>0
    <3>2. pub' = pub
      BY <2>0, Zenon
    <3>3. QED
      BY <3>1, <3>2 DEF Job!vars
  <2>1. CASE \A t \in Scan : status'[t] = status[t] /\ batches'[t] = batches[t]
    <3>1. \A t \in Quiet : status'[t] = status[t] /\ (batches'[t] > 0) = (batches[t] > 0)
      BY <2>1 DEF Quiet
    <3>2. QED
      BY <2>0, <3>1
  <2>2. CASE \E s \in Scan :
              /\ Undisturbed(s) => Visible(s)
              /\ \A t \in Scan \ {s} : status'[t] = status[t] /\ batches'[t] = batches[t]
    <3>1. PICK s \in Scan :
              /\ Undisturbed(s) => Visible(s)
              /\ \A t \in Scan \ {s} : status'[t] = status[t] /\ batches'[t] = batches[t]
      BY <2>2
    <3>0. ASSUME NEW t \in Quiet, t # s
          PROVE  status'[t] = status[t] /\ (batches'[t] > 0) = (batches[t] > 0)
      BY <3>0, <3>1 DEF Quiet
    <3>2. CASE s \notin Quiet
      BY <2>0, <3>0, <3>2, Zenon
    <3>3. CASE s \in Quiet
      <4>1. Visible(s)
        BY <3>1, <3>3 DEF Quiet
      <4>2. st' = [st EXCEPT ![s] = status'[s]]
        BY <3>0, <3>3
      <4>3. pub' = [pub EXCEPT ![s] = (batches'[s] > 0)]
        <5>1. ASSUME NEW t \in Quiet
              PROVE  pub'[t] = [pub EXCEPT ![s] = (batches'[s] > 0)][t]
          BY <3>0, <3>3, Zenon
        <5>2. QED
          BY <5>1, Zenon
      <4>4. ASSUME (batches'[s] > 0) <=> (batches[s] > 0) PROVE pub' = pub
        <5>1. ASSUME NEW t \in Quiet PROVE (batches'[t] > 0) = (batches[t] > 0)
          BY <3>0, <4>4
        <5>2. QED
          BY <5>1, Zenon
      <4>5. CASE status'[s] = status[s] /\ (batches'[s] > 0 <=> batches[s] > 0)
        <5>1. st' = st
          BY <3>0, <4>5
        <5>2. QED
          BY <4>4, <4>5, <5>1 DEF Job!vars
      <4>6. CASE /\ \/ status[s] = "absent" /\ status'[s] = "pending"
                    \/ status[s] = "pending" /\ status'[s] = "running"
                    \/ status[s] \in {"pending", "running"} /\ status'[s] = "failed"
                 /\ (batches'[s] > 0 <=> batches[s] > 0)
        <5>1. pub' = pub
          BY <4>4, <4>6
        <5>2. \/ Job!Move(s, {"absent"}, "pending")
              \/ Job!Move(s, {"pending"}, "running")
              \/ Job!Move(s, {"pending", "running"}, "failed")
          BY <3>3, <4>2, <4>6 DEF Job!Move
        <5>3. Job!Accept(s) \/ Job!Begin(s) \/ Job!Fail(s)
          BY <5>1, <5>2, Zenon DEF Job!Accept, Job!Begin, Job!Fail
        <5>4. QED
          BY <3>3, <5>3 DEF Job!Next
      <4>7. CASE /\ status[s] \in {"pending", "running"} /\ status'[s] = "completed"
                 /\ batches'[s] > 0
        <5>1. Job!Move(s, {"pending", "running"}, "completed")
          BY <3>3, <4>2, <4>7 DEF Job!Move
        <5>2. (batches'[s] > 0) = TRUE
          BY <4>7
        <5>3. pub' = [pub EXCEPT ![s] = TRUE]
          BY <4>3, <5>2, Zenon
        <5>4. Job!Complete(s)
          BY <5>1, <5>3, Zenon DEF Job!Complete
        <5>5. QED
          BY <3>3, <5>4 DEF Job!Next
      <4>8. QED
        BY <4>1, <4>5, <4>6, <4>7 DEF Visible
    <3>4. QED
      BY <3>2, <3>3
  <2>3. QED
    BY <2>1, <2>2, NextVisible
<1>3. QED
  BY <1>1, <1>2, Invariance, CompletionHasFindings, PTL DEF Spec, JobSpec, Job!Spec

\* ... in particular a scan that has ended never changes its status.
THEOREM EndsAreFinal == Spec => TerminalStays
<1> DEFINE Kept == \A s \in Scan : Undisturbed(s) /\ status[s] \in Terminal
                                     => status'[s] = status[s]
<1>1. IInv /\ CompletedHasFindings /\ [Next]_vars => [Kept]_vars
  <2> SUFFICES ASSUME IInv, CompletedHasFindings, [Next]_vars, NEW t \in Scan,
                      Undisturbed(t), status[t] \in Terminal
               PROVE  status'[t] = status[t]
    OBVIOUS
  <2>1. CASE \A s \in Scan : status'[s] = status[s] /\ batches'[s] = batches[s]
    BY <2>1
  <2>2. CASE \E s \in Scan :
              /\ Undisturbed(s) => Visible(s)
              /\ \A u \in Scan \ {s} : status'[u] = status[u] /\ batches'[u] = batches[u]
    BY <2>2 DEF Visible, Terminal
  <2>3. QED
    BY <2>1, <2>2, NextVisible
<1>2. QED
  BY <1>1, Invariance, CompletionHasFindings, PTL DEF Spec, TerminalStays

-----------------------------------------------------------------------------
(* What the other endpoints may rely on *)

\* What one step may do to the status of a scan with a prompt broker.
RowMoves(s) ==
  \/ status'[s] = status[s]
  \/ status[s] = "absent"
  \/ Moves(status[s], status'[s])
  \/ cancelling[s] /\ status'[s] = "cancelled"

LEMMA ScanStepMoves ==
  ASSUME TypeOK, CompletedHasFindings, NEW s \in Scan, PromptBroker(s),
         ScanInv(s), ScanStep(s)
  PROVE  RowMoves(s)
<1>0. /\ batches[s] \in Nat /\ status[s] \in Status
      /\ "local" \in Executor /\ "celery" \in Executor
      /\ Coherent(s) /\ Prompt(s)
      /\ status[s] = "completed" => batches[s] > 0
  BY Names DEF TypeOK, ScanInv, CompletedHasFindings
<1> USE DEF RowMoves, Moves, Coherent, Prompt, Fresh, InTransaction, Working,
            Status, Goes, Other, Raising
<1>1. CASE Pipeline(s, "local")
  <2>1. CASE Loads(s, "local")
    BY <1>0, <2>1 DEF Loads
  <2>2. CASE Marks(s, "local")
    BY <1>0, <2>2 DEF Marks
  <2>3. CASE Persists(s, "local")
    BY <1>0, <2>3 DEF Persists
  <2>4. CASE Faults(s, "local")
    BY <1>0, <2>4 DEF Faults
  <2>5. QED
    BY <1>0, <1>1, <2>1, <2>2, <2>3, <2>4, PipelineEffect
<1>2. CASE Pipeline(s, "celery")
  <2>1. CASE Loads(s, "celery")
    BY <1>0, <2>1 DEF Loads
  <2>2. CASE Marks(s, "celery")
    BY <1>0, <2>2 DEF Marks
  <2>3. CASE Persists(s, "celery")
    BY <1>0, <2>3 DEF Persists
  <2>4. CASE Faults(s, "celery")
    BY <1>0, <2>4 DEF Faults
  <2>5. QED
    BY <1>0, <1>2, <2>1, <2>2, <2>3, <2>4, PipelineEffect
<1>3. CASE LocalStep(s) /\ ~Pipeline(s, "local")
  BY <1>0, <1>3, LocalEffect
<1>4. CASE ~Pipeline(s, "celery") /\ (WorkerStep(s) \/ WorkerCrash(s) \/ HardLimit(s))
  BY <1>0, <1>4, WorkerEffect
<1>5. CASE Create(s) \/ DispatchStep(s) \/ TakeMessage(s)
  BY <1>0, <1>5, DispatchEffect DEF Creates, Dispatches, Travels
<1>6. CASE CancelStep(s)
  BY <1>0, <1>6, CancelEffect
<1>7. QED
  BY <1>1, <1>2, <1>3, <1>4, <1>5, <1>6 DEF ScanStep, LocalStep, WorkerStep

\* Unless the broker is slow, rows move as Console has it, for any faults, any
\* retries and any losses: a scan that completed or failed is changed by no
\* executor any more.
THEOREM RowsMoveAsConsoleHasIt == Spec => RowsMove
<1>1. IInv /\ CompletedHasFindings /\ [Next]_vars =>
        [\A s \in Scan :
           PromptBroker(s) /\ status[s] # "absent" /\ status'[s] # status[s] =>
             \/ Moves(status[s], status'[s])
             \/ cancelling[s] /\ status'[s] = "cancelled"]_vars
  <2> SUFFICES ASSUME IInv, CompletedHasFindings, [Next]_vars, NEW t \in Scan, PromptBroker(t)
               PROVE  RowMoves(t)
    BY DEF RowMoves
  <2>1. CASE \E s \in Scan : ScanStep(s)
    <3>1. PICK s \in Scan : ScanStep(s)
      BY <2>1
    <3>2. CASE s # t
      BY <3>1, <3>2, Frame DEF IInv, Still, RowMoves
    <3>3. CASE s = t
      BY <3>1, <3>3, ScanStepMoves DEF IInv
    <3>4. QED
      BY <3>2, <3>3
  <2>2. CASE \E hosted \in SUBSET Scan : ApiCrash(hosted)
    BY <2>2 DEF ApiCrash, row, RowMoves
  <2>3. CASE UNCHANGED vars
    BY <2>3 DEF vars, row, RowMoves
  <2>4. QED
    BY <2>1, <2>2, <2>3 DEF Next
<1>2. QED
  BY <1>1, Invariance, CompletionHasFindings, PTL DEF Spec, RowsMove

-----------------------------------------------------------------------------
(* No scan is handed on for ever *)

\* What scan s is waiting for, who has it and what they have inserted.
Handling(s) == <<request[s], message[s], retries[s], crashes[s], pc[s], batches[s]>>
Nearer(s)   == StepsLeft(s)' < StepsLeft(s) \/ UNCHANGED Handling(s)

\* The sum as its parts, which are natural numbers.
LEMMA LeftIs ==
  /\ PhasesLeft["off"] = 0 /\ PhasesLeft["fail"] = 1 /\ PhasesLeft["failing"] = 2
  /\ PhasesLeft["close"] = 3 /\ PhasesLeft["persist"] = 4 /\ PhasesLeft["scan"] = 5
  /\ PhasesLeft["mark"] = 6 /\ PhasesLeft["enter"] = 7 /\ PhasesLeft["claim"] = 8
  /\ PhasesLeft["start"] = 9
  /\ RequestLeft["none"] = 20 /\ RequestLeft["committed"] = 19
  /\ RequestLeft["dispatched"] = 0 /\ RequestLeft["lost"] = 0
  /\ MessageLeft["unsent"] = 0 /\ MessageLeft["sending"] = 9 /\ MessageLeft["queued"] = 8
  /\ MessageLeft["delivered"] = 0 /\ MessageLeft["acked"] = 0
BY DEF PhasesLeft, RequestLeft, MessageLeft

LEMMA IdleIsLast ==
  ASSUME TypeOK, NEW s \in Scan, NEW e \in Executor
  PROVE  pc[s][e] = "off" \/ PhasesLeft[pc[s][e]] > 0
<1>1. pc[s][e] \in Phase
  BY DEF TypeOK
<1>2. QED
  BY <1>1, LeftIs DEF Phase

LEMMA LeftTypes ==
  ASSUME TypeOK, NEW s \in Scan
  PROVE  /\ RequestLeft[request[s]] \in Nat /\ MessageLeft[message[s]] \in Nat
         /\ PhasesLeft[pc[s]["local"]] \in Nat /\ PhasesLeft[pc[s]["celery"]] \in Nat
         /\ MaxRetries - retries[s] \in Nat /\ MaxCrashes - crashes[s] \in Nat
<1>1. \A p \in Phase : PhasesLeft[p] \in Nat
  BY LeftIs DEF Phase
<1>2. pc[s]["local"] \in Phase /\ pc[s]["celery"] \in Phase
  BY Names DEF TypeOK
<1>3. RequestLeft[request[s]] \in Nat /\ MessageLeft[message[s]] \in Nat
  <2>1. /\ request[s] \in {"none", "committed", "dispatched", "lost"}
        /\ message[s] \in {"unsent", "sending", "queued", "delivered", "acked"}
    BY DEF TypeOK
  <2>2. QED
    BY <2>1, LeftIs
<1>4. MaxRetries - retries[s] \in Nat /\ MaxCrashes - crashes[s] \in Nat
  BY BoundsAssumption DEF TypeOK
<1>5. QED
  BY <1>1, <1>2, <1>3, <1>4

\* An executor that goes on through the phases brings its scan nearer.
LEMMA PhasesCount ==
  ASSUME TypeOK, NEW s \in Scan, NEW e \in Executor, NEW from \in SUBSET Phase, NEW to \in Phase,
         Goes(s, e, from, to), Outside(s), message'[s] = message[s],
         \A p \in from : PhasesLeft[to] < PhasesLeft[p]
  PROVE  Nearer(s)
<1>1. PhasesLeft[pc'[s][e]] < PhasesLeft[pc[s][e]] /\ pc'[s][Other(e)] = pc[s][Other(e)]
  BY DEF Goes
<1>2. \A p \in Phase : PhasesLeft[p] \in Nat
  BY LeftIs DEF Phase
<1>3. PhasesLeft[pc'[s][e]] \in Nat
  BY <1>2 DEF Goes
<1>4. CASE e = "local"
  BY <1>1, <1>3, <1>4, LeftTypes DEF Other, Outside, Nearer, StepsLeft
<1>5. CASE e = "celery"
  BY <1>1, <1>3, <1>5, LeftTypes DEF Other, Outside, Nearer, StepsLeft
<1>6. QED
  BY <1>4, <1>5 DEF Executor

LEMMA ScanStepCounts ==
  ASSUME TypeOK, TypeOK', NEW s \in Scan, Coherent(s), ScanStep(s)
  PROVE  Nearer(s)
<1>0. /\ "local" \in Executor /\ "celery" \in Executor
      /\ RequestLeft[request[s]] \in Nat /\ MessageLeft[message[s]] \in Nat
      /\ PhasesLeft[pc[s]["local"]] \in Nat /\ PhasesLeft[pc[s]["celery"]] \in Nat
      /\ MaxRetries - retries[s] \in Nat /\ MaxCrashes - crashes[s] \in Nat
  BY Names, LeftTypes
<1>1. ASSUME NEW e \in Executor, Pipeline(s, e) PROVE Nearer(s)
  <2>1. /\ Outside(s) /\ message'[s] = message[s]
        /\ Loads(s, e) \/ Marks(s, e) \/ Persists(s, e) \/ Faults(s, e)
    BY <1>1, PipelineEffect
  <2>2. \/ Goes(s, e, {"enter"}, "mark") \/ Goes(s, e, {"scan"}, "persist")
        \/ Goes(s, e, {"mark"}, "scan") \/ Goes(s, e, {"persist"}, "close")
        \/ Goes(s, e, {"enter", "mark"}, "scan") \/ Goes(s, e, {"scan", "persist"}, "close")
    BY <2>1 DEF Loads, Marks, Persists, Faults
  <2>3. QED
    BY <2>1, <2>2, PhasesCount, LeftIs, Names
<1>2. CASE LocalStep(s) /\ ~Pipeline(s, "local")
  <2>1. /\ Outside(s) /\ message'[s] = message[s]
        /\ \/ Goes(s, "local", {"start"}, "claim") \/ Goes(s, "local", {"failing"}, "fail")
           \/ Goes(s, "local", {"claim"}, "enter") \/ Goes(s, "local", {"fail"}, "off")
           \/ Goes(s, "local", {"start", "claim"}, "off")
           \/ Goes(s, "local", {"failing", "fail"}, "off")
           \/ Goes(s, "local", {"close"}, "off")
           \/ Goes(s, "local", Raising, "failing")
    BY <1>2, LocalEffect
  <2>2. QED
    BY <1>0, <2>1, PhasesCount, LeftIs, Names DEF Raising
<1>3. CASE ~Pipeline(s, "celery") /\ (WorkerStep(s) \/ WorkerCrash(s) \/ HardLimit(s))
  <2>1. /\ request'[s] = request[s] /\ pc'[s]["local"] = pc[s]["local"]
        /\ pc'[s]["celery"] = "off" /\ message[s] = "delivered" /\ pc[s]["celery"] # "off"
    BY <1>3, WorkerEffect DEF Coherent
  <2>2. PhasesLeft[pc[s]["celery"]] > 0
    BY <1>0, <2>1, IdleIsLast
  <2>3. CASE message'[s] = "acked" /\ retries'[s] = retries[s] /\ crashes'[s] = crashes[s]
    BY <1>0, <2>1, <2>2, <2>3, LeftIs DEF Nearer, StepsLeft
  <2>4. CASE message'[s] = "queued" /\ retries'[s] = retries[s] + 1 /\ crashes'[s] = crashes[s]
    BY <1>0, <2>1, <2>2, <2>4, LeftIs, BoundsAssumption DEF TypeOK, Nearer, StepsLeft
  <2>5. CASE message'[s] = "queued" /\ retries'[s] = retries[s] /\ crashes'[s] = crashes[s] + 1
    BY <1>0, <2>1, <2>2, <2>5, LeftIs, BoundsAssumption DEF TypeOK, Nearer, StepsLeft
  <2>6. QED
    BY <1>3, <2>3, <2>4, <2>5, WorkerEffect
<1>4. CASE Create(s) \/ DispatchStep(s) \/ TakeMessage(s)
  <2>1. /\ retries'[s] = retries[s] /\ crashes'[s] = crashes[s]
        /\ Creates(s) \/ Dispatches(s) \/ Travels(s)
    BY <1>4, DispatchEffect
  <2>2. CASE Creates(s)
    BY <1>0, <2>1, <2>2, LeftIs DEF Creates, Nearer, StepsLeft
  <2>3. CASE Dispatches(s)
    <3>1. message[s] = "unsent" /\ pc[s]["local"] = "off"
      BY <2>3 DEF Dispatches, Coherent
    <3>2. QED
      BY <1>0, <2>1, <2>3, <3>1, LeftIs DEF Dispatches, Nearer, StepsLeft
  <2>4. CASE Travels(s)
    <3>1. message[s] # "delivered" => pc[s]["celery"] = "off"
      BY Names DEF Coherent
    <3>2. QED
      BY <1>0, <2>1, <2>4, <3>1, LeftIs DEF Travels, Nearer, StepsLeft
  <2>5. QED
    BY <2>1, <2>2, <2>3, <2>4
<1>5. CASE CancelStep(s)
  BY <1>5, CancelEffect DEF Nearer, Handling
<1>6. QED
  BY <1>0, <1>1, <1>2, <1>3, <1>4, <1>5 DEF ScanStep, LocalStep, WorkerStep

LEMMA ApiCrashCounts ==
  ASSUME TypeOK, NEW hosted \in SUBSET Scan, ApiCrash(hosted), NEW s \in Scan
  PROVE  Nearer(s)
<1>1. CASE Still(s)
  BY <1>1 DEF Still, Nearer, Handling
<1>2. CASE ~Still(s)
  <2>1. /\ batches'[s] = batches[s]
        /\ retries'[s] = retries[s] /\ crashes'[s] = crashes[s]
        /\ request'[s] = (IF request[s] = "committed" THEN "lost" ELSE request[s])
        /\ message'[s] = (IF message[s] = "sending" THEN "unsent" ELSE message[s])
        /\ pc'[s]["local"] = "off" /\ pc'[s]["celery"] = pc[s]["celery"]
    BY <1>2, ApiCrashEffect
  <2>2. PhasesLeft[pc[s]["local"]] = 0 => pc[s]["local"] = "off"
    BY Names, IdleIsLast
  <2>3. CASE request[s] = "committed" \/ message[s] = "sending" \/ pc[s]["local"] # "off"
    BY <2>1, <2>2, <2>3, LeftIs, LeftTypes DEF Nearer, StepsLeft
  <2>4. CASE request[s] # "committed" /\ message[s] # "sending" /\ pc[s]["local"] = "off"
    <3>1. pc'[s] = pc[s]
      BY <2>1, <2>4 DEF ApiCrash, TypeOK
    <3>2. QED
      BY <2>1, <2>4, <3>1 DEF Nearer, Handling
  <2>5. QED
    BY <2>3, <2>4
<1>3. QED
  BY <1>1, <1>2

\* Whatever fails, is retried, redelivered or lost, the steps that others than
\* DELETE take for a scan are numbered.
THEOREM ScansGetOn == Spec => GetsOn
<1>1. ASSUME IInv, IInv', [Next]_vars
      PROVE  [\A s \in Scan : Nearer(s)]_vars
  <2> SUFFICES ASSUME NEW t \in Scan PROVE Nearer(t)
    OBVIOUS
  <2>1. CASE \E s \in Scan : ScanStep(s)
    <3>1. PICK s \in Scan : ScanStep(s)
      BY <2>1
    <3>2. CASE s # t
      BY <1>1, <3>1, <3>2, Frame DEF IInv, Still, Nearer, Handling
    <3>3. CASE s = t
      BY <1>1, <3>1, <3>3, ScanStepCounts DEF IInv, ScanInv
    <3>4. QED
      BY <3>2, <3>3
  <2>2. CASE \E hosted \in SUBSET Scan : ApiCrash(hosted)
    BY <1>1, <2>2, ApiCrashCounts DEF IInv
  <2>3. CASE UNCHANGED vars
    BY <2>3 DEF vars, row, front, broker, Nearer, Handling
  <2>4. QED
    BY <1>1, <2>1, <2>2, <2>3 DEF Next
<1>2. ASSUME IInv, IInv', [Next]_vars
      PROVE  [\A s \in Scan :
                \/ StepsLeft(s)' < StepsLeft(s)
                \/ UNCHANGED <<request[s], message[s], retries[s], crashes[s], pc[s], batches[s]>>]_vars
  BY <1>1, <1>2 DEF Nearer, Handling
<1>3. QED
  BY <1>2, Invariance, PTL DEF Spec, GetsOn
=============================================================================
