---------------------------- MODULE ScanLifecycle ----------------------------
(***************************************************************************)
(* The life of a scan: the row in the scans table, the POST /scan handler   *)
(* and the rescan scheduler that create it, the two executors that run its  *)
(* pipeline (the API process's event loop and a Celery worker), the broker  *)
(* message, and the DELETE /scan handler.                                   *)
(*                                                                          *)
(* Every access to the row is an ORM transaction in two steps: the row is   *)
(* loaded, and, after at least one await, the changed attributes are        *)
(* committed.  Nothing locks the row in between, so a commit may be decided *)
(* on a value that is no longer there.                                      *)
(***************************************************************************)
EXTENDS Naturals, FiniteSets, ScanStatus

CONSTANTS
  Scan,         \* the scan identifiers that may be used
  MaxRetries,   \* max_retries of tasks.run_scan
  MaxCrashes,   \* bound on the worker processes lost under one scan
  Concurrency,  \* worker processes, each running one task at a time
  Events        \* the events that may happen to each scan

(***************************************************************************)
(* cancel       a client calls DELETE /scan/{id}                            *)
(* slowBroker   the publication outlives the 2 s the handler waits for it   *)
(* raise        the pipeline raises in a worker: an unparsable port in the     *)
(*              target URL, the soft time limit                             *)
(* raiseLocal   ... in the API process: the port, or an error in a          *)
(*              detector's construction                                     *)
(* dbFault      a transaction fails and is rolled back                      *)
(* redisFault   Redis refuses a worker's state update or retry publication  *)
(* apiCrash     an API process is lost                                      *)
(* workerCrash  a worker process is lost                                    *)
(* hardLimit    the 720 s limit kills the worker process; Celery then       *)
(*              acknowledges the message                                    *)
(***************************************************************************)
EventKind == {"cancel", "slowBroker", "raise", "raiseLocal", "dbFault", "redisFault",
              "apiCrash", "workerCrash", "hardLimit"}

ASSUME EventsAssumption == Events \in [Scan -> SUBSET EventKind]
ASSUME BoundsAssumption == MaxRetries \in Nat /\ MaxCrashes \in Nat

VARIABLES
  status,      \* scans.status; "absent" before the row is committed
  batches,     \* how many times the full set of findings was inserted
  source,      \* who created the row: the route or the rescan scheduler
  request,     \* progress of the coroutine that creates and dispatches
  cancelling,  \* a DELETE handler has seen PENDING and has yet to commit
  message,     \* the Celery message of the scan
  retries,     \* the retry count the message carries
  crashes,     \* worker processes lost under the scan so far
  pc,          \* where each executor of the scan stands in the pipeline
  seen         \* the status each executor loaded in its open transaction

row     == <<status, batches>>
front   == <<source, request, cancelling>>
broker  == <<message, retries, crashes>>
vars    == <<row, front, broker, pc, seen>>

Status   == {"absent", "pending", "running", "completed", "failed", "cancelled"}
Active   == {"pending", "running"}
Terminal == {"completed", "failed", "cancelled"}
Executor == {"local", "celery"}

(***************************************************************************)
(* off      not executing            mark     row loaded by _mark_running   *)
(* start    background task waiting  scan     recon .. enrichment           *)
(* claim    row loaded, to be set    persist  row loaded by                 *)
(*          RUNNING by                        _persist_results              *)
(*          _run_scan_background     close    results handled, returning    *)
(* enter    about to run             failing  exception caught              *)
(*          _orchestrate_scan        fail     row loaded, to be set FAILED  *)
(***************************************************************************)
Phase == {"off", "start", "claim", "enter", "mark", "scan", "persist",
          "close", "failing", "fail"}
InTransaction == {"claim", "mark", "persist", "fail"}

TypeOK ==
  /\ status \in [Scan -> Status]
  /\ batches \in [Scan -> Nat]
  /\ source \in [Scan -> {"none", "route", "scheduler"}]
  /\ request \in [Scan -> {"none", "committed", "dispatched", "lost"}]
  /\ cancelling \in [Scan -> BOOLEAN]
  /\ message \in [Scan -> {"unsent", "sending", "queued", "delivered", "acked"}]
  /\ retries \in [Scan -> 0 .. MaxRetries]
  /\ crashes \in [Scan -> 0 .. MaxCrashes]
  /\ pc \in [Scan -> [Executor -> Phase]]
  /\ seen \in [Scan -> [Executor -> Status]]

Init ==
  /\ status = [s \in Scan |-> "absent"]
  /\ batches = [s \in Scan |-> 0]
  /\ source = [s \in Scan |-> "none"]
  /\ request = [s \in Scan |-> "none"]
  /\ cancelling = [s \in Scan |-> FALSE]
  /\ message = [s \in Scan |-> "unsent"]
  /\ retries = [s \in Scan |-> 0]
  /\ crashes = [s \in Scan |-> 0]
  /\ pc = [s \in Scan |-> [e \in Executor |-> "off"]]
  /\ seen = [s \in Scan |-> [e \in Executor |-> "absent"]]

-----------------------------------------------------------------------------
(* Transactions of an executor on the row of its scan *)

\* Executor e goes from one phase to another outside any transaction.
Step(s, e, from, to) ==
  /\ pc[s][e] = from
  /\ pc' = [pc EXCEPT ![s][e] = to]

\* SELECT of the row by e, opening the transaction named by the phase `to`.
Load(s, e, from, to) ==
  /\ Step(s, e, from, to)
  /\ seen' = [seen EXCEPT ![s][e] = status[s]]
  /\ UNCHANGED <<row, front, broker>>

\* Commit: the unit of work emits the status only if it differs from the
\* value that was loaded.
Commit(s, e, new) ==
  /\ status' = IF new = seen[s][e] THEN status
               ELSE [status EXCEPT ![s] = new]
  /\ seen' = [seen EXCEPT ![s][e] = "absent"]

\* A transaction that fails, loading or committing, leaves the row alone.
Rollback(s, e, phases, to) ==
  /\ "dbFault" \in Events[s]
  /\ pc[s][e] \in phases
  /\ pc' = [pc EXCEPT ![s][e] = to]
  /\ seen' = [seen EXCEPT ![s][e] = "absent"]
  /\ UNCHANGED <<row, front, broker>>

-----------------------------------------------------------------------------
(* POST /scan and the scheduler's dispatch *)

\* initiate_scan up to its commit, _dispatch_rescan up to its commit.
CreateScan(s, who) ==
  /\ request[s] = "none"
  /\ request' = [request EXCEPT ![s] = "committed"]
  /\ source' = [source EXCEPT ![s] = who]
  /\ status' = [status EXCEPT ![s] = "pending"]
  /\ UNCHANGED <<batches, cancelling, broker, pc, seen>>

InitiateScan(s) == CreateScan(s, "route")
InsertRescan(s) == CreateScan(s, "scheduler")

\* The handler's dispatch is over: the message is in state m, and the
\* background task has been added iff fallback.
Dispatch(s, m, fallback) ==
  /\ request[s] = "committed"
  /\ source[s] = "route"
  /\ request' = [request EXCEPT ![s] = "dispatched"]
  /\ message' = [message EXCEPT ![s] = m]
  /\ pc' = IF fallback THEN [pc EXCEPT ![s]["local"] = "start"] ELSE pc
  /\ UNCHANGED <<row, source, cancelling, retries, crashes, seen>>

\* Mutant: the fallback is added after a successful publication too.
EnqueueAndFallback(s) == Dispatch(s, "queued", TRUE)

Enqueue(s)        == Dispatch(s, "queued", FALSE)
EnqueueRefused(s) == Dispatch(s, "unsent", TRUE)

\* wait_for gives up after 2 s, but the thread that publishes keeps running.
EnqueueTimeout(s) == "slowBroker" \in Events[s] /\ Dispatch(s, "sending", TRUE)

\* ... and the publication succeeds, or fails, once nobody waits for it.
PublishLate(s) ==
  /\ message[s] = "sending"
  /\ \E m \in {"queued", "unsent"} : message' = [message EXCEPT ![s] = m]
  /\ UNCHANGED <<row, front, retries, crashes, pc, seen>>

\* create_task(_run_safe): the scheduler runs the pipeline in its own loop.
StartRescan(s) ==
  /\ request[s] = "committed"
  /\ source[s] = "scheduler"
  /\ request' = [request EXCEPT ![s] = "dispatched"]
  /\ pc' = [pc EXCEPT ![s]["local"] = "enter"]
  /\ UNCHANGED <<row, source, cancelling, broker, seen>>

-----------------------------------------------------------------------------
(* DELETE /scan/{id} *)

CancelLoad(s) ==
  /\ "cancel" \in Events[s]
  /\ status[s] = "pending"
  /\ ~cancelling[s]
  /\ cancelling' = [cancelling EXCEPT ![s] = TRUE]
  /\ UNCHANGED <<row, source, request, broker, pc, seen>>

CancelCommit(s) ==
  /\ cancelling[s]
  /\ cancelling' = [cancelling EXCEPT ![s] = FALSE]
  /\ status' = [status EXCEPT ![s] = "cancelled"]
  /\ UNCHANGED <<batches, source, request, broker, pc, seen>>

CancelFault(s) ==
  /\ "dbFault" \in Events[s]
  /\ cancelling[s]
  /\ cancelling' = [cancelling EXCEPT ![s] = FALSE]
  /\ UNCHANGED <<row, source, request, broker, pc, seen>>

-----------------------------------------------------------------------------
(* _run_scan_background: the pipeline in the API process *)

BackgroundLoad(s) == Load(s, "local", "start", "claim")

\* The row becomes RUNNING whatever it was.
BackgroundClaim(s) ==
  /\ Step(s, "local", "claim", "enter")
  /\ Commit(s, "local", "running")
  /\ UNCHANGED <<batches, front, broker>>

\* This transaction is outside the try: its failure ends the task.
BackgroundFault(s) == Rollback(s, "local", {"start", "claim"}, "off")

-----------------------------------------------------------------------------
(* _orchestrate_scan, whoever runs it *)

MarkLoad(s, e) == Load(s, e, "enter", "mark")

MarkRunning(s, e) ==
  /\ Step(s, e, "mark", "scan")
  /\ Commit(s, e, IF seen[s][e] = "pending" THEN "running" ELSE seen[s][e])
  /\ UNCHANGED <<batches, front, broker>>

\* _mark_running swallows the failure and the pipeline goes on.
MarkFault(s, e) == Rollback(s, e, {"enter", "mark"}, "scan")

\* The phases between the two transactions are over: their own failures are
\* swallowed, and what they found is in memory.
PersistLoad(s, e) == Load(s, e, "scan", "persist")

\* Mutant: the status is committed whether or not the findings are.
PersistStatusFirst(s, e) ==
  /\ Step(s, e, "persist", "close")
  /\ Commit(s, e, "completed")
  /\ \E n \in {0, 1} : batches' = [batches EXCEPT ![s] = @ + n]
  /\ UNCHANGED <<front, broker>>

\* COMPLETED whatever the row was, and every finding, in one commit.
PersistResults(s, e) ==
  /\ Step(s, e, "persist", "close")
  /\ Commit(s, e, "completed")
  /\ batches' = [batches EXCEPT ![s] = @ + 1]
  /\ UNCHANGED <<front, broker>>

\* _persist_results swallows the failure: the pipeline returns as if done.
PersistFault(s, e) == Rollback(s, e, {"scan", "persist"}, "close")

Pipeline(s, e) ==
  \/ MarkLoad(s, e) \/ MarkRunning(s, e) \/ MarkFault(s, e)
  \/ PersistLoad(s, e) \/ PersistResults(s, e) \/ PersistFault(s, e)

\* Where an exception leaves _orchestrate_scan rather than being swallowed.
Raising == {"enter", "scan", "close"}

-----------------------------------------------------------------------------
(* The end of a local run: _run_scan_background and _run_safe *)

LocalReturn(s) ==
  /\ Step(s, "local", "close", "off")
  /\ UNCHANGED <<row, front, broker, seen>>

LocalRaise(s) ==
  /\ "raiseLocal" \in Events[s]
  /\ pc[s]["local"] \in Raising
  /\ pc' = [pc EXCEPT ![s]["local"] = "failing"]
  /\ UNCHANGED <<row, front, broker, seen>>

FailLoad(s) == Load(s, "local", "failing", "fail")

\* Mutant: FAILED whatever the row was.
MarkFailedAlways(s) ==
  /\ Step(s, "local", "fail", "off")
  /\ Commit(s, "local", "failed")
  /\ UNCHANGED <<batches, front, broker>>

\* Mutant: FAILED only if the row was RUNNING.
MarkFailedIfRunning(s) ==
  LET old == seen[s]["local"] IN
  /\ Step(s, "local", "fail", "off")
  /\ Commit(s, "local", IF old = "running" THEN "failed" ELSE old)
  /\ UNCHANGED <<batches, front, broker>>

\* FAILED, unless the row was COMPLETED or CANCELLED when it was loaded.
MarkFailed(s) ==
  LET old == seen[s]["local"] IN
  /\ Step(s, "local", "fail", "off")
  /\ Commit(s, "local", IF old \in {"completed", "cancelled"} THEN old ELSE "failed")
  /\ UNCHANGED <<batches, front, broker>>

\* Mutant: try to record the failure until the database takes it.
FailForever(s) == Rollback(s, "local", {"failing", "fail"}, "failing")

FailFault(s) == Rollback(s, "local", {"failing", "fail"}, "off")

-----------------------------------------------------------------------------
(* run_scan_task under Celery: late acknowledgement, bounded retries *)

BusyWorkers == Cardinality({s \in Scan : message[s] = "delivered"})

\* A free worker takes the message and enters the task.
Deliver(s) ==
  /\ message[s] = "queued"
  /\ BusyWorkers < Concurrency
  /\ message' = [message EXCEPT ![s] = "delivered"]
  /\ pc' = [pc EXCEPT ![s]["celery"] = "enter"]
  /\ UNCHANGED <<row, front, retries, crashes, seen>>

\* update_state, before the try, cannot reach the result backend: the task
\* ends without a retry.
DeliverFault(s) ==
  /\ "redisFault" \in Events[s]
  /\ message[s] = "queued"
  /\ BusyWorkers < Concurrency
  /\ message' = [message EXCEPT ![s] = "acked"]
  /\ UNCHANGED <<row, front, retries, crashes, pc, seen>>

\* The worker is done with the message, which becomes m.
Release(s, m) ==
  /\ message' = [message EXCEPT ![s] = m]
  /\ pc' = [pc EXCEPT ![s]["celery"] = "off"]
  /\ seen' = [seen EXCEPT ![s]["celery"] = "absent"]

WorkerReturn(s) ==
  /\ pc[s]["celery"] = "close"
  /\ Release(s, "acked")
  /\ UNCHANGED <<row, front, retries, crashes>>

\* Mutant: the retry does not carry its count.
WorkerRetryUncounted(s) ==
  /\ "raise" \in Events[s]
  /\ pc[s]["celery"] \in Raising
  /\ Release(s, "queued")
  /\ UNCHANGED <<row, front, retries, crashes>>

\* Mutant: the cap on the retries is not looked at.
WorkerRetryUncapped(s) ==
  /\ "raise" \in Events[s]
  /\ pc[s]["celery"] \in Raising
  /\ retries' = [retries EXCEPT ![s] = @ + 1]
  /\ Release(s, "queued")
  /\ UNCHANGED <<row, front, crashes>>

\* The exception asks for a retry: a new message with one more retry on it takes
\* the place of the old one.  That it is published and the old one acknowledged
\* is one step here: a worker lost in between would leave both.
WorkerRetry(s) ==
  /\ "raise" \in Events[s]
  /\ pc[s]["celery"] \in Raising
  /\ retries[s] < MaxRetries
  /\ retries' = [retries EXCEPT ![s] = @ + 1]
  /\ Release(s, "queued")
  /\ UNCHANGED <<row, front, crashes>>

\* The retries are used up, or the retry cannot be published: the message is
\* acknowledged and the row keeps the status it has.
WorkerGiveUp(s) ==
  /\ "raise" \in Events[s]
  /\ pc[s]["celery"] \in Raising
  /\ retries[s] = MaxRetries \/ "redisFault" \in Events[s]
  /\ Release(s, "acked")
  /\ UNCHANGED <<row, front, retries, crashes>>

\* Mutant: acknowledged when received, as without acks_late.
WorkerCrashAcked(s) ==
  /\ "workerCrash" \in Events[s]
  /\ message[s] = "delivered"
  /\ crashes[s] < MaxCrashes
  /\ crashes' = [crashes EXCEPT ![s] = @ + 1]
  /\ Release(s, "acked")
  /\ UNCHANGED <<row, front, retries>>

\* acks_late and reject_on_worker_lost put the message back.
WorkerCrash(s) ==
  /\ "workerCrash" \in Events[s]
  /\ message[s] = "delivered"
  /\ crashes[s] < MaxCrashes
  /\ crashes' = [crashes EXCEPT ![s] = @ + 1]
  /\ Release(s, "queued")
  /\ UNCHANGED <<row, front, retries>>

HardLimit(s) ==
  /\ "hardLimit" \in Events[s]
  /\ message[s] = "delivered"
  /\ Release(s, "acked")
  /\ UNCHANGED <<row, front, retries, crashes>>

-----------------------------------------------------------------------------
\* An API process that hosts the given scans is lost, with the handlers, the
\* background tasks and the publishing threads in it.  Its successor's startup
\* looks at no scan.
ApiCrash(hosted) ==
  /\ \A s \in hosted : "apiCrash" \in Events[s]
  /\ request' = [s \in Scan |-> IF s \in hosted /\ request[s] = "committed"
                                THEN "lost" ELSE request[s]]
  /\ cancelling' = [s \in Scan |-> cancelling[s] /\ s \notin hosted]
  /\ message' = [s \in Scan |-> IF s \in hosted /\ message[s] = "sending"
                                THEN "unsent" ELSE message[s]]
  /\ pc' = [s \in Scan |-> IF s \in hosted
                           THEN [pc[s] EXCEPT !["local"] = "off"] ELSE pc[s]]
  /\ seen' = [s \in Scan |-> IF s \in hosted
                             THEN [seen[s] EXCEPT !["local"] = "absent"] ELSE seen[s]]
  /\ UNCHANGED <<row, source, retries, crashes>>

-----------------------------------------------------------------------------
Create(s) == InitiateScan(s) \/ InsertRescan(s)

DispatchStep(s) ==
  \/ Enqueue(s) \/ EnqueueRefused(s) \/ EnqueueTimeout(s)
  \/ PublishLate(s) \/ StartRescan(s)

LocalStep(s) ==
  \/ BackgroundLoad(s) \/ BackgroundClaim(s) \/ BackgroundFault(s)
  \/ Pipeline(s, "local") \/ LocalReturn(s) \/ LocalRaise(s)
  \/ FailLoad(s) \/ MarkFailed(s) \/ FailFault(s)

WorkerStep(s) ==
  \/ Pipeline(s, "celery") \/ WorkerReturn(s) \/ WorkerRetry(s) \/ WorkerGiveUp(s)

TakeMessage(s) == Deliver(s) \/ DeliverFault(s)

CancelStep(s) == CancelLoad(s) \/ CancelCommit(s) \/ CancelFault(s)

ScanStep(s) ==
  \/ Create(s) \/ DispatchStep(s) \/ CancelStep(s) \/ LocalStep(s)
  \/ TakeMessage(s) \/ WorkerStep(s) \/ WorkerCrash(s) \/ HardLimit(s)

Next ==
  \/ \E s \in Scan : ScanStep(s)
  \/ \E hosted \in SUBSET Scan : ApiCrash(hosted)

Spec == Init /\ [][Next]_vars

(***************************************************************************)
(* Event loops and workers that are up keep running: a coroutine that can   *)
(* take its next step takes it (its awaits end, see ScanPipeline),          *)
(* and a free worker consumes the queue.  Clients, faults and crashes owe   *)
(* nothing.                                                                 *)
(***************************************************************************)
Fairness ==
  \A s \in Scan : /\ WF_vars(DispatchStep(s))
                  /\ WF_vars(LocalStep(s))
                  /\ WF_vars(WorkerStep(s))
                  /\ SF_vars(TakeMessage(s))

FairSpec == Spec /\ Fairness

-----------------------------------------------------------------------------
(* Properties.  Each names the events under which it is meant of a scan. *)

PromptBroker(s) == "slowBroker" \notin Events[s]
Undisturbed(s)  == Events[s] \intersect {"slowBroker", "cancel"} = {}
Recoverable(s)  == Events[s] \subseteq {"workerCrash", "slowBroker", "cancel", "raiseLocal"}

\* Somebody is still responsible for ending the scan.
Owned(s) ==
  \/ request[s] = "committed"
  \/ pc[s]["local"] # "off"
  \/ message[s] \in {"queued", "delivered"}

\* A COMPLETED scan has its findings, whichever transactions failed: the
\* status and the findings are committed together by _persist_results.
CompletedHasFindings ==
  \A s \in Scan : status[s] = "completed" => batches[s] > 0

\* Findings inserted more than once are paid for by a retry, a worker lost
\* before its acknowledgement or, with a slow broker, the second executor.
DuplicatesExplained ==
  \A s \in Scan : batches[s] <= 1 + retries[s] + crashes[s]
                                + (IF PromptBroker(s) THEN 0 ELSE 1)

\* Unless a slow broker publishes late, a scan that the API process runs is
\* never also in the queue or in a worker: initiate_scan falls back only when
\* nothing was published.
OneExecutor ==
  \A s \in Scan : PromptBroker(s) /\ pc[s]["local"] # "off" =>
                    message[s] \notin {"sending", "queued", "delivered"}

\* Unless a slow broker publishes late, a FAILED scan has no findings: the
\* failure handlers leave a row alone that was COMPLETED or CANCELLED.
FailedHasNoFindings ==
  \A s \in Scan : PromptBroker(s) /\ status[s] = "failed" => batches[s] = 0

\* Unless a scan is cancelled or the broker is slow, the findings of a scan
\* can be read only in state COMPLETED, whatever is executed again: a retry
\* or a redelivery finds the row COMPLETED and _mark_running leaves it so.
FindingsOnlyOfCompleted ==
  \A s \in Scan : Undisturbed(s) /\ batches[s] > 0 => status[s] = "completed"

\* ... and a scan that has ended never changes its status again.
TerminalStays ==
  [][\A s \in Scan : Undisturbed(s) /\ status[s] \in Terminal
                        => status'[s] = status[s]]_vars

\* ... and the rows implement the life of a scan that the API promises.
Quiet == {s \in Scan : Undisturbed(s)}

Job == INSTANCE ScanJob WITH Scan <- Quiet,
                             state <- [s \in Quiet |-> status[s]],
                             published <- [s \in Quiet |-> batches[s] > 0]
JobSpec == Job!Spec

\* Unless the broker is slow, a row moves as Console expects it to, whatever
\* fails and whatever is executed again; except that a DELETE which has read it
\* PENDING may cancel what has gone on, or ended, meanwhile.
RowsMove ==
  [][\A s \in Scan :
       PromptBroker(s) /\ status[s] # "absent" /\ status'[s] # status[s] =>
         \/ Moves(status[s], status'[s])
         \/ cancelling[s] /\ status'[s] = "cancelled"]_vars

\* When workers are lost, clients cancel, the broker is slow and local
\* pipelines raise, no scan that is PENDING or RUNNING is without somebody to
\* end it: the late acknowledgement puts the message of a lost worker back,
\* and both wrappers of a local run mark its failure.
NoOrphan ==
  \A s \in Scan : Recoverable(s) /\ status[s] \in Active => Owned(s)

\* ... and every scan that is accepted ends, and stays ended, whatever happens
\* to the scans it competes with for a worker.
EveryScanSettles ==
  \A s \in Scan : Recoverable(s) =>
    (request[s] = "committed" ~> [](status[s] \in Terminal))

\* Whatever happens, a scan is eventually left alone: the retries are bounded.
ScanIsLeftAlone ==
  \A s \in Scan : request[s] = "dispatched" ~> []~Owned(s)

\* A bound on what handlers, broker and executors have still to do for a scan,
\* with nine steps for each retry and each loss of a worker that may come.
PhasesLeft ==
  [off |-> 0, fail |-> 1, failing |-> 2, close |-> 3, persist |-> 4, scan |-> 5,
   mark |-> 6, enter |-> 7, claim |-> 8, start |-> 9]
RequestLeft == [none |-> 20, committed |-> 19, dispatched |-> 0, lost |-> 0]
MessageLeft == [unsent |-> 0, sending |-> 9, queued |-> 8, delivered |-> 0, acked |-> 0]
StepsLeft(s) ==
  RequestLeft[request[s]] + MessageLeft[message[s]]
  + PhasesLeft[pc[s]["local"]] + PhasesLeft[pc[s]["celery"]]
  + 9 * (MaxRetries - retries[s]) + 9 * (MaxCrashes - crashes[s])

\* No scan is handed on and executed for ever: whatever step changes who
\* handles it, where they are and what they have inserted brings it nearer to
\* the last, with both executors at work and every failure among them.
GetsOn ==
  [][\A s \in Scan :
       \/ StepsLeft(s)' < StepsLeft(s)
       \/ UNCHANGED <<request[s], message[s], retries[s], crashes[s], pc[s], batches[s]>>]_vars

\* CANCELLED is an end like the others: clients stop polling there.  Holds of
\* no instance in which clients cancel.
CancelledStays ==
  [][\A s \in Scan : status[s] = "cancelled" => status'[s] = "cancelled"]_vars

\* Every accepted scan reaches completed, failed or cancelled.
EveryScanEnds ==
  \A s \in Scan : status[s] = "pending" ~> status[s] \in Terminal

-----------------------------------------------------------------------------
(* What makes the properties inductive, scan by scan. *)

\* An execution in one of these phases has yet to insert its findings.
Working == {"start", "claim", "enter", "mark", "scan", "persist"}

\* The parts of a scan's state agree on how far it has come.
Coherent(s) ==
  /\ request[s] = "none" <=> status[s] = "absent"
  /\ request[s] # "dispatched" =>
       /\ message[s] = "unsent" /\ pc[s]["local"] = "off" /\ batches[s] = 0
       /\ status[s] \in {"absent", "pending", "cancelled"}
  /\ cancelling[s] => request[s] # "none"
  /\ message[s] = "delivered" <=> pc[s]["celery"] # "off"

\* How many more times the findings may be inserted without a new cause.
Due(s) ==
  (IF request[s] \in {"none", "committed"}
     THEN (IF PromptBroker(s) THEN 1 ELSE 2) ELSE 0)
  + (IF pc[s]["local"] \in Working THEN 1 ELSE 0)
  + (IF message[s] \in {"sending", "queued"} \/ pc[s]["celery"] \in Working
       THEN 1 ELSE 0)

Paid(s) == batches[s] + Due(s) <= 1 + retries[s] + crashes[s]
                                    + (IF PromptBroker(s) THEN 0 ELSE 1)

\* What an executor loaded is out of date only if the scan was cancelled
\* meanwhile.
Fresh(s, e) ==
  /\ pc[s][e] \in InTransaction => seen[s][e] = status[s] \/ status[s] = "cancelled"
  /\ pc[s][e] = "mark" /\ batches[s] > 0 => seen[s][e] # "pending"

\* With a prompt broker a scan has one executor, whose view of the row is
\* fresh.
Prompt(s) ==
  /\ pc[s]["local"] # "off" => message[s] = "unsent"
  /\ message[s] # "sending"
  /\ pc[s]["local"] \in Working => batches[s] = 0
  /\ batches[s] > 0 => status[s] \in {"completed", "cancelled"}
  /\ Fresh(s, "local") /\ Fresh(s, "celery")
  /\ pc[s]["local"] = "fail" /\ batches[s] > 0 =>
       seen[s]["local"] \in {"completed", "cancelled"}
  /\ status[s] = "failed" =>
       pc[s]["local"] = "off" /\ message[s] = "unsent" /\ batches[s] = 0

NeverCancelled(s) == ~cancelling[s] /\ status[s] # "cancelled"

\* The executor's completion, or the failure of the local one, will not be
\* emitted, though the row has been set RUNNING again since it was loaded.
Stale(s, e) ==
  /\ status[s] \notin Terminal
  /\ \/ pc[s][e] = "persist" /\ seen[s][e] = "completed"
     \/ pc[s][e] = "fail" /\ seen[s][e] \in Terminal

\* Without other failures, a scan nobody works on or is about to has ended.
Ended(s) ==
  LET localDue  == pc[s]["local"] \in Working \union {"failing", "fail"}
      workerDue == message[s] = "queued" \/ pc[s]["celery"] \in Working
  IN /\ request[s] # "lost"
     /\ request[s] = "dispatched" /\ ~localDue /\ ~workerDue => status[s] \in Terminal
     /\ Stale(s, "local") => workerDue /\ ~Stale(s, "celery")
     /\ Stale(s, "celery") => localDue

\* Each part under the events it is true of.
ScanInv(s) ==
  /\ Coherent(s)
  /\ Paid(s)
  /\ PromptBroker(s) => Prompt(s)
  /\ "cancel" \notin Events[s] => NeverCancelled(s)
  /\ Recoverable(s) => Ended(s)

\* The inductive invariant: the creating coroutine, the message, the two
\* executors and the row of a scan agree in every interleaving.
IInv == TypeOK /\ \A s \in Scan : ScanInv(s)
=============================================================================
