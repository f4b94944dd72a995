# IVDAF: a verification development

TLA+ models of the scanner backend (`src/backend`), the TLC configurations that
check them on small instances, and proofs, checked by TLAPS, of what holds for
every value of the constants. The program is an API process (FastAPI) that
accepts scans of network targets, runs them in a Celery worker or in its own
event loop, rescans targets periodically, and reports what eight detectors and
a port scanner find.

## 1. The system

| part | state it keeps | operations | talks to |
|---|---|---|---|
| scan routes (`routes/scan.py`) | the row of a scan | POST, GET, DELETE, the background task | database, broker, pipeline |
| task (`automation/tasks.py`) | the row; findings in memory until the end | mark RUNNING, phases, persist | database, scanners, detectors |
| Celery (`automation/celery_app.py`) | the message, its retry count | deliver, acknowledge, retry, put back | Redis, worker processes |
| rescan scheduler (`automation/rescan_scheduler.py`) | loop task, counters | start, stop, tick, collect, dispatch | database, pipeline |
| rate limiter (`middleware/rate_limiter.py`) | a window of times per client | dispatch | every request |
| port scanner (`scanners/port_scanner.py`) | one `PortScanResult` per scan | nmap attempts, connect scan | threads, nmap, the network |
| detectors, recon | findings of one call | detect, run | the network |
| explainer, remediation | none | pure functions | pipeline, reports |
| results, vulnerabilities, targets, reports routes | rows and report files | list, toggle, add, delete, generate | database, file system |
| database (`database/db.py`) | the engine's connections | sessions, migrations | SQLite or PostgreSQL |
| adaptive engine (`adaptive_scanner/`) | delay, counts of probes and drops | probe, batch_probe | created by the pipeline, which sends no probe through it |
| dashboard (`src/frontend`) | session state of a page | launch, poll, list, toggle, generate | API |

What is hard in it:

* **The row of a scan has many writers and no lock.** The POST handler, the
  DELETE handler, the background task, the worker and the scheduler each load
  the row, await, and commit what they decided on the loaded value.
* **A scan may be executed more than once, or by two executors.** Late
  acknowledgement, retries, a publication that outlives the two seconds the
  handler waits for it, lost workers, lost API processes.
* **Failures are swallowed in some places and not in others**: `_mark_running`
  and `_persist_results` log and go on, `_run_scan_background` and `_run_safe`
  mark the row FAILED, `run_scan_task` does not.
* **A tick of the scheduler is a chain of transactions** during which scans end,
  clients act and the process may be stopped.
* **A timeout abandons an nmap thread without stopping it**, and the thread goes
  on writing to the result others read.
* **Every request is several statements** in a session of its own, between which
  scans end and other clients change the same rows; with SQLite all sessions
  are on one connection, and one's rollback undoes what another has flushed.
* **Answers get lost**: the dashboard makes one `None` of a timeout, an error and
  an unreachable API, and has to say something of the scan all the same.
* **Detectors stop early** at a finding, go on after a failed request, and must
  neither miss a parameter nor report one twice.
* **The probes of the adaptive engine share one set of statistics**, from which
  its delay and its concurrency follow.
* **Boundaries**: a timestamp of exactly the cutoff, a part of a second that
  `int()` drops, the last retry, the last poll, a score of nought.

What makes each part correct, in short: a scan has one executor, one set of
findings and one end, and every scan comes to it; a target is rescanned for
ever, never twice at once and not too often; a client gets at most the limit
in any period and is told the truth about it; a port scan lists each port once,
names the engine its data is from and does not change once returned; the report
holds what the findings speak of; a detector that returns has asked what it
should and reports what it heard; an address is registered once, what the API
acknowledges is stored, what it says of a completed scan is whole, and the
dashboard says of a scan what is so. `PROJECT.json` lists the hazards line by
line.

## 2. Modules

| module | models | notes |
|---|---|---|
| `ScanJob` | what a client may rely on: accepted, running, ended once, findings exactly when completed | abstract |
| `ScanStatus` | what may become of a scan's status: `ScanLifecycle` shows it, `Console` relies on it | shared by both |
| `ScanLifecycle` | the row, the creating coroutine, the message, both executors, DELETE, crashes | refines `ScanJob` |
| `SlidingLimit` | a limiter that keeps the whole history | abstract |
| `RateLimiter` | `dispatch`, with eviction, `Retry-After`, the header, restarts | refines `SlidingLimit` |
| `RescanScheduler` | loop, tick, collection, dispatch, stop and start, against open scans | |
| `PortScanner` | `scan()`, its nmap threads, the connect scan | |
| `ScanPipeline` | `_orchestrate_scan` between its two transactions, with the reconnaissance | extends `PortScanner`, implements it |
| `Detectors` | the request loops of four detectors, the single look of three | |
| `Assessment` | enrichment, explanation, summary and risk of the findings; the rows; the report made of them | extends `Detectors` |
| `AdaptiveEngine` | `probe` and `batch_probe` over shared statistics | |
| `Console` | the endpoints for targets, findings, results, reports and POST /scan, on the database they share | |
| `Dashboard` | the pages of the dashboard as clients of the endpoints | extends `Console`, implements it |
| `MC*` | instances for TLC: sets of events, configurations, workloads | |
| `*_proofs` | theorems and proofs, one module per component; `Dashboard_proofs` has those of `Console` too | |

### ScanLifecycle

`status` and `batches` are the row of a scan: its status and how often the full
set of findings was inserted under it. `request` is the coroutine that created
the row (`initiate_scan`, or `_dispatch_rescan` of the scheduler), `cancelling`
a DELETE handler that has read PENDING, `message`, `retries` and `crashes` the
Celery message. `pc[s][e]` is where executor `e` of scan `s` stands: `"local"` is
the event loop of the API process, `"celery"` a worker. `seen[s][e]` is the
status the executor loaded in its open transaction.

A transaction is two actions, `Load` and the commit. `Commit` writes the status
only when it differs from the loaded one, because the ORM's unit of work emits
no UPDATE for an attribute that did not change; that detail decides several of
the races. `Rollback` is a transaction that fails. The phases in between
(recon to enrichment) are one phase here: they have no effect on the row, and
`ScanPipeline` models them. `Events` names what the environment may do, so that
a run says under which events its properties are meant.

| action | code |
|---|---|
| `InitiateScan`, `Enqueue`, `EnqueueRefused`, `EnqueueTimeout`, `PublishLate` | `initiate_scan`: commit, `wait_for(to_thread(_enqueue), 2)`, fallback |
| `InsertRescan`, `StartRescan` | `_dispatch_rescan` |
| `CancelLoad`, `CancelCommit`, `CancelFault` | `cancel_scan` |
| `BackgroundLoad`, `BackgroundClaim`, `BackgroundFault` | first block of `_run_scan_background` |
| `MarkLoad`, `MarkRunning`, `MarkFault` | `_mark_running` |
| `PersistLoad`, `PersistResults`, `PersistFault` | `_persist_results` |
| `LocalReturn`, `LocalRaise`, `FailLoad`, `MarkFailed`, `FailFault` | the handlers of `_run_scan_background` and `_run_safe` |
| `Deliver`, `DeliverFault`, `WorkerReturn`, `WorkerRetry`, `WorkerGiveUp` | `run_scan_task` |
| `WorkerCrash`, `HardLimit` | `task_acks_late`, `task_reject_on_worker_lost`, the time limits |
| `ApiCrash` | an API process and everything in it is gone; `lifespan` looks at no scan |

The visibility timeout of the broker (an hour) is longer than the hard time
limit of a task (twelve minutes), so a message is not redelivered while its
task runs; that redelivery is left out.

### RateLimiter

`window` is `_windows`, `passed` a history variable with every request that was
let through. Deciding a request is one step because `dispatch` does not await
between reading the clock and appending; the response is written later, so
`HeaderHonest` is an invariant of all states, not of one step. The clock counts
fractions of a second (`Second` ticks each).

### RescanScheduler

`pc`, `wait`, `snap` and `due` are a scheduler's loop, its sleep, the targets it
selected and those it will dispatch; `live` and `lost` count a target's open
scans with and without an executor; `sinceScan` is the age of
`last_scanned_at`, and `last`, `lastButOne` are the ages of the last two rescans
(history). Ages stop at `Interval`, beyond which the code tells nothing apart.

### PortScanner and ScanPipeline

`open` and `filtered` hold who listed which port, so that a port listed by two
writers is two entries. Each attempt has a thread of its own; `Timeout` leaves
the thread as it is. `ScanPipeline` adds the coroutine that calls `scan()`:
`TakePorts`, `ReportServices` and `BuildReport` are the three readings of the
result (`tasks.py:168`, `:201`, `:356`). The scanner's steps are the same
actions, so its theorems carry over (`PipelineImplementsScanner`). Before them
the reconnaissance resolves the name and, if it has an address, runs its four
lookups together (`Resolve`, `LookupEnds`); they write fields of their own.

### Detectors and Assessment

A behaviour of `Detectors` is one run of one detector: those of a scan run at
once, but share nothing except the target. A request is a triple of parameter,
payload and variant, `heard` what came of each, `at` the next one, `found` the
list of findings.

| action | code |
|---|---|
| `ProbeSql`, `ProbeXss`, `ProbeTraversal` | the loops of `detect` and the request they send; `LeaveParam`, `Following` and `GoOn` are their `break`s |
| `Options`, `ProbeMethod` | `_options_probe` and the methods tried one by one in `HTTPMethodChecker.detect` |
| `JudgeHeaders`, `JudgeTls`, `JudgeSsh` | one request or connection and what `_check_*` makes of it |
| `Raise` | an exception that `_safe_detect` turns into no findings |

`Assessment` takes the findings on: `AssessFindings` (with those of the ports),
`Store`, `Mark` and `MakeReport`, which puts the findings together again from
the rows. Scores are in tenths and risks in hundredths.

### AdaptiveEngine

`pc`, `drops` and `result` are those of each probe; `succeeded`, `dropped`,
`latencies`, `consecutive` and `delay` the engine's. A probe is interrupted while
it sleeps (`Pause`, `Wake`) and while its coroutine runs; `Succeed` and `Drop`
record an attempt in one step, because the code does not await there. Delays are
whole ticks, products with 1.5 and 0.9 rounded down. How long pauses and
back-offs are is random in the code and left out.

### Console and Dashboard

`stored` is the database as committed, `seen` as a session sees it: the same, if
every session has its connection (PostgreSQL); with the one connection of
SQLite's StaticPool (`shared`) what one session flushes all see, and what one
commits or rolls back is committed or rolled back for all. `pc`, `ask` and `got`
are each client's request: where its handler stands, what was asked, what was
read. A step is what the code does between two awaits of the session.

`files` are the report files, one for each format, since every report is written
to the same name. Without `shared` the handlers may be in any number of API
processes (the image starts two), so that a file can be opened, written and read
by several at once: `whole` says that it holds a report from end to end,
`spoiled` that a writing of it failed or met another one, whatever the order in
which their bytes came to lie. With `shared` there is one process; a generator
does not await, and nothing else of the process runs while it writes (`Runs`). A
download is of a scan if both of its parts are; if one was read from a file that
was being written, or they are of two scans, it is of none.

| action | code |
|---|---|
| `Ask` | a client sends a request of the workload |
| `Read` | the first SELECT of every handler, and its 404, 409 or 400 |
| `Resolve` | the DNS lookup of `add_target`, which may raise |
| `Findings`, `Count` | the SELECTs of findings in `get_scan_status`, `get_full_result` and `generate_report`, the last up to the file it opens, which empties it, or an error |
| `WriteFile` | the generator writes the file to its end, or raises |
| `Stream` | `FileResponse` sends a first part of the file, then the rest |
| `AddParent` | the flush of a new target in `initiate_scan` |
| `AddTarget`, `SetAuto`, `DeleteTarget`, `MarkFinding`, `SaveReport`, `AddScan` | the INSERT, UPDATE or DELETE of the handlers, with the unique index and the foreign keys that refuse it |
| `Commit`, `Refresh` | `db.commit`, where others may come between on the shared connection, and `db.refresh` |
| `Execute`, `ExecutorCommits` | a transaction of an executor or of DELETE on the row of a scan; the status moves as `ScanLifecycle` is proved to move it (`RowsMove`) |

`Dashboard` adds `page`, what a page is doing and shows. A page's requests are the
console's `Send`; `Queued`, `Polled`, `Loaded`, `Explained` and `Rerun` take its
answer or lose it, whatever it was. `List` is a read of the tables without
effect. So every behaviour of the pages is one of the console
(`DashboardImplementsConsole`), and what holds of the console's data holds under
them.

## 3. Runs

| run | instance | shows |
|---|---|---|
| `lifecycle_safety` | two scans, one worker, a retry and a lost worker; one meets every event but a slow broker, the other is not cancelled either | the inductive invariant; a row moves as `Console` assumes, unless a DELETE loses a race; never two executors; the rows implement `ScanJob`: only a COMPLETED scan has findings, and an end is final |
| `lifecycle_liveness` | two scans, one worker; one meets failures it need not recover from, the other lost workers, cancellation, a slow broker, a local pipeline that raises | no open scan is orphaned, and every scan ends and stays ended, whatever happens to the other; further copies of findings are paid for; every scan is left alone |
| `lifecycle_cancelled_revives` | one scan, cancellation | *violated*: a cancelled scan runs and ends COMPLETED |
| `lifecycle_retries_exhausted` | one scan whose pipeline raises | *violated*: the row stays RUNNING once the retries are used up |
| `limiter` | two clients, two requests per second, half seconds, restarts | the limit in every period, the header, Retry-After, `SlidingLimit` |
| `rescan_one_scheduler` | two targets: one is scanned by clients, the other loses scans and refuses rescans; faults, restarts, opt-outs | one open scan per target, one rescan per tick, three span the interval, a target that loses nothing is rescanned for ever |
| `rescan_two_schedulers` | two processes, one target | *violated*: both rescan it at once |
| `pipeline` | two ports, a retry of nmap; a host, and a URL scanned safely | ports listed and reported once, findings in the report, the pipeline ends |
| `detectors` | two or three parameters, up to three payloads, two headers, nine OpenSSH versions; every answer to every request | nothing missed, asked twice or reported twice; judges say what they saw; a report agrees with the pipeline and its risk is sound |
| `adaptive` | four items in two batches, two attempts, two latencies, all four modes | results and statistics agree; drops slow the engine, nothing else does before a spike can be told; every batch returns |
| `console` | a page and a client in four workloads, own connections and a shared one | one target per address; acknowledged means committed; results whole, and reports unless two processes write one file at once or a writing fails; the page says what is so and comes to an end |
| `reports_overwritten` | two completed scans, two reports of one format | *violated*: the download of the first report is the second |

Types and several of the properties named in section 5 are conjuncts of the
inductive invariants, which the runs check instead: `Spaced` of `RateLimiter`'s
`IInv`; `BackendHonest` and `FindingsAreInReport` of `ScanPipeline`'s `PInv`;
`Exhausted`, `SlowsOnCause` and `Throttled` of `AdaptiveEngine`'s `IInv`;
`VerdictTrue` and `FindingsShown` of `Dashboard`'s `PInv`; the whole `IInv` of
`Detectors` of `Assessment`'s `AInv`. `FailedHasNoFindings`,
`FindingsOnlyOfCompleted` and `TerminalStays` follow from `ScanLifecycle`'s `IInv`,
and `JobSpec` says as much of the scans that are not cancelled;
`CompletedHasFindings` is proved beside them, for every event.

The larger runs, with two workers of TLC: `pipeline` has 490,000 distinct states,
`console` 222,000, `detectors` 157,000, `adaptive` 43,000; none takes longer than
two minutes.

The bounds, and why they are enough. Scans interact through the workers only, so
two scans and one worker bring every competition about. A retry and a crash
differ only in their count, so one or two of each bring a first, a repeated and
a last one. Two requests per period show a window that is empty, partly full and
full, and six half seconds are three periods. Two targets show that one neither
blocks nor hides the other; the interval is more than two ticks, so that a target
can be looked at and found fresh. One retry of nmap has a thread abandoned by the
first attempt write beside the second and beside the connect scan; the ports are
a dangerous web port and a harmless one that asks for a detector. Two parameters
and two payloads are a first and a last one of each, and a parameter after one
with a finding; the OpenSSH versions lie around the least one that passes. A port
scan has up to four services, which the code reports as informational, and the
least score of any other finding is 0.1 instead of 3.1 (`Lowest`), so that the
mean of few findings is rounded down to nought; with 3.1 that takes 124. Three
items of a batch for two permits have one wait; a latency of nine is a spike
after ones of one, and delays from two to eight ticks can be raised three times.
The drop rate below which the engine speeds up is 40 percent instead of five,
which four items could not come below. Two clients bring every race of two
handlers about; each workload gives them what interacts (the registry; a page
following a scan while targets come and go, and while findings are marked; the
reports), two targets for one address, and two polls, a first and a last one.

The four violations are disagreements between the code and what its documents
and comments say; `PROJECT.json` quotes them under "findings". Two more
statements of docstrings and texts are written down where they belong and hold
in no run: `ThrottledAtOnce` (`AdaptiveEngine`: the drops of a batch slow the
next one only) and `WeakProtocolHonest` (`Detectors`: a weak protocol's name is
looked for inside the name, and `TLSv1` is in every one).

## 4. Fairness

* Lifecycle: a coroutine that can take its next step takes it. A queued message
  is taken under strong fairness: a worker comes free again and again, and the
  queue is first in, first out. Clients, faults and crashes owe nothing, and each
  instance bounds the crashes under a scan.
* Scheduler: time passes, a loop that can go on does, and a scan with an
  executor ends. A scan whose executor was lost does not end, so
  `RescannedForEver` is stated of the targets that lose none.
* Pipeline: one coroutine that goes on when it can. Nothing is assumed of the
  nmap threads, which may hang for ever: `wait_for` leaves them. The HTTP clients
  and sockets of the detectors have timeouts; the resolver and the WHOIS library,
  which reconnaissance runs in threads without one, are assumed to return.
* Detectors: no fairness, since nothing is said of their ends. `PipelineEnds`
  takes a detector for one step that is taken.
* Adaptive engine: a probe that can go on does (its coroutine has a timeout, its
  sleeps end), and a batch whose probes have ended returns.
* Console: a handler goes on when it can, each for itself; no statement waits for
  another client's for ever. Clients and executors owe nothing.
* Dashboard: a page goes on with the scan it follows; its user owes nothing, and
  neither does the scan. A page whose request timed out goes on once the API has
  ended it, which keeps its requests from overlapping.

## 5. Proofs

Each component's theorems are in its `_proofs` module (those of `Assessment` in
`Detectors_proofs`), hold for every value of the constants and rest on the named
assumptions of the component's module only (those are: which events there are,
that bounds are natural numbers, that limits and periods are positive, that sets
of names are disjoint, that there are finitely many headers, ports and detectors,
and that no rate of a header, method or port is below `Lowest`, which is 3.1 in
the code and at most that here).

* **ScanLifecycle.** `IInv` is a conjunction over scans, each part guarded by
  the events that may happen to that scan. `Paid` counts the findings that can
  still be inserted without a new cause (`Due`): every step that raises `batches`
  lowers it, and only a retry, a lost worker or a late publication raises it.
  `Prompt` says that without a slow broker there is one executor and its loaded
  status is fresh or the scan was cancelled; `OneExecutor`,
  `FailedHasNoFindings`, `FindingsOnlyOfCompleted`, `TerminalStays` and the
  refinement `JobSpec` follow from it, and so does `RowsMove`: a row moves only
  as `ScanStatus` lets it, except under a DELETE that loses a race. `Console`
  assumes no more of the executors, so what is proved of it rests on no guess
  about them. `Ended` says that a scan with nobody left
  has ended, and with it `NoOrphan`; its `Stale` clause is needed because a
  completion that the ORM does not emit would otherwise leave a cancelled and
  revived row open.
* **RateLimiter.** The window is a suffix of the history and what was evicted is
  too old to count again; hence `Spaced`, `RetryHonoured` and the refinement of
  `SlidingLimit`. `HeaderHonest` compares the window with a cardinality: a window
  that is sorted and without the evicted has as many entries as the period has
  requests.
* **RescanScheduler.** With one scheduler, nobody opens a scan of a target it
  has found without one (`Unique`), the age of a target's last rescan and the
  rest of the scheduler's sleep add up to a tick (`Spacing`), and a stale target's
  last rescan but one is an interval old (`Stamped`), each for the targets whose
  events leave it true.
* **PortScanner.** Attempts run one after another and leave an error when they
  fail (`AttemptsInOrder`), whoever listed a port was allowed to (`Listings`),
  and without a timeout nmap's data and the connect scan's exclude each other
  (`OneEngine`).
* **ScanPipeline.** Findings, list and report follow the result as it grows
  (`Follows`); that findings are in the report holds even with abandoned
  threads, because the report is read last.
* **Detectors.** While a prober is at a request, what comes before it in the
  order of the loops was sent as far as it had to be and nothing after it was
  (`Underway`); findings and answers agree (`Reported`). `Thorough`,
  `ReportedOnce` and `Economical` follow for any number of parameters and
  payloads, `Judged` for any version from the comparison of numbers.
* **Assessment.** Its findings are those a detector or the port scan has made,
  finitely many, no two of one observation (`AreFindings`): that is what keeps
  findings apart when the rows leave out their evidence. `AInv` has that, and that
  what was told is what `Assess` makes of the rows. The risk is a mean over a sum
  defined by recursion over sets; that the sum does not depend on the order in
  which elements are taken, and what it is for the findings of a report, is shown
  by induction on their number (`TotalStep`, `TotalBound`, `ReducedTotal`). So
  `RiskSound` and `ReportAgrees` hold for any number of findings, and every
  behaviour of `Assessment` is one of `Detectors` (`AssessmentIsDetector`), whose
  theorems hold of it too.
* **AdaptiveEngine.** `Exhausted`, `SlowsOnCause` and `Throttled` are inductive with
  the types (the sum of at most `SpikeFactor` latencies bounds each of them).
  `Accounted` counts the items with a value and the attempts that were dropped: a
  step adds at most one element to one of the two sets. `SlowsDown`
  is about the n-fold of a step: what `DelayAfter` gives is monotonic, by an
  induction on sets of natural numbers, and one more drop is one more step of it.
* **Console.** The invariant `CInv` has two parts. The data: in the database,
  committed or only flushed, no address is registered twice, no identifier
  given twice and a completed scan has its findings (`Keyed`); whoever writes
  writes such a database (`Writable`, by one lemma per INSERT, UPDATE and
  DELETE). The clients: a handler stands where its request takes it
  (`OnItsWay`), and a settled status it has read is still the scan's
  (`ToldRight`), because a scan that has settled keeps its status in every step
  (`Lasting`). So a step is shown to keep the data and its own client, and all
  others follow from `Lasting` alone. A file is of a completed scan from the
  moment it is opened, since the handler has read that status (`FilesOf`), and it
  is whole, spoiled or being written (`FilesWhole`): who opens it writes it, and
  the last who writes it leaves it whole or spoiled. What a download has begun
  with was whole then; that the file was opened for a completed scan is what is
  left of it when the rest is read, and it lasts. Hence `ReportsWhole`.
* **Dashboard.** Every step is one of the console or leaves it alone, hence
  `CInv`; a page's own part (`Waiting`, the two properties) goes on in the same
  way: by its own step, or by `Lasting`.

Model-checked only: the liveness properties (`EveryScanSettles`, `ScanIsLeftAlone`,
`RescannedForEver`, `PipelineEnds`, `Ends`, `PageEnds`), which need fairness and
ENABLED, out of this prover's reach; and the properties of the four violation
runs, which do not hold. What the first of these rest on is proved where a loop or
a retry is in question: a number of steps that are left and that every step
lowers (`GetsOn` of `ScanLifecycle`, `ScanPipeline` and `AdaptiveEngine`), so that
an execution which does not come to its end has stopped, and does not go round.
In `ScanLifecycle` that holds with two executors and under every event; a DELETE,
which a client may repeat, is the one thing not counted. That the next step can
be taken, and is, is left to TLC. Every safety invariant, action property and
refinement that a passing run checks is a theorem.

## 6. Not modelled

The contents of HTTP exchanges, nmap's output, signatures, wording, PDF layout,
charts, logging, routing and rendering are data or output. The components table
of `PROJECT.json` says for each part whether and why it is left out. In
particular:

* Metrics: the gauge of active scans goes up at the start of a scan and down
  after its last phase only, so that a scan that raises is counted for ever. It
  is listed as a hazard; nothing reads it.
* The column migration and `/scan/debug`: no state that anything else reads.
* A database fault in the middle of `Console`'s requests: `ScanLifecycle` has
  failed transactions on the row of a scan; of the other endpoints a failed
  statement is a refusal.
* In `Console` one executor at a time moves a scan on, and a DELETE that runs
  against an executor is left out, and so is a slow broker: those races are
  `ScanLifecycle`'s (`RowsMove` excepts them), and they are the reason why a page may be told of an end that is not final.
* In the report files the order in which the bytes of two processes come to lie:
  a file both have written is `spoiled`, whatever it holds, and so is one whose
  generator raised or was lost. A file that two of them have written may be listed
  and downloaded, and a download may be torn by a later report; `ReportsWhole`
  does not say that this cannot happen, but that nothing else can.
* In `PortScanner` an attempt of nmap lists a port once: the target is taken for
  one host and the scan type for one protocol. The code loops over hosts and
  protocols, and a target that nmap reads as several hosts would have a port
  listed once for each, and reported as often.
* In `ScanLifecycle` a retry is published and the old message acknowledged in one
  step (`WorkerRetry`). A worker lost between the two would leave both messages,
  and the scan would be executed once more than is counted.
* The redelivery of a message by the broker's visibility timeout, see above.
