----------------------------- MODULE PortScanner -----------------------------
(***************************************************************************)
(* One call of PortScanner.scan: nmap in a worker thread, with a timeout    *)
(* and retries, and the asyncio connect scan when nmap brought nothing.     *)
(*                                                                          *)
(* A timeout abandons the thread, it does not stop it: the thread still     *)
(* holds the PortScanResult it was given, and appends to it port by port    *)
(* whenever its nmap ends, next to the thread of a later attempt, to the    *)
(* connect scan, and to whoever reads the result once scan() has returned.  *)
(***************************************************************************)
EXTENDS Naturals, FiniteSets

CONSTANTS
  Port,        \* the ports scanned
  MaxRetries   \* PortScanner.max_retries

ASSUME RetriesAssumption == MaxRetries \in Nat
ASSUME PortAssumption == IsFiniteSet(Port)

Attempt == 1 .. MaxRetries + 1
Connect == 0                          \* the connect scan, as a writer
Writer  == Attempt \union {Connect}

VARIABLES
  scanPc,    \* where scan() stands
  attempt,   \* attempt of _nmap_scan
  thread,    \* the worker thread of each attempt
  todo,      \* ports the thread has still to append
  open,      \* result.open_ports: who appended which port
  filtered,  \* result.filtered_ports: likewise
  errors,    \* result.errors: what went wrong in which attempt
  backend,   \* result.backend
  pending    \* ports whose connect probe has not ended

loop      == <<scanPc, attempt, pending>>
threads   == <<thread, todo>>
portLists == <<open, filtered>>
result    == <<open, filtered, errors, backend>>
vars      == <<loop, threads, result>>

ErrorKind == {"timeout", "denied", "raised", "noHosts"}

TypeOK ==
  /\ scanPc \in {"idle", "launch", "await", "backoff", "decide", "connect", "returned"}
  /\ attempt \in Attempt
  /\ thread \in [Attempt -> {"none", "running", "writing", "done", "raised", "denied"}]
  /\ todo \in [Attempt -> SUBSET Port]
  /\ open \subseteq Port \X Writer
  /\ filtered \subseteq Port \X Writer
  /\ errors \subseteq (ErrorKind \X Attempt) \union {<<"range", Connect>>}
  /\ backend \in {"nmap", "fallback"}
  /\ pending \subseteq Port

Init ==
  /\ scanPc = "idle"
  /\ attempt = 1
  /\ thread = [k \in Attempt |-> "none"]
  /\ todo = [k \in Attempt |-> {}]
  /\ open = {} /\ filtered = {} /\ errors = {}
  /\ backend = "fallback"
  /\ pending = {}

-----------------------------------------------------------------------------
(* A worker thread: _run_nmap_sync *)

ThreadEnds(k, how) ==
  /\ thread[k] = "running"
  /\ thread' = [thread EXCEPT ![k] = how]
  /\ UNCHANGED <<loop, todo, portLists, backend>>

\* The binary is missing, the process dies, the output does not parse.
NmapRaises(k) ==
  /\ \E how \in {"raised", "denied"} : ThreadEnds(k, how)
  /\ UNCHANGED errors

NmapFindsNoHost(k) ==
  /\ ThreadEnds(k, "done")
  /\ errors' = errors \union {<<"noHosts", k>>}

\* nmap lists some of the ports: the others are a count of closed ones.  Assumed:
\* the target is one host and the scan type has one protocol, so that the loops
\* over hosts and protocols come to a port once; a target that nmap reads as
\* several hosts has a port listed once for each.
NmapAnswers(k) ==
  /\ thread[k] = "running"
  /\ thread' = [thread EXCEPT ![k] = "writing"]
  /\ \E listed \in SUBSET Port : todo' = [todo EXCEPT ![k] = listed]
  /\ UNCHANGED <<loop, result>>

\* Writer w appends port p to one of the two lists.
ListPort(p, w) ==
  \/ open' = open \union {<<p, w>>} /\ UNCHANGED filtered
  \/ filtered' = filtered \union {<<p, w>>} /\ UNCHANGED open

WritePort(k, p) ==
  /\ thread[k] = "writing"
  /\ p \in todo[k]
  /\ todo' = [todo EXCEPT ![k] = @ \ {p}]
  /\ ListPort(p, k)
  /\ UNCHANGED <<loop, thread, errors, backend>>

WriteEnds(k) ==
  /\ thread[k] = "writing"
  /\ todo[k] = {}
  /\ thread' = [thread EXCEPT ![k] = "done"]
  /\ UNCHANGED <<loop, todo, result>>

ThreadStep(k) ==
  \/ NmapRaises(k) \/ NmapFindsNoHost(k) \/ NmapAnswers(k) \/ WriteEnds(k)
  \/ \E p \in Port : WritePort(k, p)

-----------------------------------------------------------------------------
(* The event loop: scan() and _nmap_scan *)

\* With python-nmap installed, and without it.
Start ==
  /\ scanPc = "idle"
  /\ \/ scanPc' = "launch" /\ UNCHANGED pending
     \/ scanPc' = "connect" /\ pending' = Port
  /\ UNCHANGED <<attempt, threads, result>>

Launch ==
  /\ scanPc = "launch"
  /\ scanPc' = "await"
  /\ thread' = [thread EXCEPT ![attempt] = "running"]
  /\ UNCHANGED <<attempt, pending, todo, result>>

\* to_thread has returned.
Succeed ==
  /\ scanPc = "await"
  /\ thread[attempt] = "done"
  /\ scanPc' = "decide"
  /\ backend' = "nmap"
  /\ UNCHANGED <<attempt, pending, threads, portLists, errors>>

\* An attempt has failed: the next, unless retries are excluded or used up.
AttemptFails(kind, retry) ==
  /\ scanPc = "await"
  /\ errors' = errors \union {<<kind, attempt>>}
  /\ scanPc' = IF retry /\ attempt <= MaxRetries THEN "backoff" ELSE "decide"
  /\ UNCHANGED <<attempt, pending, threads, portLists, backend>>

\* Mutant: the timeout leaves no trace in the result.
TimeoutSilent ==
  /\ scanPc = "await"
  /\ thread[attempt] \in {"running", "writing"}
  /\ scanPc' = IF attempt <= MaxRetries THEN "backoff" ELSE "decide"
  /\ UNCHANGED <<attempt, pending, threads, result>>

\* wait_for gives up after nmap_timeout and leaves the thread to itself.
Timeout ==
  /\ thread[attempt] \in {"running", "writing"}
  /\ AttemptFails("timeout", TRUE)

Raised == thread[attempt] = "raised" /\ AttemptFails("raised", TRUE)
Denied == thread[attempt] = "denied" /\ AttemptFails("denied", FALSE)

\* Mutant: the attempts are not counted.
BackoffUncounted ==
  /\ scanPc = "backoff"
  /\ scanPc' = "launch"
  /\ UNCHANGED <<attempt, pending, threads, result>>

\* The sleep between two attempts.
Backoff ==
  /\ scanPc = "backoff"
  /\ scanPc' = "launch"
  /\ attempt' = attempt + 1
  /\ UNCHANGED <<pending, threads, result>>

\* nmap completely failed: nothing listed, and an error.
NothingUsable == open = {} /\ filtered = {} /\ errors # {}

\* Mutant: any error asks for the connect scan.
DecideOnErrors ==
  /\ scanPc = "decide"
  /\ IF errors # {}
       THEN scanPc' = "connect" /\ backend' = "fallback" /\ pending' = Port
       ELSE scanPc' = "returned" /\ UNCHANGED <<backend, pending>>
  /\ UNCHANGED <<attempt, threads, portLists, errors>>

\* Mutant: a successful nmap is believed though it found no host.
DecideOnBackend ==
  /\ scanPc = "decide"
  /\ IF NothingUsable /\ backend = "fallback"
       THEN scanPc' = "connect" /\ pending' = Port
       ELSE scanPc' = "returned" /\ UNCHANGED pending
  /\ UNCHANGED <<attempt, threads, result>>

Decide ==
  /\ scanPc = "decide"
  /\ IF NothingUsable
       THEN scanPc' = "connect" /\ backend' = "fallback" /\ pending' = Port
       ELSE scanPc' = "returned" /\ UNCHANGED <<backend, pending>>
  /\ UNCHANGED <<attempt, threads, portLists, errors>>

\* The port range has no port in it that can be parsed: nothing is probed.
ConnectRefused ==
  /\ scanPc = "connect"
  /\ pending = Port
  /\ scanPc' = "returned"
  /\ errors' = errors \union {<<"range", Connect>>}
  /\ pending' = {}
  /\ UNCHANGED <<attempt, threads, portLists, backend>>

\* _probe: connected (open), no answer in time (filtered), refused.  The
\* semaphore only decides how many probes are under way at once.
Probe(p) ==
  /\ scanPc = "connect"
  /\ p \in pending
  /\ pending' = pending \ {p}
  /\ ListPort(p, Connect) \/ UNCHANGED portLists
  /\ UNCHANGED <<scanPc, attempt, threads, errors, backend>>

\* gather has seen the last probe end.
ConnectEnds ==
  /\ scanPc = "connect"
  /\ pending = {}
  /\ scanPc' = "returned"
  /\ backend' = "fallback"
  /\ UNCHANGED <<attempt, pending, threads, portLists, errors>>

ScanStep ==
  \/ Start \/ Launch \/ Succeed \/ Timeout \/ Raised \/ Denied \/ Backoff
  \/ Decide \/ ConnectRefused \/ ConnectEnds \/ \E p \in Port : Probe(p)

Next == ScanStep \/ \E k \in Attempt : ThreadStep(k)

Spec == Init /\ [][Next]_vars

-----------------------------------------------------------------------------
(* Properties.  An attempt that has timed out has left an error. *)

NoTimeout == \A k \in Attempt : <<"timeout", k>> \notin errors

Listed == open \union filtered

\* Unless an attempt timed out, no port is listed twice: only one thread lists
\* ports, and the connect scan follows only when it listed none.
ListedOnce ==
  NoTimeout => \A p \in Port : \A v, w \in Writer :
                 <<p, v>> \in Listed /\ <<p, w>> \in Listed => v = w

\* ... and result.backend names the engine all of the returned data is from.
BackendHonest ==
  scanPc = "returned" /\ NoTimeout =>
    \A p \in Port : \A w \in Writer :
      <<p, w>> \in Listed => (w = Connect <=> backend = "fallback")

\* ... and what scan() has returned does not change any more.
ResultIsFinal ==
  [][scanPc = "returned" /\ NoTimeout => UNCHANGED result]_vars

\* However nmap failed, an empty result is not its failure alone: either nmap
\* ended without an error, or the connect scan had its turn.
EmptyMeansLooked ==
  scanPc = "returned" /\ Listed = {} => errors = {} \/ backend = "fallback"

\* A bound on the steps that scan() has still to take: three for each attempt
\* that is left, one for each probe of the connect scan.
Probes == Cardinality(Port)
ScanStepsLeft ==
  LET later == 3 * (MaxRetries + 1 - attempt)
  IN [idle     |-> later + Probes + 6, launch  |-> later + Probes + 5,
      await    |-> later + Probes + 4, backoff |-> later + Probes + 3,
      decide   |-> Probes + 2,         connect |-> Cardinality(pending) + 1,
      returned |-> 0][scanPc]

-----------------------------------------------------------------------------
(* What makes the properties inductive *)

\* Attempts run one after another, and are noted when they fail.
AttemptsInOrder ==
  /\ \A k \in Attempt :
       /\ thread[k] # "none" => k <= attempt /\ scanPc # "idle"
       /\ thread[k] # "writing" => todo[k] = {}
       /\ k < attempt /\ thread[k] \in {"running", "writing", "done"} =>
            <<"timeout", k>> \in errors
       /\ \A kind \in ErrorKind : <<kind, k>> \in errors => thread[k] # "none"
  /\ scanPc = "await" => thread[attempt] # "none"
  /\ scanPc = "launch" => thread[attempt] = "none"
  /\ scanPc \notin {"idle", "launch", "await"} /\ thread[attempt] \in {"running", "writing"} =>
       <<"timeout", attempt>> \in errors
  /\ scanPc = "backoff" =>
       /\ attempt <= MaxRetries
       /\ thread[attempt] = "done" => <<"timeout", attempt>> \in errors

\* Who has listed what.
Listings ==
  /\ \A p \in Port, k \in Attempt : <<p, k>> \in Listed =>
       thread[k] \in {"writing", "done"} /\ p \notin todo[k]
  /\ \A p \in Port : <<p, Connect>> \in Listed =>
       scanPc \in {"connect", "returned"} /\ p \notin pending
  /\ scanPc # "connect" => pending = {}

\* Without a timeout, nmap's data and the connect scan's exclude each other.
OneEngine ==
  /\ scanPc \in {"idle", "connect"} => backend = "fallback"
  /\ NoTimeout =>
       /\ scanPc = "decide" /\ thread[attempt] = "done" => backend = "nmap"
       /\ scanPc = "connect" => \A p \in Port, k \in Attempt : <<p, k>> \notin Listed

\* The inductive invariant: loop, threads and result agree on what has been
\* tried and on who has listed what, in every interleaving.
IInv ==
  /\ TypeOK /\ AttemptsInOrder /\ Listings /\ OneEngine
  /\ BackendHonest /\ EmptyMeansLooked
=============================================================================
