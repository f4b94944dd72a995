----------------------------- MODULE RateLimiter -----------------------------
(***************************************************************************)
(* RateLimitMiddleware: a window of timestamps per client address, in the   *)
(* memory of each API process.                                              *)
(*                                                                          *)
(* dispatch runs without an await from reading the clock to appending to    *)
(* the window, so a request is one step.  The response is written after the *)
(* endpoint's awaits, from the window as it is by then: what is said of the *)
(* header is therefore said of every later state.                           *)
(***************************************************************************)
EXTENDS Integers, Sequences, FiniteSets

CONSTANTS
  Process,      \* the API processes, each with its own middleware
  Client,       \* client addresses
  MaxRequests,  \* RATE_LIMIT_REQUESTS
  Period,       \* RATE_LIMIT_PERIOD, in seconds
  Second,       \* clock ticks in a second: time.monotonic is not in seconds
  Horizon       \* bound on the clock

ASSUME LimitAssumption ==
  /\ MaxRequests \in Nat \ {0}
  /\ Period \in Nat
  /\ Second \in Nat \ {0}

Key  == Process \X Client
Span == Period * Second

VARIABLES
  now,      \* time.monotonic()
  window,   \* self._windows of each process
  answer,   \* what the last request of a client was answered by a process
  retryAt,  \* when the last refused client was told to come back; 0: not told
  passed    \* history: when the requests in and before the window were let through

vars == <<now, window, answer, retryAt, passed>>

TypeOK ==
  /\ now \in Nat
  /\ window \in [Key -> Seq(Nat)]
  /\ answer \in [Key -> {"none", "passed", "refused"}]
  /\ retryAt \in [Key -> Nat]
  /\ passed \in [Key -> Seq(Nat)]
  /\ \A k \in Key : Len(window[k]) <= MaxRequests

Init ==
  /\ now = 0
  /\ window = [k \in Key |-> <<>>]
  /\ answer = [k \in Key |-> "none"]
  /\ retryAt = [k \in Key |-> 0]
  /\ passed = [k \in Key |-> <<>>]

Tick ==
  /\ now < Horizon
  /\ now' = now + 1
  /\ UNCHANGED <<window, answer, retryAt, passed>>

\* Mutant: timestamps of exactly the cutoff are evicted too.
StopsEarly(w, i) ==
  /\ \A j \in 1 .. i - 1 : w[j] + Span <= now
  /\ i <= Len(w) => w[i] + Span > now

\* popleft stops at the i-th timestamp, the first that is not before the cutoff.
StopsAt(w, i) ==
  /\ \A j \in 1 .. i - 1 : w[j] + Span < now
  /\ i <= Len(w) => w[i] + Span >= now

\* What eviction leaves when it stops at the i-th timestamp.
From(w, i) == SubSeq(w, i, Len(w))

\* Mutant: one request more.
FitsOneMore(w) == Len(w) <= MaxRequests

\* There is room in the window for one more request.
Fits(w) == Len(w) < MaxRequests

Admit(k) ==
  \E i \in 1 .. Len(window[k]) + 1 :
    LET live == From(window[k], i)
    IN /\ StopsAt(window[k], i)
       /\ Fits(live)
       /\ window' = [window EXCEPT ![k] = Append(live, now)]
       /\ answer' = [answer EXCEPT ![k] = "passed"]
       /\ retryAt' = [retryAt EXCEPT ![k] = 0]
       /\ passed' = [passed EXCEPT ![k] = Append(@, now)]
       /\ UNCHANGED now

\* Mutant: the part of a second that int() drops is not made up for.
RetryAfterTruncated(oldest) == (Span - (now - oldest)) \div Second

\* The seconds until `oldest` leaves the window, truncated, and one more.
RetryAfter(oldest) == (Span - (now - oldest)) \div Second + 1

Refuse(k) ==
  \E i \in 1 .. Len(window[k]) + 1 :
    LET live == From(window[k], i)
    IN /\ StopsAt(window[k], i)
       /\ ~Fits(live)
       /\ window' = [window EXCEPT ![k] = live]
       /\ answer' = [answer EXCEPT ![k] = "refused"]
       /\ retryAt' = [retryAt EXCEPT ![k] = now + Second * RetryAfter(Head(live))]
       /\ UNCHANGED <<now, passed>>

\* A process is replaced: its windows were in memory only.
Restart(p) ==
  LET lost(k) == k[1] = p
  IN /\ window' = [k \in Key |-> IF lost(k) THEN <<>> ELSE window[k]]
     /\ answer' = [k \in Key |-> IF lost(k) THEN "none" ELSE answer[k]]
     /\ retryAt' = [k \in Key |-> IF lost(k) THEN 0 ELSE retryAt[k]]
     /\ passed' = [k \in Key |-> IF lost(k) THEN <<>> ELSE passed[k]]
     /\ UNCHANGED now

Next ==
  \/ Tick
  \/ \E k \in Key : Admit(k) \/ Refuse(k)
  \/ \E p \in Process : Restart(p)

Spec == Init /\ [][Next]_vars

-----------------------------------------------------------------------------
(* Properties *)

\* However requests are spaced, refused and evicted, MaxRequests + 1 requests
\* of a client let through by a process span more than the period.
Spaced ==
  \A k \in Key : \A i \in 1 .. Len(passed[k]) - MaxRequests :
    passed[k][i + MaxRequests] > passed[k][i] + Span

\* Eviction forgets nothing that matters: deciding on the window is deciding
\* on the whole history.
Limit == INSTANCE SlidingLimit
LimitSpec == Limit!Spec

\* X-RateLimit-Remaining, as dispatch writes it after the endpoint's awaits.
Remaining(k) == MaxRequests - Len(window[k])

\* The requests let through in the period that ends now.
Recent(k) == {i \in 1 .. Len(passed[k]) : passed[k][i] + Span >= now}

\* Whenever the response is written, and whatever other requests did to the
\* window meanwhile, the header promises no request that would be refused.
HeaderHonest == \A k \in Key : Remaining(k) \in 0 .. MaxRequests - Cardinality(Recent(k))

\* A client that waits as long as Retry-After says is let through, and was
\* not told to wait a second longer than it had to.
RetryHonoured ==
  \A k \in Key :
    retryAt[k] # 0 =>
      LET oldest == passed[k][Len(passed[k]) - MaxRequests + 1]
      IN retryAt[k] > oldest + Span /\ retryAt[k] <= oldest + Span + Second

-----------------------------------------------------------------------------
\* The window is the end of the history, and what was evicted is too old to
\* count ever again.
Suffix(k) ==
  LET old == Len(passed[k]) - Len(window[k])
  IN /\ old \in Nat
     /\ \A i \in 1 .. Len(window[k]) : window[k][i] = passed[k][old + i]
     /\ \A i \in 1 .. old : passed[k][i] + Span < now

\* The clock does not go back.
Ordered(k) ==
  /\ \A i \in 1 .. Len(passed[k]) : passed[k][i] <= now
  /\ \A i, j \in 1 .. Len(passed[k]) : i <= j => passed[k][i] <= passed[k][j]

Promised(k) == retryAt[k] # 0 => Len(passed[k]) >= MaxRequests

IInv ==
  /\ TypeOK
  /\ \A k \in Key : Suffix(k) /\ Ordered(k) /\ Promised(k)
  /\ Spaced
  /\ RetryHonoured
=============================================================================
