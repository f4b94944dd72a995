------------------------------ MODULE Dashboard ------------------------------
(***************************************************************************)
(* The pages of the dashboard, clients of the console: a page sends the     *)
(* requests its user's clicks call for, one at a time, and shows what it    *)
(* makes of the answers.  Any answer may be lost: api_get and api_post      *)
(* return None for a timeout, an unreachable API and an error alike.        *)
(* Assumed: a page whose request has timed out goes on once the API has     *)
(* ended it, so that its requests do not overlap.                           *)
(***************************************************************************)
EXTENDS Console

CONSTANTS
  Page,     \* the clients that are pages
  MaxPolls  \* polls of a new scan

ASSUME PageAssumption == Page \subseteq Client /\ MaxPolls \in Nat \ {0}

VARIABLE page  \* what a page is doing and what it shows

pageVars == <<vars, page>>

\* The new-scan page comes to "shown" by "posted", "polled" and, with the
\* verdict, "loaded" or "explained"; the others wait for one answer.
At == {"open", "posted", "polling", "polled", "ending", "loaded", "explained",
       "shown", "toggled", "generated"}

\* scan: the scan that is followed; verdict: the status it is said to have
\* ended with; shows: what is said of its findings; listed: rows offered.
Blank == [at |-> "open", scan |-> None, polls |-> 0, verdict |-> "unknown",
          shows |-> "nothing", failed |-> FALSE, listed |-> {}]

PTypeOK ==
  page \in [Page -> [at : At, scan : Scan \union {None}, polls : 0..MaxPolls,
                     verdict : Status \union {"unknown"},
                     shows : {"nothing", "findings", "no findings"},
                     failed : BOOLEAN,
                     listed : SUBSET ((Scan \X {"completed"}) \union (TargetId \X Flag))]]

PInit == Init /\ page = [p \in Page |-> Blank]

\* The request of a page, once the one before is answered.
Submit(p, request) == request \in load.asks[p] /\ HasRoom(request) /\ Send(p, request)

\* An answer has come; whether it is an error or is lost, the page is told
\* nothing (Replied), and otherwise that it is well (Answers).
Answers(p) == pc[p] = "done"
Replied(p) == pc[p] \in {"done", "refused"}

Turn(p, what) == page' = [page EXCEPT ![p] = what]

-----------------------------------------------------------------------------
(* page_new_scan *)

Launch(p) ==
  /\ page[p].at = "open"
  /\ \E where \in Address : Submit(p, [do |-> "scan", of |-> where, with |-> None])
  /\ Turn(p, [Blank EXCEPT !.at = "posted"])

Queued(p) ==
  /\ page[p].at = "posted"
  /\ \/ Answers(p) /\ Turn(p, [page[p] EXCEPT !.at = "polling", !.scan = got[p].id])
     \/ Replied(p) /\ Turn(p, Blank)
  /\ UNCHANGED vars

\* Mutant: the polls are not counted.
NextPollStays(n) == n

NextPoll(n) == n + 1

Poll(p) ==
  /\ page[p].at = "polling"
  /\ Submit(p, [do |-> "poll", of |-> page[p].scan, with |-> None])
  /\ Turn(p, [page[p] EXCEPT !.at = "polled", !.polls = NextPoll(@)])

\* The statuses that end the loop of the page.
Final == {"completed", "failed", "cancelled"}

\* The loop goes on after a poll that has not brought a final status.
Again(answered, status, polls) ==
  answered /\ status \notin Final /\ polls < MaxPolls

\* Mutant: a scan that does not answer has failed.
VerdictOfSilence(answered, status) ==
  IF answered /\ status \in Final THEN status ELSE "failed"

Verdict(answered, status) ==
  IF answered /\ status \in Final THEN status ELSE "unknown"

Conclude(p, verdict) ==
  Turn(p, [page[p] EXCEPT !.verdict = verdict,
             !.at = IF verdict \in {"completed", "failed"} THEN "ending" ELSE "shown"])

Polled(p) ==
  /\ page[p].at = "polled"
  /\ \E answered \in BOOLEAN :
       /\ IF answered THEN Answers(p) ELSE Replied(p)
       /\ IF Again(answered, got[p].value, page[p].polls)
            THEN Turn(p, [page[p] EXCEPT !.at = "polling"])
            ELSE Conclude(p, Verdict(answered, got[p].value))
  /\ UNCHANGED vars

\* The findings of a completed scan, the error message of a failed one.
Ending(p) ==
  /\ page[p].at = "ending"
  /\ \/ /\ page[p].verdict = "completed"
        /\ Submit(p, [do |-> "result", of |-> page[p].scan, with |-> None])
        /\ Turn(p, [page[p] EXCEPT !.at = "loaded"])
     \/ /\ page[p].verdict = "failed"
        /\ Submit(p, [do |-> "poll", of |-> page[p].scan, with |-> None])
        /\ Turn(p, [page[p] EXCEPT !.at = "explained"])

Shown(answered, answer) ==
  IF answered /\ answer.listed THEN "findings" ELSE "no findings"

Loaded(p) ==
  /\ page[p].at = "loaded"
  /\ \E answered \in BOOLEAN :
       /\ IF answered THEN Answers(p) ELSE Replied(p)
       /\ Turn(p, [page[p] EXCEPT !.at = "shown", !.failed = ~answered,
                     !.shows = Shown(answered, got[p])])
  /\ UNCHANGED vars

Explained(p) ==
  /\ page[p].at = "explained"
  /\ Replied(p)
  /\ Turn(p, [page[p] EXCEPT !.at = "shown"])
  /\ UNCHANGED vars

-----------------------------------------------------------------------------
(* page_scan_history and page_reports *)

\* GET /targets or GET /results?status=completed, for the page it is.
IsFor(p, request) == \E r \in load.asks[p] : r.do = request

List(p) ==
  /\ page[p].at = "open"
  /\ \/ /\ IsFor(p, "auto")
        /\ Turn(p, [Blank EXCEPT !.listed = {<<t.id, t.auto>> : t \in seen.targets}])
     \/ /\ IsFor(p, "report")
        /\ Turn(p, [Blank EXCEPT !.listed =
             {<<s.id, s.status>> : s \in {r \in seen.scans : r.status = "completed"}}])
  /\ UNCHANGED vars

\* The button next to a target says ENABLE or DISABLE.
Toggle(p) ==
  /\ page[p].at = "open"
  /\ \E id \in TargetId, flag \in Flag :
       /\ <<id, flag>> \in page[p].listed
       /\ Submit(p, [do |-> "auto", of |-> id, with |-> Other(flag)])
  /\ Turn(p, [page[p] EXCEPT !.at = "toggled"])

Generate(p) ==
  /\ page[p].at = "open"
  /\ \E s \in Scan, format \in Format :
       /\ <<s, "completed">> \in page[p].listed
       /\ Submit(p, [do |-> "report", of |-> s, with |-> format])
  /\ Turn(p, [page[p] EXCEPT !.at = "generated"])

Rerun(p) ==
  /\ page[p].at \in {"toggled", "generated"}
  /\ Replied(p)
  /\ Turn(p, Blank)
  /\ UNCHANGED vars

\* The link below the report that was generated.
Download(p) ==
  /\ page[p].at = "generated" /\ Answers(p)
  /\ Submit(p, [do |-> "download", of |-> got[p].id, with |-> None])
  /\ UNCHANGED page

Follow(p) == Queued(p) \/ Poll(p) \/ Polled(p) \/ Ending(p) \/ Loaded(p) \/ Explained(p)

PNext ==
  \/ \E p \in Page : Launch(p) \/ Follow(p) \/ List(p) \/ Toggle(p) \/ Generate(p)
                       \/ Rerun(p) \/ Download(p)
  \/ /\ \/ \E c \in Client \ Page : Ask(c)
        \/ \E c \in Client : Handle(c)
        \/ \E s \in Scan : Execute(s) \/ ExecutorCommits(s)
     /\ UNCHANGED page

PSpec == PInit /\ [][PNext]_pageVars
PFairSpec ==
  /\ PSpec
  /\ \A c \in Client : WF_pageVars(Handle(c) /\ UNCHANGED page)
  /\ \A p \in Page : WF_pageVars(Follow(p))

-----------------------------------------------------------------------------
(* Properties *)

\* "Scan complete!" or "Scan failed" is shown of a scan only when it has ended
\* so, however polls are lost, late or answered in between two transactions.
VerdictTrue ==
  \A p \in Page :
    ~shared /\ page[p].verdict \in {"completed", "failed"} =>
      \E s \in stored.scans : s.id = page[p].scan /\ s.status = page[p].verdict

\* A scan with findings is said to have none only if their answer failed.
FindingsShown ==
  \A p \in Page :
    ~shared /\ page[p].shows = "no findings" => page[p].failed

\* A page that follows a scan comes to an end, whether or not the scan does.
PageEnds == \A p \in Page : page[p].at = "polling" ~> page[p].at = "shown"

-----------------------------------------------------------------------------
(* What makes the properties inductive *)

\* What a page waits for, and what it may rely on meanwhile.
Waiting(p) ==
  /\ page[p].at = "posted" =>
       ask[p].do = "scan" /\ page[p].polls = 0 /\ page[p].verdict = "unknown"
  /\ page[p].at = "polling" => page[p].polls < MaxPolls
  /\ page[p].at = "polled" => ask[p].do = "poll" /\ ask[p].of = page[p].scan
  /\ page[p].at = "ending" => page[p].verdict \in {"completed", "failed"}
  /\ page[p].at = "loaded" =>
       /\ page[p].verdict = "completed"
       /\ ask[p].do = "result" /\ ask[p].of = page[p].scan
       /\ ~shared /\ pc[p] \in {"findings", "count", "done"} => got[p].value = "completed"

PInv ==
  /\ CInv
  /\ PTypeOK
  /\ \A p \in Page : Waiting(p)
  /\ VerdictTrue
  /\ FindingsShown
=============================================================================
