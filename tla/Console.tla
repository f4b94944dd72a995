------------------------------- MODULE Console -------------------------------
(***************************************************************************)
(* The endpoints for targets, findings, results and reports, and POST       *)
(* /scan's part in them, on the database they share.                        *)
(*                                                                          *)
(* A request is a session: it selects, changes rows and commits, with an    *)
(* await at each step.  With PostgreSQL every session has a connection of   *)
(* its own, and what it flushes is seen when it commits.  With SQLite the   *)
(* StaticPool gives them all the same connection: what one flushes all see, *)
(* what one commits or rolls back is committed or rolled back for all.      *)
(* The first is said of any number of API processes (the image starts two), *)
(* the second of one, whose event loop waits while a report is written.     *)
(*                                                                          *)
(* What becomes of a scan between its creation and its end is the subject   *)
(* of ScanLifecycle.  Here one executor at a time moves it on; an end that  *)
(* is completed or failed is final, as it is there while the broker is not  *)
(* slow and no DELETE runs against an executor, a cancelled one is not.     *)
(***************************************************************************)
EXTENDS Naturals, FiniteSets, ScanStatus

CONSTANTS
  Client,     \* clients, each with one request at a time
  Address,    \* addresses of targets
  TargetId,   \* targets.id: a row that is registered anew has a new one
  Scan,       \* scans.id
  ReportId,   \* reports.id
  Format,     \* formats of reports
  Workload    \* what may be asked in a behaviour

Flag == {"on", "off"}
Other(flag) == IF flag = "on" THEN "off" ELSE "on"

\* A request; `of` is its path parameter, `with` its body.
Request ==
  [do : {"add"}, of : Address, with : {"none"}]
  \union [do : {"auto"}, of : TargetId, with : Flag]
  \union [do : {"delete"}, of : TargetId, with : {"none"}]
  \union [do : {"scan"}, of : Address, with : {"none"}]
  \union [do : {"poll", "result", "mark"}, of : Scan, with : {"none"}]
  \union [do : {"report"}, of : Scan, with : Format]
  \union [do : {"download"}, of : ReportId, with : {"none"}]

None   == "none"
Id     == TargetId \union Scan \union ReportId

\* asks: what each client may ask; ids: the identifiers there are for it.
ASSUME WorkloadAssumption ==
  Workload \subseteq [asks : [Client -> SUBSET Request], ids : SUBSET Id]
ASSUME NamesAssumption == Client \intersect Scan = {} /\ None \notin Scan

Actor  == Client \union Scan  \* the executor of a scan goes by its id
Status == {"pending", "running", "completed", "failed", "cancelled"}

Database ==
  [targets : SUBSET [id : TargetId, address : Address, auto : Flag],
   scans   : SUBSET [id : Scan, target : TargetId, status : Status,
                     saved : BOOLEAN, mark : Flag],
   reports : SUBSET [id : ReportId, scan : Scan, format : Format]]

VARIABLES
  load,    \* the requests and the identifiers of this behaviour
  shared,  \* the sessions share their connection
  stored,  \* the database as it is committed
  seen,    \* the database as a session sees it
  used,    \* identifiers that have been given to a row
  files,   \* the report file of each format, shared by the API processes
  pc,      \* where each actor stands
  ask,     \* the request each client has sent last
  got      \* what its handler has read and made

vars == <<load, shared, stored, seen, used, files, pc, ask, got>>

Phase == {"idle", "read", "resolve", "findings", "count", "file", "parent",
          "write", "commit", "refresh", "stream", "rest", "done", "refused"}

\* A file: the scan it was last opened for, whether it holds a report from end
\* to end with all findings, and whether a writing of it has failed or another
\* process was at it too, so that it may hold a part or parts of several.
Made   == [scan : Scan, whole : BOOLEAN, spoiled : BOOLEAN]
NoFile == [scan |-> None, whole |-> FALSE, spoiled |-> FALSE]
\* id: the row it has made; value: what it has read of the row asked for;
\* begun: the scan whose report a download has begun with.
Nothing == [id |-> None, value |-> None, listed |-> FALSE, counted |-> FALSE, begun |-> None]
Value   == TargetId \union Scan \union Status \union Flag \union Format \union {None}

TypeOK ==
  /\ load \in Workload /\ shared \in BOOLEAN
  /\ stored \in Database /\ seen \in Database
  /\ used \subseteq Id
  /\ files \in [Format -> {NoFile} \union Made]
  /\ pc \in [Actor -> Phase]
  /\ DOMAIN ask = Client /\ \A c \in Client : pc[c] # "idle" => ask[c] \in Request
  /\ got \in [Client -> [id : Id \union {None}, value : Value, listed : BOOLEAN,
                        counted : BOOLEAN, begun : Scan \union {None}]]

Init ==
  /\ load \in Workload /\ shared \in BOOLEAN
  /\ stored = [targets |-> {}, scans |-> {}, reports |-> {}]
  /\ seen = stored
  /\ used = {}
  /\ files = [f \in Format |-> NoFile]
  /\ pc = [a \in Actor |-> "idle"]
  /\ ask = [c \in Client |-> None]
  /\ got = [c \in Client |-> Nothing]

-----------------------------------------------------------------------------
(* Sessions *)

Goto(a, phase) == pc' = [pc EXCEPT ![a] = phase]

\* The handler raises: the session rolls back.
Refuse(a) ==
  /\ Goto(a, "refused")
  /\ seen' = stored
  /\ UNCHANGED stored

\* The session ends: whatever is flushed on its connection is committed.
Reply(a) ==
  /\ Goto(a, "done")
  /\ stored' = seen
  /\ UNCHANGED seen

\* The session flushes, and commits in a step of its own if others may come
\* between on the same connection.
Write(a, database, next) ==
  /\ seen' = database
  /\ IF shared THEN UNCHANGED stored /\ Goto(a, "commit")
               ELSE stored' = database /\ Goto(a, next)

Target(id)       == {t \in seen.targets : t.id = id}
TargetAt(where)  == {t \in seen.targets : t.address = where}
ScanRow(id)      == {s \in seen.scans : s.id = id}
Report(id)       == {r \in seen.reports : r.id = id}

-----------------------------------------------------------------------------
(* Handlers *)

\* Client c sends a request, once it has the answer to the one before.
Send(c, request) ==
  /\ pc[c] \in {"idle", "done", "refused"}
  /\ Goto(c, "read")
  /\ ask' = [ask EXCEPT ![c] = request]
  /\ got' = [got EXCEPT ![c] = Nothing]
  /\ UNCHANGED <<load, shared, stored, seen, used, files>>

\* Bound: a request is sent only if there are identifiers for what it makes.
Making(kinds) ==
  {c \in Client : /\ pc[c] \notin {"idle", "done", "refused"}
                  /\ ask[c].do \in kinds /\ got[c].id = None}

Room(ids, kinds) == Cardinality((ids \intersect load.ids) \ used) > Cardinality(Making(kinds))

HasRoom(request) ==
  /\ request.do \in {"add", "scan"} => Room(TargetId, {"add", "scan"})
  /\ request.do = "scan"            => Room(Scan, {"scan"})
  /\ request.do = "report"          => Room(ReportId, {"report"})

Ask(c) == \E request \in load.asks[c] : HasRoom(request) /\ Send(c, request)

\* The rows the first SELECT of a request brings.
Asked(request) ==
  CASE request.do \in {"add", "scan"}             -> TargetAt(request.of)
    [] request.do \in {"auto", "delete"}          -> Target(request.of)
    [] request.do \in {"poll", "result", "report"} -> ScanRow(request.of)
    [] request.do = "mark"      -> {s \in ScanRow(request.of) : s.saved}
    [] request.do = "download"  -> {r \in Report(request.of) : files[r.format] # NoFile}

\* What the handler reads of such a row.
ValueOf(request, row) ==
  CASE request.do \in {"add", "scan", "delete"}    -> row.id
    [] request.do = "auto"                         -> row.auto
    [] request.do \in {"poll", "result", "report"} -> row.status
    [] request.do = "mark"                         -> row.mark
    [] request.do = "download"                     -> row.format

\* Mutant: a report is made of a scan in any state.
AcceptsAny(request, rows) ==
  CASE request.do = "add"  -> rows = {}
    [] request.do = "scan" -> TRUE
    [] OTHER               -> rows # {}

\* The request goes on, given what was found.
Accepts(request, rows) ==
  CASE request.do = "add"    -> rows = {}
    [] request.do = "scan"   -> TRUE
    [] request.do = "report" -> \E row \in rows : row.status = "completed"
    [] OTHER                 -> rows # {}

AfterRead(request, rows) ==
  CASE request.do = "add"                          -> "resolve"
    [] request.do = "download"                     -> "stream"
    [] request.do \in {"poll", "result", "report"} -> "findings"
    [] request.do = "scan" /\ rows = {}            -> "parent"
    [] OTHER                                       -> "write"

Read(c) ==
  LET rows == Asked(ask[c])
  IN /\ pc[c] = "read"
     /\ \/ /\ ~Accepts(ask[c], rows)
           /\ Refuse(c)
           /\ UNCHANGED got
        \/ /\ Accepts(ask[c], rows)
           /\ got' = [got EXCEPT ![c].value =
                        IF rows = {} THEN None
                        ELSE ValueOf(ask[c], CHOOSE row \in rows : TRUE)]
           /\ Goto(c, AfterRead(ask[c], rows))
           /\ UNCHANGED <<stored, seen>>
     /\ UNCHANGED <<load, shared, used, files, ask>>

\* add_target's DNS lookup, in a thread; no address is no error, but a name
\* that cannot be encoded is.
Resolve(c) ==
  /\ pc[c] = "resolve"
  /\ \/ Goto(c, "write") /\ UNCHANGED <<stored, seen>>
     \/ Refuse(c)
  /\ UNCHANGED <<load, shared, used, files, ask, got>>

\* The findings are selected: get_scan_status answers, get_full_result counts
\* them by severity, generate_report makes the text of the report and fails, or
\* opens the file of its format for writing, which empties it.
Saved(id) == \E s \in ScanRow(id) : s.saved

\* The handlers that have file f open.
Writing(f) == {c \in Client : pc[c] = "file" /\ ask[c].with = f}

Open(request) ==
  files' = [files EXCEPT ![request.with] =
              [scan |-> request.of, whole |-> FALSE, spoiled |-> Writing(request.with) # {}]]

Findings(c) ==
  /\ pc[c] = "findings"
  /\ got' = [got EXCEPT ![c].listed = Saved(ask[c].of)]
  /\ \/ ask[c].do = "poll" /\ Reply(c) /\ UNCHANGED files
     \/ ask[c].do = "result" /\ Goto(c, "count") /\ UNCHANGED <<stored, seen, files>>
     \/ ask[c].do = "report" /\ Goto(c, "file") /\ Open(ask[c]) /\ UNCHANGED <<stored, seen>>
     \/ ask[c].do = "report" /\ Refuse(c) /\ UNCHANGED files
  /\ UNCHANGED <<load, shared, used, ask>>

\* The generator writes the file to its end, or raises, or is lost with its
\* process: then the file may hold a part.
WriteFile(c) ==
  LET f == ask[c].with
  IN /\ pc[c] = "file"
     /\ \/ /\ Goto(c, "write")
           /\ files' = [files EXCEPT ![f].whole = got[c].listed /\ ~files[f].spoiled]
           /\ UNCHANGED <<stored, seen>>
        \/ /\ Refuse(c)
           /\ files' = [files EXCEPT ![f].spoiled = TRUE]
     /\ UNCHANGED <<load, shared, used, ask, got>>

\* The scan of which a part of file f that is read now is a part of the report.
Shows(f) == IF files[f].whole THEN files[f].scan ELSE None

\* FileResponse reads the file in chunks, with an await between them: a first
\* part and the rest.  What it delivers is of one scan if both parts are.
Stream(c) ==
  LET f == got[c].value
  IN /\ \/ /\ pc[c] = "stream"
           /\ got' = [got EXCEPT ![c].begun = Shows(f)]
           /\ Goto(c, "rest")
           /\ UNCHANGED <<stored, seen>>
        \/ /\ pc[c] = "rest"
           /\ got' = [got EXCEPT ![c].value = IF Shows(f) = got[c].begun THEN got[c].begun ELSE None]
           /\ Reply(c)
     /\ UNCHANGED <<load, shared, used, files, ask>>

Count(c) ==
  /\ pc[c] = "count"
  /\ got' = [got EXCEPT ![c].counted = Saved(ask[c].of)]
  /\ Reply(c)
  /\ UNCHANGED <<load, shared, used, files, ask>>

\* A new identifier; which one does not matter.  Bound: one is left, as HasRoom
\* has seen to.
Left(ids)  == (ids \intersect load.ids) \ used # {}
Fresh(ids) == CHOOSE id \in (ids \intersect load.ids) \ used : TRUE

\* The row that c makes.
Make(c, id) ==
  /\ used' = used \union {id}
  /\ got' = [got EXCEPT ![c].id = id]

\* Mutant: the address has no unique index.
FreeAnyway(address) == TRUE

\* The unique index on targets.address has no entry.
Free(address) == TargetAt(address) = {}

NewTarget(id, address) == [id |-> id, address |-> address, auto |-> "on"]

WithTarget(row) == [seen EXCEPT !.targets = @ \union {row}]
WithScan(row)   == [seen EXCEPT !.scans = @ \union {row}]
WithReport(row) == [seen EXCEPT !.reports = @ \union {row}]
Without(id)     == [seen EXCEPT !.targets = @ \ Target(id)]

\* An UPDATE of one row.
WithAuto(t, flag)   == [seen EXCEPT !.targets = (@ \ {t}) \union {[t EXCEPT !.auto = flag]}]
WithUpdated(s, row) == [seen EXCEPT !.scans = (@ \ {s}) \union {row}]

AddTarget(c) ==
  /\ ask[c].do = "add"
  /\ IF Free(ask[c].of)
       THEN LET id == Fresh(TargetId)
            IN /\ Left(TargetId)
               /\ Make(c, id)
               /\ Write(c, WithTarget(NewTarget(id, ask[c].of)), "refresh")
       ELSE Refuse(c) /\ UNCHANGED <<used, got>>

\* toggle_auto_rescan: no UPDATE if the value is the one that was loaded; an
\* UPDATE that finds no row is an error.
SetAuto(c) ==
  /\ ask[c].do = "auto"
  /\ \/ ask[c].with = got[c].value /\ Goto(c, "refresh") /\ UNCHANGED <<stored, seen>>
     \/ /\ ask[c].with # got[c].value
        /\ IF Target(ask[c].of) = {} THEN Refuse(c)
           ELSE \E t \in Target(ask[c].of) :
                  Write(c, WithAuto(t, ask[c].with), "refresh")
  /\ UNCHANGED <<used, got>>

\* No scan of the target would be left with target_id NULL.
Unreferenced(id) == \A s \in seen.scans : s.target # id

\* delete_target: a DELETE that finds no row is a warning.
DeleteTarget(c) ==
  /\ ask[c].do = "delete"
  /\ IF Unreferenced(ask[c].of)
       THEN Write(c, Without(ask[c].of), "done")
       ELSE Refuse(c)
  /\ UNCHANGED <<used, got>>

\* mark_false_positive sets the negation of what it has loaded.
MarkFinding(c) ==
  /\ ask[c].do = "mark"
  /\ IF ~Saved(ask[c].of) THEN Refuse(c)
     ELSE \E s \in ScanRow(ask[c].of) :
            Write(c, WithUpdated(s, [s EXCEPT !.mark = Other(got[c].value)]), "done")
  /\ got' = [got EXCEPT ![c].value = Other(@)]
  /\ UNCHANGED used

SaveReport(c) ==
  /\ ask[c].do = "report"
  /\ LET id == Fresh(ReportId)
     IN /\ Left(ReportId)
        /\ Make(c, id)
        /\ Write(c, WithReport([id |-> id, scan |-> ask[c].of, format |-> ask[c].with]), "refresh")

NewScan(id, target) ==
  [id |-> id, target |-> target, status |-> "pending", saved |-> FALSE, mark |-> "off"]

\* initiate_scan flushes the target of an address it has not found, for all to
\* see on a shared connection; else it appears with the scan.
AddParent(c) ==
  LET id   == Fresh(TargetId)
      scan == Fresh(Scan)
      flushed == WithTarget(NewTarget(id, ask[c].of))
  IN /\ pc[c] = "parent"
     /\ \/ /\ ~Free(ask[c].of)
           /\ Refuse(c)
           /\ UNCHANGED <<used, got>>
        \/ /\ Free(ask[c].of) /\ shared /\ Left(TargetId)
           /\ used' = used \union {id}
           /\ got' = [got EXCEPT ![c].value = id]
           /\ seen' = flushed
           /\ Goto(c, "write")
           /\ UNCHANGED stored
        \/ /\ Free(ask[c].of) /\ ~shared /\ Left(TargetId) /\ Left(Scan)
           /\ used' = used \union {id, scan}
           /\ got' = [got EXCEPT ![c].id = scan]
           /\ Write(c, [flushed EXCEPT !.scans = @ \union {NewScan(scan, id)}], "done")
     /\ UNCHANGED <<load, shared, files, ask>>

\* PostgreSQL refuses a scan of a target that is gone; SQLite, as it is
\* opened here, does not enforce foreign keys.
AddScan(c) ==
  /\ ask[c].do = "scan"
  /\ IF shared \/ Target(got[c].value) # {}
       THEN LET id == Fresh(Scan)
            IN /\ Left(Scan)
               /\ Make(c, id)
               /\ Write(c, WithScan(NewScan(id, got[c].value)), "done")
       ELSE Refuse(c) /\ UNCHANGED <<used, got>>

Change(c) ==
  /\ pc[c] = "write"
  /\ AddTarget(c) \/ SetAuto(c) \/ DeleteTarget(c) \/ MarkFinding(c)
     \/ SaveReport(c) \/ AddScan(c)
  /\ UNCHANGED <<load, shared, files, ask>>

\* The commit that follows a flush on the shared connection.
Commit(c) ==
  /\ pc[c] = "commit"
  /\ stored' = seen
  /\ Goto(c, IF ask[c].do \in {"add", "auto", "report"} THEN "refresh" ELSE "done")
  /\ UNCHANGED <<load, shared, seen, used, files, ask, got>>

\* Mutant: the row is not read back.
StillThereAnyway(c) == TRUE

\* The row that was made or changed is there.
StillThere(c) ==
  CASE ask[c].do = "add"    -> Target(got[c].id) # {}
    [] ask[c].do = "auto"   -> Target(ask[c].of) # {}
    [] ask[c].do = "report" -> Report(got[c].id) # {}

\* db.refresh reads the row back, and raises if it is gone.
Refresh(c) ==
  /\ pc[c] = "refresh"
  /\ \/ ~StillThere(c) /\ Refuse(c) /\ UNCHANGED got
     \/ /\ StillThere(c)
        /\ got' = IF ask[c].do = "auto"
                    THEN [got EXCEPT ![c].value = (CHOOSE t \in Target(ask[c].of) : TRUE).auto]
                    ELSE got
        /\ Reply(c)
  /\ UNCHANGED <<load, shared, used, files, ask>>

\* A generator does not await: what runs in the same process waits for it.
Runs(a) == shared => \A c \in Client \ {a} : pc[c] # "file"

Handle(c) ==
  /\ Runs(c)
  /\ Read(c) \/ Resolve(c) \/ Findings(c) \/ Count(c) \/ WriteFile(c) \/ Stream(c)
     \/ AddParent(c) \/ Change(c) \/ Commit(c) \/ Refresh(c)

-----------------------------------------------------------------------------
(* Executors *)

\* Mutant: the findings are saved by a transaction of their own.
EndedFirst(s, status) == [s EXCEPT !.status = status]

\* _persist_results: the status and the findings in one transaction.
Ended(s, status) == [s EXCEPT !.status = status, !.saved = status = "completed"]

\* The executor of the scan, dispatched when its row was committed, or a
\* DELETE, moves it on.
Execute(id) ==
  /\ Runs(id)
  /\ pc[id] # "commit"
  /\ \E s \in stored.scans : s.id = id
  /\ \E s \in ScanRow(id), status \in Status :
       /\ Moves(s.status, status)
       /\ Write(id, WithUpdated(s, Ended(s, status)), "idle")
  /\ UNCHANGED <<load, shared, used, files, ask, got>>

ExecutorCommits(id) ==
  /\ Runs(id)
  /\ pc[id] = "commit"
  /\ stored' = seen
  /\ Goto(id, "idle")
  /\ UNCHANGED <<load, shared, seen, used, files, ask, got>>

Next ==
  \/ \E c \in Client : Ask(c) \/ Handle(c)
  \/ \E s \in Scan : Execute(s) \/ ExecutorCommits(s)

Spec == Init /\ [][Next]_vars

-----------------------------------------------------------------------------
(* Properties *)

\* What the answer to c says of the database is so.
Stands(c, database) ==
  CASE ask[c].do = "add"    -> \E t \in database.targets : t.id = got[c].id
    [] ask[c].do = "auto"   -> \E t \in database.targets :
                                 t.id = ask[c].of /\ t.auto = got[c].value
    [] ask[c].do = "delete" -> \A t \in database.targets : t.id # ask[c].of
    [] ask[c].do = "scan"   -> \E s \in database.scans : s.id = got[c].id
    [] ask[c].do = "mark"   -> \E s \in database.scans :
                                 s.id = ask[c].of /\ s.mark = got[c].value
    [] ask[c].do = "report" -> \E r \in database.reports : r.id = got[c].id
    [] OTHER                -> TRUE

\* A change is acknowledged only when it is committed.  On a shared connection
\* another session may have rolled it back: only the handlers that read their
\* row back after the commit then know.
Acknowledged ==
  [][\A c \in Client :
       pc[c] # "done" /\ pc'[c] = "done" /\ (shared => pc[c] = "refresh")
         => Stands(c, stored)']_vars

\* However lookups, DNS answers, insertions and deletions interleave, an
\* address has one target and, with foreign keys, a scan keeps its target.
Registered ==
  /\ \A t, u \in stored.targets : t.address = u.address => t = u
  /\ ~shared => \A s \in stored.scans : \E t \in stored.targets : t.id = s.target

\* With connections of their own: what is answered of a completed scan, in
\* two or three reads while it may end, has all its findings.
Whole ==
  \A c \in Client :
    ~shared /\ pc[c] = "done" /\ got[c].value = "completed" =>
      /\ ask[c].do \in {"poll", "result"} => got[c].listed
      /\ ask[c].do = "result" => got[c].counted

\* It has ended with all its findings.
Completed(id) == \E s \in stored.scans : s.id = id /\ s.status = "completed" /\ s.saved

\* A report that is listed can be downloaded.  With connections of their own, a
\* file that nobody is writing holds a report of a completed scan with all its
\* findings, unless its last writing failed or met one of another process; and
\* what a download delivers, if all its parts are of one scan, is of a completed
\* one, whatever is written before it, after it and between its parts.
ReportsWhole ==
  /\ \A r \in stored.reports : files[r.format] # NoFile
  /\ ~shared =>
       /\ \A f \in Format :
            files[f] # NoFile /\ Writing(f) = {} /\ ~files[f].spoiled =>
              files[f].whole /\ Completed(files[f].scan)
       /\ \A c \in Client :
            pc[c] = "done" /\ ask[c].do = "download" /\ got[c].value # None =>
              Completed(got[c].value)

\* "GET /reports/{report_id}/download": a report that is downloaded is of the
\* scan it was generated for.  Does not hold: every report of a format is
\* written to the same file.
DownloadsOwn ==
  \A c \in Client :
    pc[c] = "done" /\ ask[c].do = "download" /\ got[c].value # None =>
      \A r \in stored.reports : r.id = ask[c].of => r.scan = got[c].value

-----------------------------------------------------------------------------
(* What makes the properties inductive *)

\* Whether it is committed or only flushed: no address is registered twice, no
\* identifier given twice, and a completed scan has its findings.
Keyed(database) ==
  /\ \A t, u \in database.targets : t.address = u.address => t = u
  /\ \A s, r \in database.scans : s.id = r.id => s = r
  /\ \A s \in database.scans : s.id \in used /\ (s.status = "completed" => s.saved)
  /\ \A r \in database.reports : files[r.format] # NoFile

\* Where the handler of a request can stand, and what it has by then.
OnItsWay(c) ==
  /\ pc[c] = "resolve" => ask[c].do = "add"
  /\ pc[c] = "parent" => ask[c].do = "scan"
  /\ pc[c] = "findings" => ask[c].do \in {"poll", "result", "report"}
  /\ pc[c] = "count" => ask[c].do = "result"
  /\ pc[c] = "file" => ask[c].do = "report"
  /\ pc[c] \in {"stream", "rest"} => ask[c].do = "download" /\ got[c].value \in Format
  /\ pc[c] \in {"file", "write", "commit", "refresh"} =>
       /\ ask[c].do \notin {"poll", "result", "download"}
       /\ ask[c].do = "report" => files[ask[c].with] # NoFile
  /\ pc[c] = "commit" => shared
  /\ pc[c] = "write" /\ ask[c].do = "scan" => got[c].value \in TargetId
  /\ pc[c] = "refresh" => ask[c].do \in {"add", "auto", "report"}
  /\ pc[c] \in {"commit", "done"} /\ ask[c].do = "scan" => got[c].id \in Scan

\* The status that a handler has read, if it is settled, is that of the scan
\* for good; if it is completed, the findings are there to be read; and what a
\* download has begun with, and delivers, is the report of a completed scan.
Settled == {"completed", "failed"}

ToldRight(c) ==
  /\ pc[c] # "idle" /\ ask[c].do \in {"poll", "result", "report"} /\ got[c].value \in Settled =>
       \E s \in stored.scans : s.id = ask[c].of /\ s.status = got[c].value
  /\ pc[c] = "findings" /\ ask[c].do = "report" => got[c].value = "completed"
  /\ pc[c] = "file" => got[c].listed
  /\ pc[c] = "rest" /\ got[c].begun # None => Completed(got[c].begun)
  /\ pc[c] = "done" /\ ask[c].do = "download" /\ got[c].value # None => Completed(got[c].value)
  /\ pc[c] \in {"count", "done"} /\ got[c].value = "completed" =>
       /\ ask[c].do \in {"poll", "result"} => got[c].listed
       /\ pc[c] = "done" /\ ask[c].do = "result" => got[c].counted

\* A file is of a completed scan; it is whole, spoiled or being written.
FilesOf    == \A f \in Format : files[f] # NoFile => Completed(files[f].scan)
FilesWhole ==
  \A f \in Format :
    files[f] # NoFile /\ Writing(f) = {} /\ ~files[f].spoiled => files[f].whole

CInv ==
  /\ TypeOK
  /\ Keyed(stored) /\ Keyed(seen)
  /\ \A c \in Client : OnItsWay(c)
  /\ ~shared =>
       /\ stored = seen
       /\ \A s \in stored.scans : \E t \in stored.targets : t.id = s.target
       /\ \A c \in Client : ToldRight(c)
       /\ FilesOf /\ FilesWhole
=============================================================================
