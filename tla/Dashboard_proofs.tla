--------------------------- MODULE Dashboard_proofs ---------------------------
(***************************************************************************)
(* Theorems about Console and Dashboard, for any clients, pages, addresses  *)
(* and workloads.  What is said of sessions with connections of their own   *)
(* assumes ~shared, as the properties do.                                   *)
(***************************************************************************)
EXTENDS Dashboard, TLAPS

TargetRow == [id : TargetId, address : Address, auto : Flag]
ScanRows  == [id : Scan, target : TargetId, status : Status, saved : BOOLEAN, mark : Flag]
ReportRow == [id : ReportId, scan : Scan, format : Format]

LEMMA DatabaseIs ==
  ASSUME NEW db
  PROVE  db \in Database <=>
           /\ db = [targets |-> db.targets, scans |-> db.scans, reports |-> db.reports]
           /\ db.targets \subseteq TargetRow
           /\ db.scans \subseteq ScanRows
           /\ db.reports \subseteq ReportRow
  BY DEF Database, TargetRow, ScanRows, ReportRow

LEMMA WithRows ==
  ASSUME seen \in Database
  PROVE  /\ \A row : WithTarget(row) =
              [targets |-> seen.targets \union {row}, scans |-> seen.scans, reports |-> seen.reports]
         /\ \A row : WithScan(row) =
              [targets |-> seen.targets, scans |-> seen.scans \union {row}, reports |-> seen.reports]
         /\ \A row : WithReport(row) =
              [targets |-> seen.targets, scans |-> seen.scans, reports |-> seen.reports \union {row}]
         /\ \A id : Without(id) =
              [targets |-> seen.targets \ Target(id), scans |-> seen.scans, reports |-> seen.reports]
         /\ \A t, flag : WithAuto(t, flag) =
              [targets |-> (seen.targets \ {t}) \union {[t EXCEPT !.auto = flag]},
               scans |-> seen.scans, reports |-> seen.reports]
         /\ \A s, row : WithUpdated(s, row) =
              [targets |-> seen.targets, scans |-> (seen.scans \ {s}) \union {row},
               reports |-> seen.reports]
<1> DEFINE D == [targets |-> seen.targets, scans |-> seen.scans, reports |-> seen.reports]
<1>1. seen = D
  BY DatabaseIs
<1>2. ASSUME NEW x
      PROVE  /\ [D EXCEPT !.targets = x] = [targets |-> x, scans |-> seen.scans, reports |-> seen.reports]
             /\ [D EXCEPT !.scans = x] = [targets |-> seen.targets, scans |-> x, reports |-> seen.reports]
             /\ [D EXCEPT !.reports = x] = [targets |-> seen.targets, scans |-> seen.scans, reports |-> x]
  OBVIOUS
<1> HIDE DEF D
<1>3. ASSUME NEW row
      PROVE  /\ WithTarget(row) = [D EXCEPT !.targets = seen.targets \union {row}]
             /\ WithScan(row) = [D EXCEPT !.scans = seen.scans \union {row}]
             /\ WithReport(row) = [D EXCEPT !.reports = seen.reports \union {row}]
  BY <1>1 DEF WithTarget, WithScan, WithReport
<1>4. ASSUME NEW t, NEW flag
      PROVE  WithAuto(t, flag) = [D EXCEPT !.targets = (seen.targets \ {t}) \union {[t EXCEPT !.auto = flag]}]
  BY <1>1 DEF WithAuto
<1>5. ASSUME NEW s, NEW row
      PROVE  WithUpdated(s, row) = [D EXCEPT !.scans = (seen.scans \ {s}) \union {row}]
  BY <1>1 DEF WithUpdated
<1>6. ASSUME NEW id PROVE Without(id) = [D EXCEPT !.targets = seen.targets \ Target(id)]
  BY <1>1 DEF Without
<1>7. QED
  BY <1>2, <1>3, <1>4, <1>5, <1>6

LEMMA FreshIs ==
  ASSUME NEW ids, Left(ids)
  PROVE  Fresh(ids) \in ids /\ Fresh(ids) \notin used
  BY DEF Left, Fresh

LEMMA RequestParts ==
  ASSUME NEW r \in Request
  PROVE  /\ r.do \in {"add", "auto", "delete", "scan", "poll", "result", "mark", "report", "download"}
         /\ r.do \in {"add", "scan"} => r.of \in Address
         /\ r.do \in {"auto", "delete"} => r.of \in TargetId
         /\ r.do = "auto" => r.with \in Flag
         /\ r.do \in {"poll", "result", "mark", "report"} => r.of \in Scan
         /\ r.do = "report" => r.with \in Format
         /\ r.do = "download" => r.of \in ReportId
  BY DEF Request

-----------------------------------------------------------------------------
(* What a step does to the data *)

\* Every scan of the database has its target.
Linked(database) == \A s \in database.scans : \E t \in database.targets : t.id = s.target

DataInv ==
  /\ load \in Workload /\ shared \in BOOLEAN
  /\ stored \in Database /\ seen \in Database
  /\ used \subseteq Id
  /\ files \in [Format -> {NoFile} \union Made]
  /\ Keyed(stored) /\ Keyed(seen)
  /\ ~shared => stored = seen /\ Linked(stored) /\ FilesOf

\* Scans keep the status they have settled on.
Lasting ==
  \A s \in stored.scans : s.status \in Settled =>
    \E r \in stored'.scans : r.id = s.id /\ r.status = s.status

\* The data is as it should be after a step, and what was there lasts.
DataStep ==
  /\ DataInv'
  /\ shared' = shared
  /\ \A f \in Format : files[f] # NoFile => files'[f] # NoFile
  /\ ~shared => Lasting

\* A completed scan stays completed, with its findings.
LEMMA StaysCompleted ==
  ASSUME Lasting, Keyed(stored)', NEW id, Completed(id)
  PROVE  Completed(id)'
<1>1. PICK s \in stored.scans : s.id = id /\ s.status = "completed"
  BY DEF Completed
<1>2. PICK r \in stored'.scans : r.id = id /\ r.status = "completed"
  BY <1>1 DEF Lasting, Settled
<1>3. r.saved
  BY <1>2 DEF Keyed
<1>4. QED
  BY <1>2, <1>3 DEF Completed

\* Nothing changes, or the session commits or rolls back.
LEMMA SessionEnds ==
  ASSUME DataInv, UNCHANGED <<load, shared, used, files>>,
         <<stored', seen'>> \in {<<stored, seen>>, <<stored, stored>>, <<seen, seen>>}
  PROVE  DataStep
<1>1. /\ stored' \in {stored, seen} /\ seen' \in {stored, seen}
      /\ ~shared => stored' = stored /\ seen' = stored
  BY DEF DataInv
<1>2. ASSUME NEW db, Keyed(db) PROVE Keyed(db)'
  BY <1>2 DEF Keyed
<1>3. Keyed(stored)' /\ Keyed(seen)'
  BY <1>1 DEF DataInv, Keyed
<1>4. ~shared => Lasting
  BY <1>1 DEF Lasting
<1>5. QED
  BY <1>1, <1>3, <1>4 DEF DataStep, DataInv, Linked, FilesOf, Completed

\* What Keyed says of a database, but for the identifiers in use.
WellKeyed(db) ==
  /\ \A t, u \in db.targets : t.address = u.address => t = u
  /\ \A s, r \in db.scans : s.id = r.id => s = r
  /\ \A s \in db.scans : s.status = "completed" => s.saved
  /\ \A r \in db.reports : files[r.format] # NoFile

KeepsSettled(db) ==
  \A s \in stored.scans : s.status \in Settled =>
    \E r \in db.scans : r.id = s.id /\ r.status = s.status

\* A database that may be written.
Writable(db) ==
  /\ db \in Database /\ WellKeyed(db)
  /\ ~shared => Linked(db) /\ KeepsSettled(db)

\* What a session flushes it commits at once, if its connection is its own.
Flushed(db) == seen' = db /\ IF shared THEN stored' = stored ELSE stored' = db

LEMMA Written ==
  ASSUME DataInv, NEW db, Flushed(db),
         UNCHANGED <<load, shared, files>>, used \subseteq used', used' \subseteq Id,
         Writable(db), \A s \in db.scans : s.id \in used'
  PROVE  DataStep
<1>1. seen' = db /\ IF shared THEN stored' = stored ELSE stored' = db
  BY DEF Flushed
<1>2. Keyed(seen)'
  BY <1>1 DEF Writable, WellKeyed, Keyed
<1>3. Keyed(stored)'
  <2>1. CASE shared
    BY <1>1, <2>1 DEF DataInv, Keyed
  <2>2. CASE ~shared
    BY <1>1, <1>2, <2>2 DEF Keyed
  <2>3. QED
    BY <2>1, <2>2
<1>4. ~shared => stored' = seen' /\ Linked(stored')
  BY <1>1 DEF Writable
<1>5. ~shared => Lasting
  BY <1>1 DEF Writable, KeepsSettled, Lasting
<1>6. ~shared => FilesOf'
  BY <1>3, <1>5, StaysCompleted DEF DataInv, FilesOf
<1>7. DataInv'
  BY <1>1, <1>2, <1>3, <1>4, <1>6 DEF DataInv, Writable
<1>8. QED
  BY <1>5, <1>7 DEF DataStep

LEMMA SeenIsWritable ==
  ASSUME DataInv
  PROVE  Writable(seen) /\ \A s \in seen.scans : s.id \in used
  BY DEF DataInv, Writable, Keyed, WellKeyed, KeepsSettled, Linked

LEMMA TargetIsWritable ==
  ASSUME DataInv, NEW id \in TargetId, NEW where \in Address, Free(where)
  PROVE  Writable(WithTarget(NewTarget(id, where)))
<1> DEFINE row == NewTarget(id, where)
           db == [targets |-> seen.targets \union {row}, scans |-> seen.scans, reports |-> seen.reports]
<1>1. WithTarget(row) = db
  BY WithRows DEF DataInv
<1>2. row \in TargetRow /\ row.address = where /\ row.id = id
  BY DEF NewTarget, TargetRow, Flag
<1>3. Writable(seen) /\ seen.targets \subseteq TargetRow
  BY SeenIsWritable, DatabaseIs DEF Writable
<1>4. \A t \in seen.targets : t.address # where
  BY DEF Free, TargetAt
<1>5. db.targets = seen.targets \union {row} /\ db.scans = seen.scans /\ db.reports = seen.reports
  OBVIOUS
<1>6. db \in Database
  BY <1>2, <1>3, <1>5, DatabaseIs DEF Writable
<1> HIDE DEF db, row
<1>7. WellKeyed(db)
  BY <1>2, <1>3, <1>4, <1>5 DEF Writable, WellKeyed
<1>8. ~shared => Linked(db) /\ KeepsSettled(db)
  BY <1>3, <1>5 DEF Writable, Linked, KeepsSettled
<1>9. QED
  BY <1>1, <1>6, <1>7, <1>8 DEF Writable, row

LEMMA AutoIsWritable ==
  ASSUME DataInv, NEW t \in seen.targets, NEW flag \in Flag
  PROVE  Writable(WithAuto(t, flag))
<1> DEFINE row == [t EXCEPT !.auto = flag]
           db == [targets |-> (seen.targets \ {t}) \union {row}, scans |-> seen.scans, reports |-> seen.reports]
<1>1. WithAuto(t, flag) = db
  BY WithRows DEF DataInv
<1>2. Writable(seen) /\ seen.targets \subseteq TargetRow
  BY SeenIsWritable, DatabaseIs DEF Writable
<1>3. row \in TargetRow /\ row.address = t.address /\ row.id = t.id
  BY <1>2 DEF TargetRow
<1>4. db.targets = (seen.targets \ {t}) \union {row} /\ db.scans = seen.scans /\ db.reports = seen.reports
  OBVIOUS
<1>5. db \in Database
  BY <1>2, <1>3, <1>4, DatabaseIs DEF Writable
<1> HIDE DEF db, row
<1>6. WellKeyed(db)
  BY <1>2, <1>3, <1>4 DEF Writable, WellKeyed
<1>7. ~shared => Linked(db) /\ KeepsSettled(db)
  BY <1>2, <1>3, <1>4 DEF Writable, Linked, KeepsSettled
<1>8. QED
  BY <1>1, <1>5, <1>6, <1>7 DEF Writable, db

LEMMA DeletionIsWritable ==
  ASSUME DataInv, NEW id \in TargetId, Unreferenced(id)
  PROVE  Writable(Without(id)) /\ Without(id).scans = seen.scans
<1> DEFINE db == [targets |-> seen.targets \ Target(id), scans |-> seen.scans, reports |-> seen.reports]
<1>1. Without(id) = db
  BY WithRows DEF DataInv
<1>2. Writable(seen) /\ seen.targets \subseteq TargetRow
  BY SeenIsWritable, DatabaseIs DEF Writable
<1>3. db.targets = seen.targets \ Target(id) /\ db.scans = seen.scans /\ db.reports = seen.reports
  OBVIOUS
<1>4. db \in Database
  BY <1>2, <1>3, DatabaseIs DEF Writable
<1> HIDE DEF db
<1>5. WellKeyed(db)
  BY <1>2, <1>3 DEF Writable, WellKeyed
<1>6. ~shared => Linked(db) /\ KeepsSettled(db)
  BY <1>2, <1>3 DEF Writable, Linked, KeepsSettled, Unreferenced, Target
<1>7. QED
  BY <1>1, <1>3, <1>4, <1>5, <1>6 DEF Writable

LEMMA ReportIsWritable ==
  ASSUME DataInv, NEW row \in ReportRow, files[row.format] # NoFile
  PROVE  Writable(WithReport(row)) /\ WithReport(row).scans = seen.scans
<1> DEFINE db == [targets |-> seen.targets, scans |-> seen.scans, reports |-> seen.reports \union {row}]
<1>1. WithReport(row) = db
  BY WithRows DEF DataInv
<1>2. Writable(seen) /\ seen.reports \subseteq ReportRow
  BY SeenIsWritable, DatabaseIs DEF Writable
<1>3. db.targets = seen.targets /\ db.scans = seen.scans /\ db.reports = seen.reports \union {row}
  OBVIOUS
<1>4. db \in Database
  BY <1>2, <1>3, DatabaseIs DEF Writable
<1> HIDE DEF db
<1>5. WellKeyed(db)
  BY <1>2, <1>3 DEF Writable, WellKeyed
<1>6. ~shared => Linked(db) /\ KeepsSettled(db)
  BY <1>2, <1>3 DEF Writable, Linked, KeepsSettled
<1>7. QED
  BY <1>1, <1>3, <1>4, <1>5, <1>6 DEF Writable

LEMMA ScanIsWritable ==
  ASSUME DataInv, NEW id \in Scan, id \notin used, NEW target \in TargetId,
         ~shared => Target(target) # {}
  PROVE  /\ Writable(WithScan(NewScan(id, target)))
         /\ \A s \in WithScan(NewScan(id, target)).scans : s.id \in used \union {id}
<1> DEFINE row == NewScan(id, target)
           db == [targets |-> seen.targets, scans |-> seen.scans \union {row}, reports |-> seen.reports]
<1>1. WithScan(row) = db
  BY WithRows DEF DataInv
<1>2. row \in ScanRows /\ row.id = id /\ row.target = target /\ row.status = "pending"
  BY DEF NewScan, ScanRows, Status, Flag
<1>3. Writable(seen) /\ seen.scans \subseteq ScanRows /\ \A s \in seen.scans : s.id \in used
  BY SeenIsWritable, DatabaseIs DEF Writable
<1>4. db.targets = seen.targets /\ db.scans = seen.scans \union {row} /\ db.reports = seen.reports
  OBVIOUS
<1>5. db \in Database
  BY <1>2, <1>3, <1>4, DatabaseIs DEF Writable
<1> HIDE DEF db, row
<1>6. WellKeyed(db)
  <2>1. \A s, r \in db.scans : s.id = r.id => s = r
    BY <1>2, <1>3, <1>4 DEF Writable, WellKeyed
  <2>2. QED
    BY <1>2, <1>3, <1>4, <2>1 DEF Writable, WellKeyed
<1>7. ~shared => Linked(db) /\ KeepsSettled(db)
  BY <1>2, <1>3, <1>4 DEF Writable, Linked, KeepsSettled, Target
<1>8. QED
  BY <1>1, <1>2, <1>3, <1>4, <1>5, <1>6, <1>7 DEF Writable, row

\* An UPDATE of a scan may mark it, or move one on that has not settled.
LEMMA UpdateIsWritable ==
  ASSUME DataInv, NEW s \in seen.scans, NEW row \in ScanRows,
         row.id = s.id, row.target = s.target, row.status = "completed" => row.saved,
         row.status # s.status => s.status \notin Settled
  PROVE  /\ Writable(WithUpdated(s, row))
         /\ \A r \in WithUpdated(s, row).scans : r.id \in used
<1> DEFINE db == [targets |-> seen.targets, scans |-> (seen.scans \ {s}) \union {row}, reports |-> seen.reports]
<1>1. WithUpdated(s, row) = db
  BY WithRows DEF DataInv
<1>2. Writable(seen) /\ seen.scans \subseteq ScanRows /\ \A r \in seen.scans : r.id \in used
  BY SeenIsWritable, DatabaseIs DEF Writable
<1>3. db.targets = seen.targets /\ db.scans = (seen.scans \ {s}) \union {row} /\ db.reports = seen.reports
  OBVIOUS
<1>4. db \in Database
  BY <1>2, <1>3, DatabaseIs DEF Writable
<1> HIDE DEF db
<1>5. WellKeyed(db)
  <2>1. \A r, q \in db.scans : r.id = q.id => r = q
    BY <1>2, <1>3 DEF Writable, WellKeyed
  <2>2. QED
    BY <1>2, <1>3, <2>1 DEF Writable, WellKeyed
<1>6. ~shared => Linked(db) /\ KeepsSettled(db)
  <2>1. ASSUME ~shared PROVE stored = seen
    BY <2>1 DEF DataInv
  <2>2. ~shared => Linked(db)
    BY <1>2, <1>3 DEF Writable, Linked
  <2>3. ~shared => KeepsSettled(db)
    BY <1>3, <2>1 DEF KeepsSettled
  <2>4. QED
    BY <2>2, <2>3
<1>7. QED
  BY <1>1, <1>2, <1>3, <1>4, <1>5, <1>6 DEF Writable

\* generate_report opens the file of its format, or writes it.
LEMMA FileChanged ==
  ASSUME DataInv, UNCHANGED <<load, shared, used, stored>>, seen' \in {seen, stored},
         NEW f \in Format, NEW m \in Made, files' = [files EXCEPT ![f] = m],
         ~shared => Completed(m.scan)
  PROVE  DataStep /\ files'[f] # NoFile
<1>1. m # NoFile
  BY NamesAssumption DEF Made, NoFile
<1>2. files' \in [Format -> {NoFile} \union Made] /\ files'[f] = m
      /\ \A g \in Format : g # f => files'[g] = files[g]
  BY DEF DataInv
<1>3. \A g \in Format : files[g] # NoFile => files'[g] # NoFile
  BY <1>1, <1>2
<1>4. \A db \in Database : \A r \in db.reports : r.format \in Format
  BY DatabaseIs DEF ReportRow
<1>5. Keyed(stored)' /\ Keyed(seen)'
  BY <1>3, <1>4 DEF DataInv, Keyed
<1>6. ~shared => FilesOf'
  BY <1>2 DEF DataInv, FilesOf, Completed
<1>7. DataInv'
  BY <1>2, <1>5, <1>6 DEF DataInv, Linked
<1>8. ~shared => Lasting
  BY DEF Lasting
<1>9. QED
  BY <1>1, <1>2, <1>3, <1>7, <1>8 DEF DataStep

-----------------------------------------------------------------------------
(* What a step does to the clients *)

Got == [id : Id \union {None}, value : Value, listed : BOOLEAN, counted : BOOLEAN,
        begun : Scan \union {None}]

Clients ==
  /\ pc \in [Actor -> Phase]
  /\ DOMAIN ask = Client /\ \A c \in Client : pc[c] # "idle" => ask[c] \in Request
  /\ got \in [Client -> Got]

\* What is said of one client.
Own(c) == OnItsWay(c) /\ (~shared => ToldRight(c))

\* All of CInv but that a file is whole, spoiled or being written.
Base == DataInv /\ Clients /\ \A c \in Client : Own(c)

LEMMA CInvIs == CInv <=> Base /\ (~shared => FilesWhole)
  BY DEF CInv, Base, TypeOK, DataInv, Clients, Own, Got, Linked

\* A step that leaves a client alone leaves what is said of it.
LEMMA Others ==
  ASSUME CInv, DataStep, NEW d \in Client,
         pc'[d] = pc[d], ask'[d] = ask[d], got'[d] = got[d]
  PROVE  Own(d)'
<1>1. OnItsWay(d)'
  <2>1. pc[d] \in {"file", "write", "commit", "refresh"} /\ ask[d].do = "report" => ask[d].with \in Format
    BY RequestParts DEF CInv, TypeOK
  <2>2. OnItsWay(d)
    BY DEF CInv
  <2>3. QED
    BY <2>1, <2>2 DEF OnItsWay, DataStep
<1>2. ASSUME ~shared PROVE ToldRight(d)'
  <2>1. ToldRight(d) /\ Lasting /\ Keyed(stored)'
    BY <1>2 DEF CInv, DataStep, DataInv
  <2>2. \A id : Completed(id) => Completed(id)'
    BY <2>1, StaysCompleted
  <2>3. QED
    BY <2>1, <2>2 DEF ToldRight, Lasting
<1>3. QED
  BY <1>1, <1>2 DEF Own, DataStep

\* A step of client c.
ClientStep(c) ==
  /\ pc' = [pc EXCEPT ![c] = pc'[c]]
  /\ pc'[c] \in Phase
  /\ DOMAIN ask' = Client /\ ask'[c] \in Request
  /\ \A d \in Client : d # c => ask'[d] = ask[d]
  /\ got' \in [Client -> Got]
  /\ \A d \in Client : d # c => got'[d] = got[d]

LEMMA Assembled ==
  ASSUME CInv, NEW c \in Client, DataStep, ClientStep(c), Own(c)'
  PROVE  Base' /\ DataStep
<1>1. c \in Actor /\ Client \subseteq Actor /\ pc \in [Actor -> Phase]
  BY DEF Actor, CInv, TypeOK
<1>2. \A d \in Client : d # c => pc'[d] = pc[d] /\ ask'[d] = ask[d] /\ got'[d] = got[d]
  BY <1>1 DEF ClientStep
<1>3. Clients'
  <2>1. pc' \in [Actor -> Phase]
    BY <1>1 DEF ClientStep
  <2>2. \A d \in Client : pc'[d] # "idle" => ask'[d] \in Request
    BY <1>2 DEF ClientStep, CInv, TypeOK
  <2>3. QED
    BY <2>1, <2>2 DEF ClientStep, Clients
<1>4. \A d \in Client : Own(d)'
  BY <1>2, Others
<1>5. DataInv'
  BY DEF DataStep
<1>6. QED
  BY <1>3, <1>4, <1>5 DEF Base

-----------------------------------------------------------------------------
(* Steps of a client *)

LEMMA InitCInv == Init => CInv
<1> SUFFICES ASSUME Init PROVE CInv
  OBVIOUS
<1>1. stored \in Database
  BY DEF Init, Database
<1>2. got \in [Client -> Got]
  BY DEF Init, Got, Nothing, Value
<1>3. pc \in [Actor -> Phase] /\ \A a \in Actor : pc[a] = "idle"
  BY DEF Init, Phase
<1>4. Client \subseteq Actor
  BY DEF Actor
<1>5. \A c \in Client : OnItsWay(c) /\ ToldRight(c)
  BY <1>3, <1>4 DEF Init, Nothing, OnItsWay, ToldRight
<1>6. TypeOK
  BY <1>1, <1>2, <1>3, <1>4 DEF Init, TypeOK, Got
<1>7. Keyed(stored) /\ Linked(stored) /\ FilesOf /\ FilesWhole
  BY DEF Init, Keyed, Linked, FilesOf, FilesWhole
<1>8. QED
  BY <1>5, <1>6, <1>7 DEF Init, CInv, Linked

LEMMA Known ==
  ASSUME CInv, NEW c \in Client
  PROVE  /\ DataInv /\ c \in Actor /\ pc \in [Actor -> Phase]
         /\ got \in [Client -> Got] /\ got[c] \in Got
         /\ DOMAIN ask = Client
         /\ pc[c] # "idle" => ask[c] \in Request
         /\ OnItsWay(c)
         /\ ~shared => ToldRight(c)
<1>1. DataInv /\ Clients /\ Own(c)
  BY CInvIs DEF Base
<1>2. QED
  BY <1>1 DEF Clients, Own, Actor

\* The step of a handler takes the request on.
LEMMA Stepped ==
  ASSUME CInv, NEW c \in Client, NEW phase \in Phase, Goto(c, phase), pc[c] # "idle",
         ask' = ask, NEW g \in Got, got' = [got EXCEPT ![c] = g]
  PROVE  ClientStep(c) /\ pc'[c] = phase /\ got'[c] = g
<1>1. c \in Actor /\ pc \in [Actor -> Phase] /\ got \in [Client -> Got] /\ DOMAIN ask = Client
      /\ ask[c] \in Request
  BY Known
<1>2. pc'[c] = phase /\ pc' = [pc EXCEPT ![c] = pc'[c]]
  BY <1>1 DEF Goto
<1>3. got' \in [Client -> Got] /\ got'[c] = g /\ \A d \in Client : d # c => got'[d] = got[d]
  BY <1>1
<1>4. QED
  BY <1>1, <1>2, <1>3 DEF ClientStep

LEMMA Learning ==
  ASSUME CInv, NEW c \in Client
  PROVE  /\ got = [got EXCEPT ![c] = got[c]]
         /\ \A v : [got EXCEPT ![c].value = v] = [got EXCEPT ![c] = [got[c] EXCEPT !.value = v]]
         /\ \A v : [got EXCEPT ![c].id = v] = [got EXCEPT ![c] = [got[c] EXCEPT !.id = v]]
         /\ \A v : [got EXCEPT ![c].listed = v] = [got EXCEPT ![c] = [got[c] EXCEPT !.listed = v]]
         /\ \A v : [got EXCEPT ![c].counted = v] = [got EXCEPT ![c] = [got[c] EXCEPT !.counted = v]]
         /\ \A v : [got EXCEPT ![c].begun = v] = [got EXCEPT ![c] = [got[c] EXCEPT !.begun = v]]
         /\ \A v \in Value : [got[c] EXCEPT !.value = v] \in Got
         /\ \A v \in Scan \union {None} : [got[c] EXCEPT !.begun = v] \in Got
         /\ \A v \in Id : [got[c] EXCEPT !.id = v] \in Got
         /\ \A v \in BOOLEAN : [got[c] EXCEPT !.listed = v] \in Got
         /\ \A v \in BOOLEAN : [got[c] EXCEPT !.counted = v] \in Got
<1>1. got \in [Client -> Got] /\ got[c] \in Got
  BY Known
<1>2. \A v \in Value : [got[c] EXCEPT !.value = v] \in Got
  BY <1>1 DEF Got
<1>3. \A v \in Id : [got[c] EXCEPT !.id = v] \in Got
  BY <1>1 DEF Got
<1>4. \A v \in BOOLEAN : [got[c] EXCEPT !.listed = v] \in Got
  BY <1>1 DEF Got
<1>5. \A v \in BOOLEAN : [got[c] EXCEPT !.counted = v] \in Got
  BY <1>1 DEF Got
<1>6. \A v \in Scan \union {None} : [got[c] EXCEPT !.begun = v] \in Got
  BY <1>1 DEF Got
<1>7. QED
  BY <1>1, <1>2, <1>3, <1>4, <1>5, <1>6

\* A request that reads no status and no file is told none.
LEMMA NotTold ==
  ASSUME NEW c \in Client, ask' = ask, OnItsWay(c)',
         ask[c].do \notin {"poll", "result", "report", "download"}
  PROVE  ToldRight(c)'
  BY DEF ToldRight, OnItsWay

\* What a request has been told stays so.
LEMMA StillTold ==
  ASSUME CInv, ~shared, DataStep, NEW c \in Client, pc[c] # "idle", ask' = ask,
         got'[c].value = got[c].value, pc'[c] \notin {"findings", "count", "file", "rest"},
         pc'[c] = "done" => ask[c].do \notin {"poll", "result", "download"}
  PROVE  ToldRight(c)'
  BY Known DEF ToldRight, DataStep, Lasting

LEMMA RefuseStep ==
  ASSUME CInv, NEW c \in Client, pc[c] # "idle", Refuse(c),
         UNCHANGED <<load, shared, used, files, ask, got>>
  PROVE  Base' /\ DataStep
<1>1. DataStep
  BY Known, SessionEnds DEF Refuse
<1>2. ClientStep(c) /\ pc'[c] = "refused" /\ got'[c] = got[c]
  <2>1. got[c] \in Got /\ got' = [got EXCEPT ![c] = got[c]]
    BY Known, Learning
  <2>2. "refused" \in Phase
    BY DEF Phase
  <2>3. QED
    BY <2>1, <2>2, Stepped DEF Refuse
<1>3. OnItsWay(c)'
  BY <1>2 DEF OnItsWay
<1>4. ~shared => ToldRight(c)'
  BY <1>1, <1>2, StillTold
<1>5. QED
  BY <1>1, <1>2, <1>3, <1>4, Assembled DEF Own, DataStep

LEMMA SendStep ==
  ASSUME CInv, NEW c \in Client, NEW request \in Request, Send(c, request)
  PROVE  Base' /\ DataStep
<1>1. DataStep
  BY Known, SessionEnds DEF Send
<1>2. Nothing \in Got /\ "read" \in Phase
  BY DEF Nothing, Got, Value, Phase
<1>3. c \in Actor /\ pc \in [Actor -> Phase] /\ got \in [Client -> Got] /\ DOMAIN ask = Client
  BY Known
<1>4. ask'[c] = request /\ DOMAIN ask' = Client /\ \A d \in Client : d # c => ask'[d] = ask[d]
  BY <1>3 DEF Send
<1>5. got'[c] = Nothing /\ got' \in [Client -> Got] /\ \A d \in Client : d # c => got'[d] = got[d]
  BY <1>2, <1>3 DEF Send
<1>6. pc'[c] = "read" /\ pc' = [pc EXCEPT ![c] = pc'[c]]
  BY <1>3 DEF Send, Goto
<1>7. ClientStep(c)
  BY <1>2, <1>4, <1>5, <1>6 DEF ClientStep
<1>8. OnItsWay(c)'
  BY <1>6 DEF OnItsWay
<1>9. ToldRight(c)'
  BY <1>5, <1>6 DEF ToldRight, Nothing, None, Settled
<1>10. QED
  BY <1>1, <1>7, <1>8, <1>9, Assembled DEF Own

-----------------------------------------------------------------------------
(* Handlers *)

LEMMA Rows ==
  ASSUME CInv
  PROVE  /\ seen.targets \subseteq TargetRow /\ seen.scans \subseteq ScanRows
         /\ seen.reports \subseteq ReportRow
  BY DatabaseIs DEF CInv, TypeOK

\* What a handler reads has a type.
LEMMA AskedValue ==
  ASSUME CInv, NEW r \in Request, NEW row \in Asked(r)
  PROVE  /\ ValueOf(r, row) \in Value
         /\ r.do = "scan" => ValueOf(r, row) \in TargetId
         /\ r.do = "download" => ValueOf(r, row) \in Format
         /\ r.do \in {"poll", "result", "report"} =>
              row \in seen.scans /\ row.id = r.of /\ ValueOf(r, row) = row.status
<1>1. r.do \in {"add", "auto", "delete", "scan", "poll", "result", "mark", "report", "download"}
  BY RequestParts
<1>2. CASE r.do \in {"add", "scan"}
  <2>1. row \in seen.targets
    BY <1>2 DEF Asked, TargetAt
  <2>2. row.id \in TargetId /\ ValueOf(r, row) = row.id
    BY <1>2, <2>1, Rows DEF TargetRow, ValueOf
  <2>3. QED
    BY <1>2, <2>2 DEF Value
<1>3. CASE r.do \in {"auto", "delete"}
  <2>1. row \in seen.targets
    BY <1>3 DEF Asked, Target
  <2>2. row.id \in TargetId /\ row.auto \in Flag
    BY <2>1, Rows DEF TargetRow
  <2>3. QED
    BY <1>3, <2>2 DEF Value, ValueOf
<1>4. CASE r.do \in {"poll", "result", "report"}
  <2>1. row \in seen.scans /\ row.id = r.of
    BY <1>4 DEF Asked, ScanRow
  <2>2. row.status \in Status
    BY <2>1, Rows DEF ScanRows
  <2>3. QED
    BY <1>4, <2>1, <2>2 DEF Value, ValueOf
<1>5. CASE r.do = "mark"
  <2>1. row \in seen.scans
    BY <1>5 DEF Asked, ScanRow
  <2>2. row.mark \in Flag
    BY <2>1, Rows DEF ScanRows
  <2>3. QED
    BY <1>5, <2>2 DEF Value, ValueOf
<1>6. CASE r.do = "download"
  <2>1. row \in seen.reports
    BY <1>6 DEF Asked, Report
  <2>2. row.format \in Format
    BY <2>1, Rows DEF ReportRow
  <2>3. QED
    BY <1>6, <2>2 DEF Value, ValueOf
<1>7. QED
  BY <1>1, <1>2, <1>3, <1>4, <1>5, <1>6

LEMMA ReadStep ==
  ASSUME CInv, NEW c \in Client, Read(c)
  PROVE  Base' /\ DataStep
<1> DEFINE rows == Asked(ask[c])
           value == IF rows = {} THEN None ELSE ValueOf(ask[c], CHOOSE row \in rows : TRUE)
<1>1. pc[c] # "idle" /\ ask[c] \in Request /\ DataInv
  BY Known DEF Read
<1>2. CASE ~Accepts(ask[c], rows)
  BY <1>1, <1>2, RefuseStep DEF Read
<1>3. CASE Accepts(ask[c], rows)
  <2>1. rows # {} => \E row \in rows : value = ValueOf(ask[c], row)
    OBVIOUS
  <2>2. /\ value \in Value
        /\ rows # {} /\ ask[c].do = "scan" => value \in TargetId
        /\ ask[c].do = "download" => value \in Format
    BY <1>1, <1>3, <2>1, AskedValue DEF Value, Accepts
  <2>3. /\ ask' = ask /\ got' = [got EXCEPT ![c].value = value]
        /\ Goto(c, AfterRead(ask[c], rows)) /\ stored' = stored
    BY <1>3 DEF Read
  <2>4. DataStep
    BY <1>1, <1>3, SessionEnds DEF Read
  <2>5. PICK g \in Got : g = [got[c] EXCEPT !.value = value] /\ got' = [got EXCEPT ![c] = g]
    BY <2>2, <2>3, Learning
  <2>6. g.value = value
    BY <2>5, Known DEF Got
  <2>7. AfterRead(ask[c], rows) \in Phase
    BY DEF AfterRead, Phase
  <2>8. ClientStep(c) /\ pc'[c] = AfterRead(ask[c], rows) /\ got'[c].value = value
    BY <1>1, <2>3, <2>5, <2>6, <2>7, Stepped
  <2>9. OnItsWay(c)'
    <3>1. ask[c].do \in {"add", "auto", "delete", "scan", "poll", "result", "mark", "report", "download"}
      BY <1>1, RequestParts
    <3>2. CASE ask[c].do = "add"
      BY <2>3, <2>8, <3>2 DEF OnItsWay, AfterRead
    <3>3. CASE ask[c].do \in {"poll", "result", "report"}
      BY <2>3, <2>8, <3>3 DEF OnItsWay, AfterRead
    <3>4. CASE ask[c].do = "scan"
      BY <2>2, <2>3, <2>8, <3>4 DEF OnItsWay, AfterRead
    <3>5. CASE ask[c].do \in {"auto", "delete", "mark"}
      BY <2>3, <2>8, <3>5 DEF OnItsWay, AfterRead
    <3>6. CASE ask[c].do = "download"
      BY <2>2, <2>3, <2>8, <3>6 DEF OnItsWay, AfterRead
    <3>7. QED
      BY <3>1, <3>2, <3>3, <3>4, <3>5, <3>6
  <2>10. ASSUME ~shared PROVE ToldRight(c)'
    <3>1. CASE ask[c].do = "download"
      BY <2>3, <2>8, <3>1 DEF ToldRight, AfterRead
    <3>2. CASE ask[c].do \in {"poll", "result", "report"}
      <4>1. rows # {}
        BY <1>3, <3>2 DEF Accepts
      <4>2. PICK row \in rows : value = ValueOf(ask[c], row)
        BY <2>1, <4>1
      <4>3. row \in seen.scans /\ row.id = ask[c].of /\ value = row.status
        BY <1>1, <3>2, <4>2, AskedValue
      <4>4. row \in stored'.scans
        BY <1>1, <2>3, <2>10, <4>3 DEF DataInv
      <4>5. ask[c].do = "report" => value = "completed"
        <5>1. ASSUME NEW q \in rows, ask[c].do = "report" PROVE q = row
          BY <1>1, <4>2, <4>3, <5>1, AskedValue DEF DataInv, Keyed
        <5>2. QED
          BY <1>3, <4>3, <5>1 DEF Accepts
      <4>6. pc'[c] = "findings"
        BY <2>8, <3>2 DEF AfterRead
      <4>7. QED
        BY <2>3, <2>8, <4>3, <4>4, <4>5, <4>6 DEF ToldRight
    <3>3. QED
      BY <2>3, <2>9, <3>1, <3>2, NotTold
  <2>11. QED
    BY <2>4, <2>8, <2>9, <2>10, Assembled DEF Own, DataStep
<1>4. QED
  BY <1>2, <1>3

LEMMA ResolveStep ==
  ASSUME CInv, NEW c \in Client, Resolve(c)
  PROVE  Base' /\ DataStep
<1>1. pc[c] = "resolve" /\ ask[c].do = "add" /\ DataInv /\ ask' = ask
  BY Known DEF Resolve, OnItsWay
<1>2. CASE Goto(c, "write") /\ UNCHANGED <<stored, seen>>
  <2>1. DataStep
    BY <1>1, <1>2, SessionEnds DEF Resolve
  <2>2. got[c] \in Got /\ got' = [got EXCEPT ![c] = got[c]] /\ "write" \in Phase
    BY Known, Learning DEF Resolve, Phase
  <2>3. ClientStep(c) /\ pc'[c] = "write"
    BY <1>1, <1>2, <2>2, Stepped
  <2>4. OnItsWay(c)'
    BY <1>1, <2>3 DEF OnItsWay
  <2>5. QED
    BY <1>1, <2>1, <2>3, <2>4, NotTold, Assembled DEF Own
<1>3. CASE Refuse(c)
  BY <1>1, <1>3, RefuseStep DEF Resolve
<1>4. QED
  BY <1>2, <1>3 DEF Resolve

\* A request that was told "completed" finds the findings saved.
LEMMA FindingsAreThere ==
  ASSUME CInv, ~shared, NEW c \in Client, pc[c] # "idle",
         ask[c].do \in {"poll", "result", "report"}, got[c].value = "completed"
  PROVE  Saved(ask[c].of)
<1>1. PICK s \in stored.scans : s.id = ask[c].of /\ s.status = "completed"
  BY Known DEF ToldRight, Settled
<1>2. s \in seen.scans /\ s.saved
  BY <1>1 DEF CInv, Keyed
<1>3. QED
  BY <1>1, <1>2 DEF Saved, ScanRow

LEMMA FindingsStep ==
  ASSUME CInv, NEW c \in Client, Findings(c)
  PROVE  Base' /\ DataStep
<1> DEFINE saved == Saved(ask[c].of)
<1>1. /\ pc[c] = "findings" /\ DataInv /\ ask' = ask /\ ask[c] \in Request
      /\ ask[c].do \in {"poll", "result", "report"}
  BY Known DEF Findings, OnItsWay
<1>2. PICK g \in Got : g = [got[c] EXCEPT !.listed = saved] /\ got' = [got EXCEPT ![c] = g]
  BY Learning DEF Findings, Saved
<1>3. g.value = got[c].value /\ g.listed = saved
  BY <1>2, Known DEF Got
<1>4. ~shared /\ got[c].value = "completed" => saved
  BY <1>1, FindingsAreThere
<1>6. ASSUME NEW phase \in Phase, Goto(c, phase)
      PROVE  ClientStep(c) /\ pc'[c] = phase /\ got'[c] = g
  BY <1>1, <1>2, <1>6, Stepped
<1>7. CASE ask[c].do = "poll" /\ Reply(c) /\ UNCHANGED files
  <2>1. DataStep
    BY <1>1, <1>7, SessionEnds DEF Findings, Reply
  <2>2. ClientStep(c) /\ pc'[c] = "done" /\ got'[c] = g
    BY <1>6, <1>7 DEF Reply, Phase
  <2>3. OnItsWay(c)'
    BY <1>1, <1>7, <2>2 DEF OnItsWay
  <2>4. ~shared => ToldRight(c)'
    BY <1>1, <1>3, <1>4, <1>7, <2>1, <2>2, Known DEF ToldRight, DataStep, Lasting
  <2>5. QED
    BY <2>1, <2>2, <2>3, <2>4, Assembled DEF Own, DataStep
<1>8. CASE ask[c].do = "result" /\ Goto(c, "count") /\ UNCHANGED <<stored, seen, files>>
  <2>1. DataStep
    BY <1>1, <1>8, SessionEnds DEF Findings
  <2>2. ClientStep(c) /\ pc'[c] = "count" /\ got'[c] = g
    BY <1>6, <1>8 DEF Phase
  <2>3. OnItsWay(c)'
    BY <1>1, <1>8, <2>2 DEF OnItsWay
  <2>4. ~shared => ToldRight(c)'
    BY <1>1, <1>3, <1>4, <1>8, <2>1, <2>2, Known DEF ToldRight, DataStep, Lasting
  <2>5. QED
    BY <2>1, <2>2, <2>3, <2>4, Assembled DEF Own, DataStep
<1>9. CASE ask[c].do = "report" /\ Goto(c, "file") /\ Open(ask[c]) /\ UNCHANGED <<stored, seen>>
  <2>1. ask[c].with \in Format /\ ask[c].of \in Scan
    BY <1>1, <1>9, RequestParts
  <2>2. PICK m \in Made : /\ m.scan = ask[c].of
                          /\ files' = [files EXCEPT ![ask[c].with] = m]
    <3> DEFINE m == [scan |-> ask[c].of, whole |-> FALSE, spoiled |-> Writing(ask[c].with) # {}]
    <3>1. m \in Made /\ m.scan = ask[c].of
      BY <2>1 DEF Made
    <3>2. files' = [files EXCEPT ![ask[c].with] = m]
      BY <1>9 DEF Open
    <3> HIDE DEF m
    <3>3. QED
      BY <3>1, <3>2
  <2>3. ~shared => got[c].value = "completed" /\ Completed(ask[c].of)
    BY <1>1, <1>9, Known DEF ToldRight, Completed, Settled, DataInv, Keyed
  <2>4. DataStep /\ files'[ask[c].with] # NoFile
    BY <1>1, <1>9, <2>1, <2>2, <2>3, FileChanged DEF Findings
  <2>5. ClientStep(c) /\ pc'[c] = "file" /\ got'[c] = g
    BY <1>6, <1>9 DEF Phase
  <2>6. OnItsWay(c)'
    BY <1>1, <1>9, <2>4, <2>5 DEF OnItsWay
  <2>7. ~shared => ToldRight(c)'
    BY <1>1, <1>3, <1>4, <1>9, <2>3, <2>4, <2>5, Known DEF ToldRight, DataStep, Lasting
  <2>8. QED
    BY <2>4, <2>5, <2>6, <2>7, Assembled DEF Own, DataStep
<1>10. CASE ask[c].do = "report" /\ Refuse(c) /\ UNCHANGED files
  <2>1. DataStep
    BY <1>1, <1>10, SessionEnds DEF Findings, Refuse
  <2>2. ClientStep(c) /\ pc'[c] = "refused" /\ got'[c] = g
    BY <1>6, <1>10 DEF Refuse, Phase
  <2>3. OnItsWay(c)'
    BY <1>1, <2>2 DEF OnItsWay
  <2>4. ~shared => ToldRight(c)'
    BY <1>1, <1>3, <2>1, <2>2, StillTold
  <2>5. QED
    BY <2>1, <2>2, <2>3, <2>4, Assembled DEF Own, DataStep
<1>11. QED
  BY <1>7, <1>8, <1>9, <1>10 DEF Findings

LEMMA WriteFileStep ==
  ASSUME CInv, NEW c \in Client, WriteFile(c)
  PROVE  Base' /\ DataStep
<1> DEFINE f == ask[c].with
<1>1. /\ pc[c] = "file" /\ DataInv /\ ask' = ask /\ got' = got /\ ask[c] \in Request
      /\ ask[c].do = "report" /\ files[f] # NoFile /\ f \in Format
      /\ UNCHANGED <<load, shared, used>>
  BY Known, RequestParts DEF WriteFile, OnItsWay
<1>2. files[f] \in Made /\ got[c] \in Got /\ got' = [got EXCEPT ![c] = got[c]]
  BY <1>1, Known, Learning DEF DataInv
<1>3. ~shared => Completed(files[f].scan)
  BY <1>1 DEF DataInv, FilesOf
<1>4. ASSUME NEW m \in Made, m.scan = files[f].scan, files' = [files EXCEPT ![f] = m],
             stored' = stored, seen' \in {seen, stored}
      PROVE  DataStep /\ files'[f] # NoFile
  BY <1>1, <1>3, <1>4, FileChanged
<1>5. CASE /\ Goto(c, "write")
           /\ files' = [files EXCEPT ![f].whole = got[c].listed /\ ~files[f].spoiled]
           /\ UNCHANGED <<stored, seen>>
  <2> DEFINE m == [files[f] EXCEPT !.whole = got[c].listed /\ ~files[f].spoiled]
  <2>1. m \in Made /\ m.scan = files[f].scan
    <3>1. (got[c].listed /\ ~files[f].spoiled) \in BOOLEAN
      BY <1>2 DEF Got
    <3>2. QED
      BY <1>2, <3>1 DEF Made
  <2>2. files' = [files EXCEPT ![f] = m]
    BY <1>5
  <2> HIDE DEF m
  <2>3. DataStep /\ files'[f] # NoFile
    BY <1>4, <1>5, <2>1, <2>2
  <2>4. ClientStep(c) /\ pc'[c] = "write" /\ got'[c] = got[c]
    <3>1. "write" \in Phase
      BY DEF Phase
    <3>2. QED
      BY <1>1, <1>2, <1>5, <3>1, Stepped
  <2>5. OnItsWay(c)'
    BY <1>1, <2>3, <2>4 DEF OnItsWay
  <2>6. ~shared => ToldRight(c)'
    BY <1>1, <2>3, <2>4, StillTold
  <2>7. QED
    BY <2>3, <2>4, <2>5, <2>6, Assembled DEF Own, DataStep
<1>6. CASE Refuse(c) /\ files' = [files EXCEPT ![f].spoiled = TRUE]
  <2> DEFINE m == [files[f] EXCEPT !.spoiled = TRUE]
  <2>1. m \in Made /\ m.scan = files[f].scan
    BY <1>2 DEF Made
  <2>2. files' = [files EXCEPT ![f] = m]
    BY <1>6
  <2> HIDE DEF m
  <2>3. DataStep
    BY <1>4, <1>6, <2>1, <2>2 DEF Refuse
  <2>4. ClientStep(c) /\ pc'[c] = "refused" /\ got'[c] = got[c]
    <3>1. "refused" \in Phase
      BY DEF Phase
    <3>2. QED
      BY <1>1, <1>2, <1>6, <3>1, Stepped DEF Refuse
  <2>5. OnItsWay(c)'
    BY <2>4 DEF OnItsWay
  <2>6. ~shared => ToldRight(c)'
    BY <1>1, <2>3, <2>4, StillTold
  <2>7. QED
    BY <2>3, <2>4, <2>5, <2>6, Assembled DEF Own, DataStep
<1>7. QED
  BY <1>5, <1>6 DEF WriteFile

\* A download is of what the file shows.
LEMMA StreamStep ==
  ASSUME CInv, NEW c \in Client, Stream(c)
  PROVE  Base' /\ DataStep
<1>0. PICK f, shown : f = got[c].value /\ shown = Shows(f)
  OBVIOUS
<1>1. /\ pc[c] \in {"stream", "rest"} /\ DataInv /\ ask' = ask
      /\ ask[c].do = "download" /\ f \in Format
      /\ UNCHANGED <<load, shared, used, files>>
  BY <1>0, Known DEF Stream, OnItsWay
<1>2. shown \in Scan \union {None}
  BY <1>0, <1>1 DEF Shows, DataInv, Made, NoFile
<1>3. ~shared /\ shown # None => Completed(shown)
  BY <1>0, <1>1 DEF Shows, DataInv, FilesOf, NoFile
<1>4. CASE /\ pc[c] = "stream" /\ got' = [got EXCEPT ![c].begun = shown]
           /\ Goto(c, "rest") /\ UNCHANGED <<stored, seen>>
  <2>1. DataStep
    BY <1>1, <1>4, SessionEnds
  <2>2. PICK g \in Got : g = [got[c] EXCEPT !.begun = shown] /\ got' = [got EXCEPT ![c] = g]
    BY <1>2, <1>4, Learning
  <2>3. g.begun = shown /\ g.value = f
    BY <1>0, <2>2, Known DEF Got
  <2>4. ClientStep(c) /\ pc'[c] = "rest" /\ got'[c] = g
    <3>1. "rest" \in Phase
      BY DEF Phase
    <3>2. pc[c] # "idle" /\ ask' = ask /\ Goto(c, "rest") /\ got' = [got EXCEPT ![c] = g]
      BY <1>1, <1>4, <2>2
    <3>3. QED
      BY <3>1, <3>2, Stepped
  <2>5. OnItsWay(c)'
    BY <1>1, <2>3, <2>4 DEF OnItsWay
  <2>6. ~shared => ToldRight(c)'
    BY <1>1, <1>3, <1>4, <2>3, <2>4 DEF ToldRight, Completed
  <2>7. QED
    BY <2>1, <2>4, <2>5, <2>6, Assembled DEF Own, DataStep
<1>5. CASE /\ pc[c] = "rest"
           /\ got' = [got EXCEPT ![c].value = IF shown = got[c].begun THEN got[c].begun ELSE None]
           /\ Reply(c)
  <2>0. PICK v : v = IF shown = got[c].begun THEN got[c].begun ELSE None
    OBVIOUS
  <2>1. v \in Value /\ (v # None => v = shown)
    BY <1>2, <2>0 DEF Value
  <2>2. DataStep
    BY <1>1, <1>5, SessionEnds DEF Reply
  <2>3. PICK g \in Got : g = [got[c] EXCEPT !.value = v] /\ got' = [got EXCEPT ![c] = g]
    BY <1>5, <2>0, <2>1, Learning
  <2>4. g.value = v
    BY <2>1, <2>3, Known DEF Got
  <2>5. ClientStep(c) /\ pc'[c] = "done" /\ got'[c] = g
    <3>1. "done" \in Phase
      BY DEF Phase
    <3>2. pc[c] # "idle" /\ ask' = ask /\ Goto(c, "done") /\ got' = [got EXCEPT ![c] = g]
      BY <1>1, <1>5, <2>3 DEF Reply
    <3>3. QED
      BY <3>1, <3>2, Stepped
  <2>6. OnItsWay(c)'
    BY <1>1, <2>5 DEF OnItsWay
  <2>7. ASSUME ~shared PROVE ToldRight(c)'
    <3>1. v # None => Completed(v)'
      BY <1>3, <2>1, <2>2, <2>7, StaysCompleted DEF DataStep, DataInv
    <3>2. QED
      BY <1>1, <2>4, <2>5, <3>1 DEF ToldRight
  <2>8. QED
    BY <2>2, <2>5, <2>6, <2>7, Assembled DEF Own, DataStep
<1>6. QED
  BY <1>0, <1>4, <1>5 DEF Stream

LEMMA CountStep ==
  ASSUME CInv, NEW c \in Client, Count(c)
  PROVE  Base' /\ DataStep
<1>1. pc[c] = "count" /\ DataInv /\ ask' = ask /\ ask[c].do = "result"
  BY Known DEF Count, OnItsWay
<1>2. PICK g \in Got : g = [got[c] EXCEPT !.counted = Saved(ask[c].of)] /\ got' = [got EXCEPT ![c] = g]
  BY Learning DEF Count, Saved
<1>3. g.value = got[c].value /\ g.listed = got[c].listed /\ g.counted = Saved(ask[c].of)
  BY <1>2, Known DEF Got
<1>4. ~shared /\ got[c].value = "completed" => Saved(ask[c].of)
  BY <1>1, FindingsAreThere
<1>5. DataStep
  BY <1>1, SessionEnds DEF Count, Reply
<1>6. "done" \in Phase
  BY DEF Phase
<1>7. ClientStep(c) /\ pc'[c] = "done" /\ got'[c] = g
  BY <1>1, <1>2, <1>6, Stepped DEF Count, Reply
<1>8. OnItsWay(c)'
  BY <1>1, <1>7 DEF OnItsWay
<1>9. ~shared => ToldRight(c)'
  BY <1>1, <1>3, <1>4, <1>5, <1>7, Known DEF ToldRight, DataStep, Lasting
<1>10. QED
  BY <1>5, <1>7, <1>8, <1>9, Assembled DEF Own, DataStep

-----------------------------------------------------------------------------
(* Handlers that write *)

\* A scan with a target of its own.
LEMMA BothAreWritable ==
  ASSUME DataInv, NEW id \in TargetId, NEW scan \in Scan, scan \notin used,
         NEW where \in Address, Free(where),
         NEW db, db = [WithTarget(NewTarget(id, where)) EXCEPT !.scans = @ \union {NewScan(scan, id)}]
  PROVE  Writable(db) /\ \A s \in db.scans : s.id \in used \union {scan}
<1> DEFINE row == NewTarget(id, where)
           new == NewScan(scan, id)
           flushed == [targets |-> seen.targets \union {row}, scans |-> seen.scans, reports |-> seen.reports]
<1>1. WithTarget(row) = flushed
  BY WithRows DEF DataInv
<1>2. new \in ScanRows /\ new.id = scan /\ new.target = id /\ new.status = "pending" /\ row.id = id
  BY DEF NewScan, NewTarget, ScanRows, Status, Flag
<1>3. Writable(flushed)
  BY <1>1, TargetIsWritable
<1>4. \A s \in seen.scans : s.id \in used
  BY SeenIsWritable
<1>5. db = [targets |-> seen.targets \union {row}, scans |-> seen.scans \union {new}, reports |-> seen.reports]
  <2>1. db = [flushed EXCEPT !.scans = seen.scans \union {new}]
    BY <1>1
  <2>2. QED
    BY <2>1
<1>6. db.targets = seen.targets \union {row} /\ db.scans = seen.scans \union {new} /\ db.reports = seen.reports
  BY <1>5
<1>7. flushed.targets = seen.targets \union {row} /\ flushed.scans = seen.scans /\ flushed.reports = seen.reports
  OBVIOUS
<1>8. db \in Database
  BY <1>2, <1>3, <1>5, <1>6, <1>7, DatabaseIs DEF Writable
<1> HIDE DEF flushed, new
<1>9. WellKeyed(db)
  <2>1. \A s, r \in db.scans : s.id = r.id => s = r
    BY <1>2, <1>3, <1>4, <1>6, <1>7 DEF Writable, WellKeyed
  <2>2. \A t, u \in db.targets : t.address = u.address => t = u
    BY <1>3, <1>6, <1>7 DEF Writable, WellKeyed
  <2>3. QED
    BY <1>2, <1>3, <1>6, <1>7, <2>1, <2>2 DEF Writable, WellKeyed
<1>10. ~shared => Linked(db) /\ KeepsSettled(db)
  BY <1>2, <1>3, <1>6, <1>7 DEF Writable, Linked, KeepsSettled
<1>11. QED
  BY <1>2, <1>4, <1>6, <1>8, <1>9, <1>10 DEF Writable

LEMMA AddParentStep ==
  ASSUME CInv, NEW c \in Client, AddParent(c)
  PROVE  Base' /\ DataStep
<1> DEFINE id == Fresh(TargetId)
           scan == Fresh(Scan)
           flushed == WithTarget(NewTarget(id, ask[c].of))
<1>1. /\ pc[c] = "parent" /\ DataInv /\ ask' = ask /\ ask[c] \in Request
      /\ ask[c].do = "scan" /\ ask[c].of \in Address /\ used \subseteq Id
  BY Known, RequestParts DEF AddParent, OnItsWay, DataInv
<1>2. TargetId \subseteq Value /\ TargetId \subseteq Id /\ Scan \subseteq Id /\ {"write", "done"} \subseteq Phase
  BY DEF Value, Id, Phase
<1>3. UNCHANGED <<load, shared, files>>
  BY DEF AddParent
<1>4. CASE ~Free(ask[c].of) /\ Refuse(c) /\ UNCHANGED <<used, got>>
  BY <1>1, <1>3, <1>4, RefuseStep
<1>5. CASE /\ Free(ask[c].of) /\ shared /\ Left(TargetId)
           /\ used' = used \union {id}
           /\ got' = [got EXCEPT ![c].value = id]
           /\ seen' = flushed
           /\ Goto(c, "write")
           /\ UNCHANGED stored
  <2>1. id \in TargetId
    BY <1>5, FreshIs
  <2>2. Writable(flushed) /\ flushed.scans = seen.scans
    BY <1>1, <1>5, <2>1, TargetIsWritable, WithRows DEF DataInv
  <2>3. DataStep
    BY <1>1, <1>2, <1>3, <1>5, <2>1, <2>2, Written, SeenIsWritable DEF Flushed
  <2>4. PICK g \in Got : g = [got[c] EXCEPT !.value = id] /\ got' = [got EXCEPT ![c] = g]
    BY <1>2, <1>5, <2>1, Learning
  <2>5. g.value = id
    BY <2>4, Known DEF Got
  <2>6. ClientStep(c) /\ pc'[c] = "write" /\ got'[c] = g
    BY <1>1, <1>2, <1>5, <2>4, Stepped
  <2>7. OnItsWay(c)'
    BY <1>1, <2>1, <2>5, <2>6 DEF OnItsWay
  <2>8. QED
    BY <1>1, <2>3, <2>6, <2>7, NotTold, Assembled DEF Own
<1>6. CASE /\ Free(ask[c].of) /\ ~shared /\ Left(TargetId) /\ Left(Scan)
           /\ used' = used \union {id, scan}
           /\ got' = [got EXCEPT ![c].id = scan]
           /\ Write(c, [flushed EXCEPT !.scans = @ \union {NewScan(scan, id)}], "done")
  <2>1. id \in TargetId /\ scan \in Scan /\ scan \notin used
    BY <1>6, FreshIs
  <2>2. PICK db : /\ db = [flushed EXCEPT !.scans = @ \union {NewScan(scan, id)}]
                  /\ Write(c, db, "done")
    BY <1>6
  <2>3. Writable(db) /\ \A s \in db.scans : s.id \in used \union {scan}
    BY <1>1, <1>6, <2>1, <2>2, BothAreWritable
  <2>4. DataStep
    BY <1>1, <1>2, <1>3, <1>6, <2>1, <2>2, <2>3, Written DEF Flushed, Write
  <2>5. PICK g \in Got : g = [got[c] EXCEPT !.id = scan] /\ got' = [got EXCEPT ![c] = g]
    BY <1>2, <1>6, <2>1, Learning
  <2>6. g.id = scan
    BY <2>5, Known DEF Got
  <2>7. ClientStep(c) /\ pc'[c] = "done" /\ got'[c] = g
    BY <1>1, <1>2, <1>6, <2>2, <2>5, Stepped DEF Write
  <2>8. OnItsWay(c)'
    BY <1>1, <2>1, <2>6, <2>7 DEF OnItsWay
  <2>9. QED
    BY <1>1, <2>4, <2>7, <2>8, NotTold, Assembled DEF Own
<1>7. QED
  BY <1>4, <1>5, <1>6 DEF AddParent

\* What a handler that writes may do: to flush db with all identifiers in use,
\* and to go on to the commit or, on a connection of its own, to next.
LEMMA WriteStep ==
  ASSUME CInv, NEW c \in Client, pc[c] = "write", ask' = ask, UNCHANGED <<load, shared, files>>,
         used \subseteq used', used' \subseteq Id,
         NEW db, Writable(db), \A s \in db.scans : s.id \in used',
         NEW next \in {"refresh", "done"}, Write(c, db, next),
         NEW g \in Got, got' = [got EXCEPT ![c] = g],
         ask[c].do \in {"add", "auto", "delete", "mark", "report", "scan"},
         next = "refresh" => ask[c].do \in {"add", "auto", "report"},
         ask[c].do = "report" => next = "refresh" /\ g.value = got[c].value,
         ask[c].do = "scan" => g.id \in Scan
  PROVE  Base' /\ DataStep
<1>1. DataInv /\ OnItsWay(c)
  BY Known
<1>2. DataStep
  BY <1>1, Written DEF Write, Flushed
<1>3. PICK phase \in {"commit", next} : Goto(c, phase) /\ (phase = "commit" => shared)
  BY DEF Write
<1>4. ClientStep(c) /\ pc'[c] = phase /\ got'[c] = g
  <2>1. phase \in Phase
    BY <1>3 DEF Phase
  <2>2. QED
    BY <1>3, <2>1, Stepped
<1>5. OnItsWay(c)'
  BY <1>1, <1>2, <1>3, <1>4 DEF OnItsWay, DataStep
<1>6. ASSUME ~shared PROVE ToldRight(c)'
  <2>1. CASE ask[c].do = "report"
    BY <1>2, <1>3, <1>4, <1>6, <2>1, StillTold
  <2>2. CASE ask[c].do # "report"
    BY <1>5, <2>2, NotTold
  <2>3. QED
    BY <2>1, <2>2
<1>7. QED
  BY <1>2, <1>4, <1>5, <1>6, Assembled DEF Own, DataStep

LEMMA MarkedRow ==
  ASSUME NEW s \in ScanRows, NEW flag \in Flag, NEW r, r = [s EXCEPT !.mark = flag]
  PROVE  /\ r \in ScanRows /\ r.id = s.id /\ r.target = s.target
         /\ r.status = s.status /\ r.saved = s.saved
  BY DEF ScanRows

LEMMA EndedRow ==
  ASSUME NEW s \in ScanRows, NEW status \in Status, NEW r, r = Ended(s, status)
  PROVE  /\ r \in ScanRows /\ r.id = s.id /\ r.target = s.target
         /\ r.status = status /\ r.saved = (status = "completed")
  BY DEF ScanRows, Ended

LEMMA ChangeStep ==
  ASSUME CInv, NEW c \in Client, Change(c)
  PROVE  Base' /\ DataStep
<1>1. /\ pc[c] = "write" /\ DataInv /\ ask' = ask /\ ask[c] \in Request
      /\ OnItsWay(c) /\ UNCHANGED <<load, shared, files>>
  BY Known DEF Change
<1>2. /\ used \subseteq Id /\ TargetId \subseteq Id /\ Scan \subseteq Id /\ ReportId \subseteq Id
      /\ Flag \subseteq Value
  BY <1>1 DEF Id, DataInv, Value
<1>3. got[c] \in Got /\ got = [got EXCEPT ![c] = got[c]]
  BY Known, Learning
<1>4. CASE AddTarget(c)
  <2> DEFINE id == Fresh(TargetId)
             db == WithTarget(NewTarget(id, ask[c].of))
  <2>1. ask[c].do = "add" /\ ask[c].of \in Address
    BY <1>1, <1>4, RequestParts DEF AddTarget
  <2>2. CASE Free(ask[c].of)
    <3>1. Left(TargetId) /\ Make(c, id) /\ Write(c, db, "refresh")
      BY <1>4, <2>2 DEF AddTarget
    <3>2. id \in TargetId
      BY <3>1, FreshIs
    <3>3. Writable(db) /\ db.scans = seen.scans
      BY <1>1, <2>1, <2>2, <3>2, TargetIsWritable, WithRows DEF DataInv
    <3>4. PICK g \in Got : got' = [got EXCEPT ![c] = g]
      BY <1>2, <3>1, <3>2, Learning DEF Make
    <3>5. used' = used \union {id} /\ \A s \in db.scans : s.id \in used'
      BY <1>1, <3>1, <3>3, SeenIsWritable DEF Make
    <3> HIDE DEF db, id
    <3>6. QED
      BY <1>1, <1>2, <2>1, <3>1, <3>2, <3>3, <3>4, <3>5, WriteStep
  <2>3. CASE ~Free(ask[c].of)
    BY <1>1, <1>4, <2>3, RefuseStep DEF AddTarget
  <2>4. QED
    BY <2>2, <2>3
<1>5. CASE SetAuto(c)
  <2>1. ask[c].do = "auto" /\ ask[c].with \in Flag /\ UNCHANGED <<used, got>>
    BY <1>1, <1>5, RequestParts DEF SetAuto
  <2>2. CASE Goto(c, "refresh") /\ UNCHANGED <<stored, seen>>
    <3>1. DataStep
      BY <1>1, <2>1, <2>2, SessionEnds
    <3>2. ClientStep(c) /\ pc'[c] = "refresh"
      <4>1. "refresh" \in Phase
        BY DEF Phase
      <4>2. QED
        BY <1>1, <1>3, <2>1, <2>2, <4>1, Stepped
    <3>3. OnItsWay(c)'
      BY <1>1, <2>1, <3>2 DEF OnItsWay
    <3>4. QED
      BY <1>1, <2>1, <3>1, <3>2, <3>3, NotTold, Assembled DEF Own
  <2>3. ASSUME NEW t \in Target(ask[c].of), Write(c, WithAuto(t, ask[c].with), "refresh")
        PROVE  Base' /\ DataStep
    <3>1. t \in seen.targets
      BY <2>3 DEF Target
    <3>2. PICK db : db = WithAuto(t, ask[c].with) /\ Write(c, db, "refresh")
      BY <2>3
    <3>3. Writable(db) /\ db.scans = seen.scans
      BY <1>1, <2>1, <3>1, <3>2, AutoIsWritable, WithRows DEF DataInv
    <3>4. \A s \in db.scans : s.id \in used
      BY <1>1, <3>3, SeenIsWritable
    <3>5. QED
      BY <1>1, <1>2, <1>3, <2>1, <3>2, <3>3, <3>4, WriteStep
  <2>4. CASE Refuse(c)
    BY <1>1, <2>1, <2>4, RefuseStep
  <2>5. QED
    BY <1>5, <2>2, <2>3, <2>4 DEF SetAuto
<1>6. CASE DeleteTarget(c)
  <2>1. ask[c].do = "delete" /\ ask[c].of \in TargetId /\ UNCHANGED <<used, got>>
    BY <1>1, <1>6, RequestParts DEF DeleteTarget
  <2>2. CASE Unreferenced(ask[c].of)
    <3>1. PICK db : db = Without(ask[c].of) /\ Write(c, db, "done")
      BY <1>6, <2>2 DEF DeleteTarget
    <3>2. Writable(db) /\ \A s \in db.scans : s.id \in used
      BY <1>1, <2>1, <2>2, <3>1, DeletionIsWritable, SeenIsWritable
    <3>3. QED
      BY <1>1, <1>2, <1>3, <2>1, <3>1, <3>2, WriteStep
  <2>3. CASE ~Unreferenced(ask[c].of)
    BY <1>1, <1>6, <2>1, <2>3, RefuseStep DEF DeleteTarget
  <2>4. QED
    BY <2>2, <2>3
<1>7. CASE MarkFinding(c)
  <2>1. ask[c].do = "mark" /\ UNCHANGED used /\ Other(got[c].value) \in Flag
    BY <1>7 DEF MarkFinding, Other, Flag
  <2>2. PICK g \in Got : got' = [got EXCEPT ![c] = g]
    <3>1. got' = [got EXCEPT ![c].value = Other(got[c].value)]
      BY <1>7, Known DEF MarkFinding
    <3>2. QED
      BY <1>2, <2>1, <3>1, Learning
  <2>3. ASSUME NEW s \in ScanRow(ask[c].of),
               Write(c, WithUpdated(s, [s EXCEPT !.mark = Other(got[c].value)]), "done")
        PROVE  Base' /\ DataStep
    <3>1. s \in seen.scans /\ s \in ScanRows /\ (s.status = "completed" => s.saved)
      BY Rows DEF ScanRow, CInv, Keyed
    <3> DEFINE marked == [s EXCEPT !.mark = Other(got[c].value)]
    <3>2. PICK row : row = marked
      OBVIOUS
    <3>3. /\ row \in ScanRows /\ row.id = s.id /\ row.target = s.target
          /\ row.status = s.status /\ row.saved = s.saved
      BY <2>1, <3>1, <3>2, MarkedRow
    <3>4. PICK db : db = WithUpdated(s, row) /\ Write(c, db, "done")
      BY <2>3, <3>2
    <3>5. Writable(db) /\ \A r \in db.scans : r.id \in used
      BY <1>1, <3>1, <3>3, <3>4, UpdateIsWritable
    <3>6. QED
      BY <1>1, <1>2, <2>1, <2>2, <3>4, <3>5, WriteStep
  <2>4. CASE Refuse(c)
    <3>1. DataStep
      BY <1>1, <2>1, <2>4, SessionEnds DEF Refuse
    <3>2. ClientStep(c) /\ pc'[c] = "refused"
      <4>1. "refused" \in Phase
        BY DEF Phase
      <4>2. QED
        BY <1>1, <2>2, <2>4, <4>1, Stepped DEF Refuse
    <3>3. OnItsWay(c)'
      BY <3>2 DEF OnItsWay
    <3>4. QED
      BY <1>1, <2>1, <3>1, <3>2, <3>3, NotTold, Assembled DEF Own
  <2>5. QED
    BY <1>7, <2>3, <2>4 DEF MarkFinding
<1>8. CASE SaveReport(c)
  <2> DEFINE id == Fresh(ReportId)
             row == [id |-> id, scan |-> ask[c].of, format |-> ask[c].with]
  <2>1. /\ ask[c].do = "report" /\ ask[c].of \in Scan /\ ask[c].with \in Format
        /\ Left(ReportId) /\ Make(c, id) /\ Write(c, WithReport(row), "refresh")
    BY <1>1, <1>8, RequestParts DEF SaveReport
  <2>2. id \in ReportId
    BY <2>1, FreshIs
  <2>3. row \in ReportRow /\ files[row.format] # NoFile
    BY <1>1, <2>1, <2>2 DEF ReportRow, OnItsWay
  <2>4. Writable(WithReport(row)) /\ WithReport(row).scans = seen.scans
    BY <1>1, <2>3, ReportIsWritable
  <2>5. PICK g \in Got : g = [got[c] EXCEPT !.id = id] /\ got' = [got EXCEPT ![c] = g]
    BY <1>2, <2>1, <2>2, Learning DEF Make
  <2>6. g.value = got[c].value
    BY <1>3, <2>5 DEF Got
  <2>7. used' = used \union {id} /\ \A s \in WithReport(row).scans : s.id \in used'
    BY <1>1, <2>1, <2>4, SeenIsWritable DEF Make
  <2> HIDE DEF id, row
  <2>8. QED
    BY <1>1, <1>2, <2>1, <2>2, <2>4, <2>5, <2>6, <2>7, WriteStep
<1>9. CASE AddScan(c)
  <2> DEFINE id == Fresh(Scan)
             db == WithScan(NewScan(id, got[c].value))
  <2>1. ask[c].do = "scan" /\ got[c].value \in TargetId
    BY <1>1, <1>9 DEF AddScan, OnItsWay
  <2>2. CASE shared \/ Target(got[c].value) # {}
    <3>1. Left(Scan) /\ Make(c, id) /\ Write(c, db, "done")
      BY <1>9, <2>2 DEF AddScan
    <3>2. id \in Scan /\ id \notin used
      BY <3>1, FreshIs
    <3>3. Writable(db) /\ \A s \in db.scans : s.id \in used \union {id}
      BY <1>1, <2>1, <2>2, <3>2, ScanIsWritable
    <3>4. PICK g \in Got : g = [got[c] EXCEPT !.id = id] /\ got' = [got EXCEPT ![c] = g]
      BY <1>2, <3>1, <3>2, Learning DEF Make
    <3>5. g.id = id
      BY <1>3, <3>4 DEF Got
    <3>6. used' = used \union {id}
      BY <3>1 DEF Make
    <3> HIDE DEF db, id
    <3>7. QED
      BY <1>1, <1>2, <2>1, <3>1, <3>2, <3>3, <3>4, <3>5, <3>6, WriteStep
  <2>3. CASE ~(shared \/ Target(got[c].value) # {})
    BY <1>1, <1>9, <2>3, RefuseStep DEF AddScan
  <2>4. QED
    BY <2>2, <2>3
<1>10. QED
  BY <1>4, <1>5, <1>6, <1>7, <1>8, <1>9 DEF Change

LEMMA CommitStep ==
  ASSUME CInv, NEW c \in Client, Commit(c)
  PROVE  Base' /\ DataStep
<1>1. pc[c] = "commit" /\ DataInv /\ ask' = ask /\ ask[c] \in Request /\ OnItsWay(c)
  BY Known DEF Commit
<1>2. DataStep
  BY <1>1, SessionEnds DEF Commit
<1>3. PICK phase \in {"refresh", "done"} :
        Goto(c, phase) /\ (phase = "refresh" <=> ask[c].do \in {"add", "auto", "report"})
  BY DEF Commit
<1>4. got[c] \in Got /\ got' = [got EXCEPT ![c] = got[c]] /\ phase \in Phase
  BY Known, Learning DEF Commit, Phase
<1>5. ClientStep(c) /\ pc'[c] = phase /\ got'[c] = got[c]
  BY <1>1, <1>3, <1>4, Stepped
<1>6. OnItsWay(c)'
  <2>1. files' = files
    BY DEF Commit
  <2>2. QED
    BY <1>1, <1>3, <1>5, <2>1 DEF OnItsWay
<1>7. ~shared => ToldRight(c)'
  <2>1. ask[c].do \notin {"poll", "result", "download"}
    BY <1>1 DEF OnItsWay
  <2>2. QED
    BY <1>1, <1>2, <1>3, <1>5, <2>1, StillTold
<1>8. QED
  BY <1>2, <1>5, <1>6, <1>7, Assembled DEF Own, DataStep

LEMMA RefreshStep ==
  ASSUME CInv, NEW c \in Client, Refresh(c)
  PROVE  Base' /\ DataStep
<1>1. /\ pc[c] = "refresh" /\ DataInv /\ ask' = ask /\ ask[c] \in Request
      /\ ask[c].do \in {"add", "auto", "report"} /\ UNCHANGED <<load, shared, used, files>>
  BY Known DEF Refresh, OnItsWay
<1>2. CASE Refuse(c) /\ UNCHANGED got
  BY <1>1, <1>2, RefuseStep
<1>3. CASE /\ StillThere(c)
           /\ got' = IF ask[c].do = "auto"
                       THEN [got EXCEPT ![c].value = (CHOOSE t \in Target(ask[c].of) : TRUE).auto]
                       ELSE got
           /\ Reply(c)
  <2>1. DataStep
    BY <1>1, <1>3, SessionEnds DEF Reply
  <2>2. PICK g \in Got : /\ got' = [got EXCEPT ![c] = g]
                         /\ ask[c].do = "report" => g.value = got[c].value
    <3>1. CASE ask[c].do = "auto"
      <4>1. PICK t \in Target(ask[c].of) : t = CHOOSE u \in Target(ask[c].of) : TRUE
        BY <1>3, <3>1 DEF StillThere
      <4>2. t.auto \in Value
        BY Rows DEF Target, TargetRow, Value
      <4>3. got' = [got EXCEPT ![c].value = t.auto]
        BY <1>3, <3>1, <4>1
      <4>4. QED
        BY <3>1, <4>2, <4>3, Learning
    <3>2. CASE ask[c].do # "auto"
      BY <1>3, <3>2, Known, Learning
    <3>3. QED
      BY <3>1, <3>2
  <2>3. ClientStep(c) /\ pc'[c] = "done" /\ got'[c] = g
    <3>1. "done" \in Phase
      BY DEF Phase
    <3>2. QED
      BY <1>1, <1>3, <2>2, <3>1, Stepped DEF Reply
  <2>4. OnItsWay(c)'
    BY <1>1, <2>3 DEF OnItsWay
  <2>5. ASSUME ~shared PROVE ToldRight(c)'
    <3>1. CASE ask[c].do = "report"
      BY <1>1, <2>1, <2>2, <2>3, <2>5, <3>1, StillTold
    <3>2. CASE ask[c].do # "report"
      BY <1>1, <2>4, <3>2, NotTold
    <3>3. QED
      BY <3>1, <3>2
  <2>6. QED
    BY <2>1, <2>3, <2>4, <2>5, Assembled DEF Own, DataStep
<1>4. QED
  BY <1>2, <1>3 DEF Refresh

LEMMA HandleStep ==
  ASSUME CInv, NEW c \in Client, Handle(c)
  PROVE  Base' /\ DataStep
BY ReadStep, ResolveStep, FindingsStep, CountStep, WriteFileStep, StreamStep, AddParentStep,
   ChangeStep, CommitStep, RefreshStep DEF Handle

\* A client's request is one of its workload.
LEMMA AskStep ==
  ASSUME CInv, NEW c \in Client, Ask(c)
  PROVE  Base' /\ DataStep
<1>1. PICK request \in load.asks[c] : Send(c, request)
  BY DEF Ask
<1>2. load \in [asks : [Client -> SUBSET Request], ids : SUBSET Id]
  BY WorkloadAssumption DEF CInv, TypeOK
<1>3. request \in Request
  BY <1>2
<1>4. QED
  BY <1>1, <1>3, SendStep

-----------------------------------------------------------------------------
(* Executors *)

\* An executor's step changes no request.
LEMMA ExecutorLeavesClients ==
  ASSUME CInv, DataStep, NEW id \in Scan, NEW phase \in Phase, Goto(id, phase),
         UNCHANGED <<ask, got>>
  PROVE  Base' /\ DataStep
<1>1. pc \in [Actor -> Phase] /\ id \in Actor /\ Client \subseteq Actor /\ id \notin Client
  BY NamesAssumption DEF CInv, TypeOK, Actor
<1>2. pc' \in [Actor -> Phase] /\ \A d \in Client : pc'[d] = pc[d]
  BY <1>1 DEF Goto
<1>3. \A d \in Client : Own(d)'
  BY <1>2, Others
<1>4. Clients'
  BY <1>1, <1>2, CInvIs DEF Base, Clients
<1>5. DataInv'
  BY DEF DataStep
<1>6. QED
  BY <1>3, <1>4, <1>5 DEF Base

LEMMA ExecutorStep ==
  ASSUME CInv, NEW id \in Scan, Execute(id) \/ ExecutorCommits(id)
  PROVE  Base' /\ DataStep
<1>1. DataInv /\ {"commit", "idle"} \subseteq Phase
  BY CInvIs DEF Base, Phase
<1>2. CASE Execute(id)
  <2>1. PICK s \in ScanRow(id), status \in Status :
          Moves(s.status, status) /\ Write(id, WithUpdated(s, Ended(s, status)), "idle")
    BY <1>2 DEF Execute
  <2>2. s \in seen.scans /\ s \in ScanRows
    BY Rows DEF ScanRow
  <2>3. PICK row : row = Ended(s, status)
    OBVIOUS
  <2>4. /\ row \in ScanRows /\ row.id = s.id /\ row.target = s.target
        /\ row.status = status /\ row.saved = (status = "completed")
    BY <2>2, <2>3, EndedRow
  <2>5. s.status \notin Settled
    BY <2>1 DEF Moves, Settled
  <2>6. PICK db : db = WithUpdated(s, row) /\ Write(id, db, "idle")
    BY <2>1, <2>3
  <2>7. Writable(db) /\ \A r \in db.scans : r.id \in used
    BY <1>1, <2>2, <2>4, <2>5, <2>6, UpdateIsWritable
  <2>8. UNCHANGED <<load, shared, used, files, ask, got>>
    BY <1>2 DEF Execute
  <2>9. DataStep
    BY <1>1, <2>6, <2>7, <2>8, Written DEF Write, Flushed, DataInv
  <2>10. PICK phase \in Phase : Goto(id, phase)
    BY <1>1, <2>6 DEF Write
  <2>11. QED
    BY <2>8, <2>9, <2>10, ExecutorLeavesClients
<1>3. CASE ExecutorCommits(id)
  <2>1. DataStep
    BY <1>1, <1>3, SessionEnds DEF ExecutorCommits
  <2>2. QED
    BY <1>1, <1>3, <2>1, ExecutorLeavesClients DEF ExecutorCommits
<1>4. QED
  BY <1>2, <1>3

\* Who leaves the files alone and is not writing one leaves them as they are.
LEMMA FilesRest ==
  ASSUME CInv, ~shared, files' = files,
         \A c \in Client : pc[c] = "file" => pc'[c] = "file" /\ ask'[c] = ask[c]
  PROVE  FilesWhole'
<1>1. ASSUME NEW f \in Format, Writing(f) # {} PROVE Writing(f)' # {}
  <2>1. PICK c \in Client : pc[c] = "file" /\ ask[c].with = f
    BY <1>1 DEF Writing
  <2>2. pc'[c] = "file" /\ ask'[c].with = f
    BY <2>1
  <2>3. QED
    BY <2>2 DEF Writing
<1>2. FilesWhole
  BY CInvIs
<1>3. QED
  BY <1>1, <1>2 DEF FilesWhole

\* A file that is opened is being written, and the last who writes it leaves it
\* whole or spoiled.
LEMMA HandledFiles ==
  ASSUME CInv, ~shared, NEW c \in Client, Handle(c)
  PROVE  FilesWhole'
<1>1. /\ DataInv /\ c \in Actor /\ pc \in [Actor -> Phase] /\ Client \subseteq Actor
      /\ OnItsWay(c) /\ ToldRight(c) /\ ask' = ask
      /\ pc[c] # "idle" => ask[c] \in Request
  BY Known DEF Actor, Handle, Read, Resolve, Findings, Count, WriteFile, Stream, AddParent, Change,
               Commit, Refresh
<1>2. \A d \in Client : d # c => pc'[d] = pc[d]
  BY <1>1 DEF Handle, Read, Resolve, Findings, Count, WriteFile, Stream, AddParent, Change, AddTarget,
              SetAuto, DeleteTarget, MarkFinding, SaveReport, AddScan, Commit, Refresh, Write, Refuse,
              Reply, Goto
<1>3. CASE pc[c] # "file" /\ files' = files
  BY <1>1, <1>2, <1>3, FilesRest
<1>4. CASE WriteFile(c)
  <2>0. PICK f : f = ask[c].with
    OBVIOUS
  <2>1. /\ f \in Format /\ files[f] \in Made /\ pc[c] = "file" /\ got[c].listed
        /\ ask[c].do = "report"
    BY <1>1, <1>4, <2>0, RequestParts DEF WriteFile, OnItsWay, ToldRight, DataInv
  <2>2. ASSUME NEW g \in Format, g # f
        PROVE  files'[g] = files[g] /\ Writing(g)' = Writing(g)
    <3>1. files'[g] = files[g]
      BY <1>1, <1>4, <2>0, <2>1, <2>2 DEF WriteFile, DataInv
    <3>2. \A d \in Client : d \in Writing(g)' <=> d \in Writing(g)
      BY <1>1, <1>2, <2>0, <2>2 DEF Writing
    <3>3. QED
      BY <3>1, <3>2 DEF Writing
  <2>3. files'[f].spoiled \/ files'[f].whole
    <3>1. CASE files' = [files EXCEPT ![f].spoiled = TRUE]
      BY <1>1, <2>1, <3>1 DEF DataInv, Made
    <3>2. CASE files' = [files EXCEPT ![f].whole = got[c].listed /\ ~files[f].spoiled]
      <4>1. files'[f] = [files[f] EXCEPT !.whole = got[c].listed /\ ~files[f].spoiled]
        BY <1>1, <2>1, <3>2 DEF DataInv
      <4>2. files'[f].spoiled = files[f].spoiled /\ files'[f].whole = (got[c].listed /\ ~files[f].spoiled)
        BY <2>1, <4>1 DEF Made
      <4>3. QED
        BY <2>1, <4>2
    <3>3. QED
      BY <1>4, <2>0, <3>1, <3>2 DEF WriteFile
  <2>4. QED
    BY <2>2, <2>3, CInvIs DEF FilesWhole
<1>5. CASE Findings(c) /\ ask[c].do = "report" /\ Goto(c, "file") /\ Open(ask[c])
  <2>0. PICK f : f = ask[c].with
    OBVIOUS
  <2>1. f \in Format /\ pc[c] = "findings" /\ pc'[c] = "file"
    BY <1>1, <1>5, <2>0, RequestParts DEF Findings, Goto
  <2>2. ASSUME NEW g \in Format, g # f
        PROVE  files'[g] = files[g] /\ Writing(g)' = Writing(g)
    <3>1. files'[g] = files[g]
      BY <1>1, <1>5, <2>0, <2>1, <2>2 DEF Open, DataInv
    <3>2. \A d \in Client : d \in Writing(g)' <=> d \in Writing(g)
      BY <1>1, <1>2, <2>0, <2>2 DEF Writing
    <3>3. QED
      BY <3>1, <3>2 DEF Writing
  <2>3. c \in Writing(f)'
    BY <1>1, <2>0, <2>1 DEF Writing
  <2>4. QED
    BY <2>2, <2>3, CInvIs DEF FilesWhole
<1>6. \/ pc[c] # "file" /\ files' = files
      \/ WriteFile(c)
      \/ Findings(c) /\ ask[c].do = "report" /\ Goto(c, "file") /\ Open(ask[c])
  <2>1. CASE Findings(c)
    <3>1. pc[c] = "findings"
      BY <2>1 DEF Findings
    <3>2. CASE files' = files
      BY <3>1, <3>2
    <3>3. CASE ask[c].do = "report" /\ Goto(c, "file") /\ Open(ask[c])
      BY <2>1, <3>3
    <3>4. QED
      BY <2>1, <3>2, <3>3 DEF Findings
  <2>2. CASE Read(c)
    BY <2>2 DEF Read
  <2>3. CASE Resolve(c)
    BY <2>3 DEF Resolve
  <2>4. CASE Count(c)
    BY <2>4 DEF Count
  <2>5. CASE Stream(c)
    BY <2>5 DEF Stream
  <2>6. CASE AddParent(c)
    BY <2>6 DEF AddParent
  <2>7. CASE Change(c)
    BY <2>7 DEF Change
  <2>8. CASE Commit(c)
    BY <2>8 DEF Commit
  <2>9. CASE Refresh(c)
    BY <2>9 DEF Refresh
  <2>10. QED
    BY <2>1, <2>2, <2>3, <2>4, <2>5, <2>6, <2>7, <2>8, <2>9 DEF Handle
<1>7. QED
  BY <1>3, <1>4, <1>5, <1>6

LEMMA NextCInv == CInv /\ [Next]_vars => CInv' /\ DataStep
<1> SUFFICES ASSUME CInv, [Next]_vars PROVE CInv' /\ DataStep
  OBVIOUS
<1>1. pc \in [Actor -> Phase] /\ DOMAIN ask = Client /\ Client \subseteq Actor
  BY DEF CInv, TypeOK, Actor
<1>2. ASSUME Base', DataStep, ~shared => FilesWhole' PROVE CInv' /\ DataStep
  BY <1>2 DEF DataStep, CInv, Base, TypeOK, DataInv, Clients, Own, Got, Linked
<1>3. CASE UNCHANGED vars
  <2>1. CInv'
    BY <1>3 DEF vars, CInv, TypeOK, Keyed, OnItsWay, ToldRight, FilesOf, FilesWhole, Writing, Completed
  <2>2. DataStep
    BY <1>3, CInvIs, SessionEnds DEF vars, Base
  <2>3. QED
    BY <2>1, <2>2
<1>4. ASSUME NEW c \in Client, Ask(c) PROVE CInv' /\ DataStep
  <2>1. files' = files /\ \A d \in Client : pc[d] = "file" => pc'[d] = "file" /\ ask'[d] = ask[d]
    BY <1>1, <1>4 DEF Ask, Send, Goto
  <2>2. QED
    BY <1>2, <1>4, <2>1, AskStep, FilesRest
<1>5. ASSUME NEW c \in Client, Handle(c) PROVE CInv' /\ DataStep
  BY <1>2, <1>5, HandleStep, HandledFiles
<1>6. ASSUME NEW s \in Scan, Execute(s) \/ ExecutorCommits(s) PROVE CInv' /\ DataStep
  <2>1. /\ files' = files /\ ask' = ask
        /\ \A d \in Client : pc[d] = "file" => pc'[d] = "file"
    BY <1>1, <1>6, NamesAssumption DEF Execute, ExecutorCommits, Write, Goto
  <2>2. QED
    BY <1>2, <1>6, <2>1, ExecutorStep, FilesRest
<1>7. QED
  BY <1>3, <1>4, <1>5, <1>6 DEF Next

-----------------------------------------------------------------------------
(* Theorems about the console *)

\* What the endpoints keep among the rows, the files, the requests under way
\* and what their handlers have read, for any clients and workloads.
THEOREM ConsoleInvariance == Spec => []CInv
<1>1. Init => CInv
  BY InitCInv
<1>2. CInv /\ [Next]_vars => CInv'
  BY NextCInv
<1>3. QED
  BY <1>1, <1>2, PTL DEF Spec

\* The variables of the endpoints keep their types.
THEOREM ConsoleTypes == Spec => []TypeOK
<1>1. CInv => TypeOK
  BY DEF CInv
<1>2. QED
  BY <1>1, ConsoleInvariance, PTL

LEMMA CInvGives == CInv => Registered /\ Whole /\ ReportsWhole
<1> SUFFICES ASSUME CInv PROVE Registered /\ Whole /\ ReportsWhole
  OBVIOUS
<1>1. Registered
  BY DEF CInv, Keyed, Registered
<1>2. Whole
  BY DEF CInv, ToldRight, Whole
<1>3. ReportsWhole
  BY DEF CInv, Keyed, FilesOf, FilesWhole, ToldRight, ReportsWhole
<1>4. QED
  BY <1>1, <1>2, <1>3

\* However add_target, initiate_scan and delete_target interleave, an address
\* has one target, and with foreign keys a scan keeps its target.
THEOREM AddressesAreRegistered == Spec => []Registered
BY ConsoleInvariance, CInvGives, PTL

\* What get_scan_status and get_full_result say of a completed scan, in
\* several reads, has all its findings.
THEOREM AnswersAreWhole == Spec => []Whole
BY ConsoleInvariance, CInvGives, PTL

\* A report that is listed has a file; one that generate_report wrote to its end,
\* and no other process at the same time, is of a completed scan with all its
\* findings, and so is what download_report delivers in one piece.
THEOREM ReportsAreWhole == Spec => []ReportsWhole
BY ConsoleInvariance, CInvGives, PTL

\* The step that answers a request, on a connection of its own or after the
\* row was read back, leaves what the answer says in the committed database.
LEMMA HandledStands ==
  ASSUME CInv, NEW c \in Client, Handle(c),
         pc[c] # "done", pc'[c] = "done", shared => pc[c] = "refresh"
  PROVE  Stands(c, stored)'
<1>1. c \in Actor /\ pc \in [Actor -> Phase] /\ got \in [Client -> Got] /\ got[c] \in Got
      /\ OnItsWay(c) /\ DataInv
  BY Known
<1>2. ASSUME NEW phase, Goto(c, phase) PROVE phase = "done"
  BY <1>1, <1>2 DEF Goto
<1>3. seen \in Database
  BY <1>1 DEF DataInv
<1>4. CASE Read(c) \/ Resolve(c) \/ Findings(c) \/ Count(c) \/ WriteFile(c) \/ Stream(c)
  <2>1. ask' = ask /\ ask[c].do \in {"poll", "result", "download"}
    <3>1. CASE Read(c)
      BY <1>2, <3>1 DEF Read, Refuse, AfterRead
    <3>2. CASE Resolve(c)
      BY <1>2, <3>2 DEF Resolve, Refuse
    <3>3. CASE Findings(c)
      BY <1>2, <3>3 DEF Findings, Refuse
    <3>4. CASE Count(c)
      BY <1>1, <3>4 DEF Count, OnItsWay
    <3>5. CASE WriteFile(c)
      BY <1>2, <3>5 DEF WriteFile, Refuse
    <3>6. CASE Stream(c)
      BY <1>1, <3>6 DEF Stream, OnItsWay
    <3>7. QED
      BY <1>4, <3>1, <3>2, <3>3, <3>4, <3>5, <3>6
  <2>2. QED
    BY <2>1 DEF Stands
<1>5. CASE AddParent(c)
  <2> DEFINE id == Fresh(TargetId)
             scan == Fresh(Scan)
             flushed == WithTarget(NewTarget(id, ask[c].of))
  <2>1. /\ ask' = ask /\ ask[c].do = "scan" /\ ~shared
        /\ got' = [got EXCEPT ![c].id = scan]
        /\ Write(c, [flushed EXCEPT !.scans = @ \union {NewScan(scan, id)}], "done")
    BY <1>1, <1>2, <1>5 DEF AddParent, Refuse, OnItsWay
  <2>2. stored' = [flushed EXCEPT !.scans = @ \union {NewScan(scan, id)}]
    BY <2>1 DEF Write
  <2>3. "scans" \in DOMAIN flushed
    BY <1>3, WithRows
  <2>4. NewScan(scan, id) \in stored'.scans /\ NewScan(scan, id).id = scan
    BY <2>2, <2>3 DEF NewScan
  <2>5. got'[c].id = scan
    BY <1>1, <2>1 DEF Got
  <2>6. QED
    BY <2>1, <2>4, <2>5 DEF Stands
<1>6. CASE Change(c)
  <2>1. ask' = ask /\ pc[c] = "write" /\ ~shared
    BY <1>6 DEF Change
  <2>2. CASE DeleteTarget(c)
    <3>1. ask[c].do = "delete" /\ stored' = Without(ask[c].of)
      BY <1>2, <2>1, <2>2 DEF DeleteTarget, Write, Refuse
    <3>2. stored'.targets = seen.targets \ Target(ask[c].of)
      BY <1>3, <3>1, WithRows
    <3>3. QED
      BY <2>1, <3>1, <3>2 DEF Stands, Target
  <2>3. CASE MarkFinding(c)
    <3>1. ask[c].do = "mark" /\ got' = [got EXCEPT ![c].value = Other(got[c].value)]
      BY <1>1, <2>3 DEF MarkFinding
    <3>2. PICK s \in ScanRow(ask[c].of) :
            stored' = WithUpdated(s, [s EXCEPT !.mark = Other(got[c].value)])
      BY <1>2, <2>1, <2>3 DEF MarkFinding, Write, Refuse
    <3>3. PICK row : row = [s EXCEPT !.mark = Other(got[c].value)]
      OBVIOUS
    <3>4. s \in ScanRows /\ s.id = ask[c].of /\ Other(got[c].value) \in Flag
      BY Rows DEF ScanRow, Other, Flag
    <3>5. row.id = ask[c].of /\ row.mark = Other(got[c].value)
      BY <3>3, <3>4 DEF ScanRows
    <3>6. row \in stored'.scans
      BY <1>3, <3>2, <3>3, WithRows
    <3>7. got'[c].value = Other(got[c].value)
      BY <1>1, <3>1 DEF Got
    <3>8. QED
      BY <2>1, <3>1, <3>5, <3>6, <3>7 DEF Stands
  <2>4. CASE AddScan(c)
    <3> DEFINE id == Fresh(Scan)
    <3>1. /\ ask[c].do = "scan" /\ got' = [got EXCEPT ![c].id = id]
          /\ stored' = WithScan(NewScan(id, got[c].value))
      BY <1>2, <2>1, <2>4 DEF AddScan, Make, Write, Refuse
    <3>2. NewScan(id, got[c].value) \in stored'.scans /\ NewScan(id, got[c].value).id = id
      BY <1>3, <3>1, WithRows DEF NewScan
    <3>3. got'[c].id = id
      BY <1>1, <3>1 DEF Got
    <3>4. QED
      BY <2>1, <3>1, <3>2, <3>3 DEF Stands
  <2>5. CASE AddTarget(c) \/ SetAuto(c) \/ SaveReport(c)
    <3>1. pc'[c] \in {"refresh", "refused"}
      BY <1>2, <2>1, <2>5 DEF AddTarget, SetAuto, SaveReport, Write, Refuse
    <3>2. QED
      BY <3>1
  <2>6. QED
    BY <1>6, <2>2, <2>3, <2>4, <2>5 DEF Change
<1>7. CASE Commit(c)
  BY <1>1, <1>7 DEF Commit, OnItsWay
<1>8. CASE Refresh(c)
  <2>1. /\ pc[c] = "refresh" /\ ask' = ask /\ StillThere(c) /\ stored' = seen
        /\ got' = IF ask[c].do = "auto"
                    THEN [got EXCEPT ![c].value = (CHOOSE t \in Target(ask[c].of) : TRUE).auto]
                    ELSE got
    BY <1>2, <1>8 DEF Refresh, Refuse, Reply
  <2>2. ask[c].do \in {"add", "auto", "report"}
    BY <1>1, <2>1 DEF OnItsWay
  <2>3. CASE ask[c].do = "auto"
    <3>1. PICK t \in Target(ask[c].of) : t = CHOOSE u \in Target(ask[c].of) : TRUE
      BY <2>1, <2>3 DEF StillThere
    <3>2. got'[c].value = t.auto
      BY <1>1, <2>1, <2>3, <3>1 DEF Got
    <3>3. QED
      BY <2>1, <2>3, <3>1, <3>2 DEF Stands, Target
  <2>4. CASE ask[c].do \in {"add", "report"}
    BY <2>1, <2>4 DEF Stands, StillThere, Target, Report
  <2>5. QED
    BY <2>2, <2>3, <2>4
<1>9. QED
  BY <1>4, <1>5, <1>6, <1>7, <1>8 DEF Handle

LEMMA AcknowledgedStep ==
  ASSUME CInv, [Next]_vars, NEW c \in Client,
         pc[c] # "done", pc'[c] = "done", shared => pc[c] = "refresh"
  PROVE  Stands(c, stored)'
<1>1. pc \in [Actor -> Phase] /\ Actor = Client \union Scan
  BY DEF CInv, TypeOK, Actor
<1>2. ASSUME NEW a \in Actor, NEW phase, Goto(a, phase) PROVE a = c /\ phase = "done"
  BY <1>1, <1>2 DEF Goto
<1>3. ASSUME NEW d \in Client, Ask(d) PROVE FALSE
  BY <1>1, <1>2, <1>3 DEF Ask, Send
<1>4. ASSUME NEW s \in Scan, Execute(s) \/ ExecutorCommits(s) PROVE FALSE
  BY <1>1, <1>2, <1>4, NamesAssumption DEF Execute, ExecutorCommits, Write
<1>5. ASSUME NEW d \in Client, Handle(d) PROVE d = c
  <2>1. \E phase : Goto(d, phase)
    BY <1>5 DEF Handle, Read, Resolve, Findings, Count, WriteFile, Stream, AddParent, Change, AddTarget, SetAuto,
                DeleteTarget, MarkFinding, SaveReport, AddScan, Commit, Refresh, Write, Refuse, Reply
  <2>2. QED
    BY <1>1, <1>2, <2>1
<1>6. \E d \in Client : Handle(d)
  BY <1>3, <1>4 DEF Next, vars
<1>7. QED
  BY <1>5, <1>6, HandledStands

\* What a handler acknowledges is committed: on a connection of its own always,
\* on the shared one if db.refresh has read the row back.
THEOREM AcknowledgementsStand == Spec => Acknowledged
<1>1. CInv /\ [Next]_vars =>
        [\A c \in Client : pc[c] # "done" /\ pc'[c] = "done" /\ (shared => pc[c] = "refresh")
                             => Stands(c, stored)']_vars
  BY AcknowledgedStep
<1>2. QED
  BY <1>1, ConsoleInvariance, PTL DEF Spec, Acknowledged

-----------------------------------------------------------------------------
(* The dashboard *)

LEMMA SubmitAsks ==
  ASSUME NEW p \in Page, NEW request, Submit(p, request)
  PROVE  Ask(p) /\ p \in Client
  BY PageAssumption DEF Submit, Ask

\* A step of a page is a request to the console, or none of its business.
LEMMA PageStepAsks ==
  ASSUME NEW p \in Page,
         Launch(p) \/ Follow(p) \/ List(p) \/ Toggle(p) \/ Generate(p) \/ Rerun(p) \/ Download(p)
  PROVE  UNCHANGED vars \/ Ask(p)
<1>1. CASE Launch(p)
  BY <1>1, SubmitAsks DEF Launch
<1>2. CASE Follow(p)
  BY <1>2, SubmitAsks DEF Follow, Queued, Poll, Polled, Ending, Loaded, Explained
<1>3. CASE List(p) \/ Rerun(p)
  BY <1>3 DEF List, Rerun
<1>4. CASE Toggle(p) \/ Generate(p) \/ Download(p)
  BY <1>4, SubmitAsks DEF Toggle, Generate, Download
<1>5. QED
  BY <1>1, <1>2, <1>3, <1>4

LEMMA PNextIsNext == [PNext]_pageVars => [Next]_vars
<1> SUFFICES ASSUME [PNext]_pageVars PROVE [Next]_vars
  OBVIOUS
<1>1. CASE UNCHANGED pageVars
  BY <1>1 DEF pageVars, vars
<1>2. ASSUME NEW p \in Page,
             Launch(p) \/ Follow(p) \/ List(p) \/ Toggle(p) \/ Generate(p) \/ Rerun(p) \/ Download(p)
      PROVE  [Next]_vars
  <2>1. p \in Client
    BY PageAssumption
  <2>2. QED
    BY <1>2, <2>1, PageStepAsks DEF Next
<1>3. CASE \/ \E c \in Client \ Page : Ask(c)
           \/ \E c \in Client : Handle(c)
           \/ \E s \in Scan : Execute(s) \/ ExecutorCommits(s)
  BY <1>3 DEF Next
<1>4. QED
  BY <1>1, <1>2, <1>3 DEF PNext

\* The pages use the API as any client may.
THEOREM DashboardImplementsConsole == PSpec => Spec
<1>1. PInit => Init
  BY DEF PInit
<1>2. QED
  BY <1>1, PNextIsNext, PTL DEF PSpec, Spec

PageRow == [at : At, scan : Scan \union {None}, polls : 0..MaxPolls,
            verdict : Status \union {"unknown"},
            shows : {"nothing", "findings", "no findings"},
            failed : BOOLEAN,
            listed : SUBSET ((Scan \X {"completed"}) \union (TargetId \X Flag))]

\* What is said of one page.
PageOwn(p) ==
  /\ Waiting(p)
  /\ ~shared /\ page[p].verdict \in {"completed", "failed"} =>
       \E s \in stored.scans : s.id = page[p].scan /\ s.status = page[p].verdict
  /\ ~shared /\ page[p].shows = "no findings" => page[p].failed

LEMMA PInvIs == PInv <=> CInv /\ page \in [Page -> PageRow] /\ \A p \in Page : PageOwn(p)
  BY DEF PInv, PTypeOK, PageRow, VerdictTrue, FindingsShown, PageOwn

LEMMA BlankIs ==
  /\ Blank \in PageRow /\ [Blank EXCEPT !.at = "posted"] \in PageRow
  /\ Blank.at = "open" /\ Blank.verdict = "unknown" /\ Blank.shows = "nothing"
  /\ LET b == [Blank EXCEPT !.at = "posted"]
     IN b.at = "posted" /\ b.polls = 0 /\ b.verdict = "unknown" /\ b.shows = "nothing"
  /\ \A l \in SUBSET ((Scan \X {"completed"}) \union (TargetId \X Flag)) :
       LET b == [Blank EXCEPT !.listed = l]
       IN b \in PageRow /\ b.at = "open" /\ b.verdict = "unknown" /\ b.shows = "nothing"
<1>1. 0 \in 0..MaxPolls
  BY PageAssumption
<1>2. QED
  BY <1>1 DEF Blank, PageRow, At

LEMMA InitPInv == PInit => PInv
<1> SUFFICES ASSUME PInit PROVE PInv
  OBVIOUS
<1>1. CInv
  BY InitCInv DEF PInit
<1>2. \A p \in Page : page[p] = Blank
  BY DEF PInit
<1>3. page \in [Page -> PageRow]
  BY BlankIs DEF PInit
<1>4. \A p \in Page : PageOwn(p)
  BY <1>2, BlankIs DEF PageOwn, Waiting
<1>5. QED
  BY <1>1, <1>3, <1>4, PInvIs

\* What a page shows of a scan that has ended stays so.
LEMMA GoesOn ==
  ASSUME PInv, DataStep, NEW p \in Page, Waiting(p)',
         page'[p].scan = page[p].scan, page'[p].verdict = page[p].verdict,
         page'[p].shows = page[p].shows, page'[p].failed = page[p].failed
  PROVE  PageOwn(p)'
<1>1. PageOwn(p) /\ shared' = shared
  BY PInvIs DEF DataStep
<1>2. ASSUME ~shared, page[p].verdict \in {"completed", "failed"}
      PROVE  \E s \in stored'.scans : s.id = page[p].scan /\ s.status = page[p].verdict
  <2>1. PICK s \in stored.scans : s.id = page[p].scan /\ s.status = page[p].verdict
    BY <1>1, <1>2 DEF PageOwn
  <2>2. s.status \in Settled
    BY <1>2, <2>1 DEF Settled
  <2>3. QED
    BY <1>2, <2>1, <2>2 DEF DataStep, Lasting
<1>3. QED
  BY <1>1, <1>2 DEF PageOwn

\* A page that does nothing, and whose request is left alone.
LEMMA PageRests ==
  ASSUME PInv, DataStep, NEW q \in Page, page'[q] = page[q],
         pc'[q] = pc[q], ask'[q] = ask[q], got'[q] = got[q]
  PROVE  PageOwn(q)'
<1>1. PageOwn(q)
  BY PInvIs
<1>2. Waiting(q)'
  BY <1>1 DEF PageOwn, Waiting, DataStep
<1>3. QED
  BY <1>2, GoesOn

\* A page that waits while its request is handled.
LEMMA PageWaits ==
  ASSUME PInv, DataStep, NEW q \in Page, page'[q] = page[q], Handle(q)
  PROVE  PageOwn(q)'
<1>1. PageOwn(q) /\ CInv /\ q \in Client
  BY PInvIs, PageAssumption
<1>2. ask'[q] = ask[q]
  BY DEF Handle, Read, Resolve, Findings, Count, WriteFile, Stream, AddParent, Change, Commit, Refresh
<1>3. ASSUME page[q].at = "loaded", ~shared, pc'[q] \in {"findings", "count", "done"}
      PROVE  got'[q].value = "completed"
  <2>1. /\ ask[q].do = "result" /\ ask[q].of = page[q].scan
        /\ page[q].verdict = "completed"
        /\ pc[q] \in {"findings", "count", "done"} => got[q].value = "completed"
    BY <1>1, <1>3 DEF PageOwn, Waiting
  <2>2. /\ q \in Actor /\ pc \in [Actor -> Phase] /\ got[q] \in Got /\ got \in [Client -> Got]
        /\ OnItsWay(q) /\ DataInv
    BY <1>1, Known
  <2>3. CASE Read(q)
    <3>1. ask[q] \in Request
      BY <1>1, <2>3, Known DEF Read
    <3>2. pc'[q] # "refused"
      BY <1>3
    <3>3. PICK row \in Asked(ask[q]) : got' = [got EXCEPT ![q].value = ValueOf(ask[q], row)]
      BY <2>1, <2>2, <2>3, <3>2 DEF Read, Refuse, Goto, Accepts
    <3>4. row \in seen.scans /\ row.id = ask[q].of /\ got'[q].value = row.status
      BY <1>1, <2>1, <2>2, <3>1, <3>3, AskedValue DEF Got
    <3>5. PICK s \in stored.scans : s.id = ask[q].of /\ s.status = "completed"
      BY <1>1, <1>3, <2>1 DEF PageOwn
    <3>6. s = row
      BY <1>3, <2>2, <3>4, <3>5 DEF DataInv, Keyed
    <3>7. QED
      BY <3>4, <3>5, <3>6
  <2>4. CASE Findings(q) \/ Count(q)
    <3>1. pc[q] \in {"findings", "count"}
      BY <2>4 DEF Findings, Count
    <3>2. got'[q].value = got[q].value
      BY <1>1, <2>2, <2>4 DEF Findings, Count, Got
    <3>3. QED
      BY <2>1, <3>1, <3>2
  <2>5. CASE \/ Resolve(q) \/ WriteFile(q) \/ Stream(q) \/ AddParent(q) \/ Change(q)
             \/ Commit(q) \/ Refresh(q)
    BY <2>1, <2>2, <2>5 DEF OnItsWay, Resolve, WriteFile, Stream, AddParent, Change, Commit, Refresh
  <2>6. QED
    BY <2>3, <2>4, <2>5 DEF Handle
<1>4. Waiting(q)'
  BY <1>1, <1>2, <1>3 DEF PageOwn, Waiting, DataStep
<1>5. QED
  BY <1>4, GoesOn

LEMMA Turned ==
  ASSUME PInv, NEW p \in Page, NEW what \in PageRow, Turn(p, what)
  PROVE  /\ page' \in [Page -> PageRow] /\ page'[p] = what
         /\ \A q \in Page : q # p => page'[q] = page[q]
  BY PInvIs DEF Turn

LEMMA RowParts ==
  ASSUME NEW r \in PageRow, NEW a \in At
  PROVE  /\ [r EXCEPT !.at = a] \in PageRow
         /\ [r EXCEPT !.at = a].at = a /\ [r EXCEPT !.at = a].scan = r.scan
         /\ [r EXCEPT !.at = a].polls = r.polls /\ [r EXCEPT !.at = a].verdict = r.verdict
         /\ [r EXCEPT !.at = a].shows = r.shows /\ [r EXCEPT !.at = a].failed = r.failed
  BY DEF PageRow

LEMMA SentIs ==
  ASSUME PInv, NEW p \in Page, NEW request, Submit(p, request)
  PROVE  /\ ask'[p] = request /\ pc'[p] = "read"
         /\ \A q \in Page : q # p => pc'[q] = pc[q] /\ ask'[q] = ask[q] /\ got'[q] = got[q]
<1>1. p \in Client /\ Page \subseteq Client /\ CInv
  BY PageAssumption, PInvIs
<1>2. p \in Actor /\ pc \in [Actor -> Phase] /\ DOMAIN ask = Client /\ got \in [Client -> Got]
      /\ Client \subseteq Actor
  BY <1>1, Known DEF Actor
<1>3. QED
  BY <1>1, <1>2 DEF Submit, Send, Goto

\* What a page's own step leaves of the page.
PageStep(p) ==
  /\ page' \in [Page -> PageRow]
  /\ \A q \in Page : q # p => page'[q] = page[q]
  /\ PageOwn(p)'

LEMMA LaunchStep ==
  ASSUME PInv, DataStep, NEW p \in Page, Launch(p) \/ Rerun(p) \/ List(p)
  PROVE  PageStep(p)
<1>1. CASE Launch(p)
  <2>1. PICK where \in Address : Submit(p, [do |-> "scan", of |-> where, with |-> None])
    BY <1>1 DEF Launch
  <2>2. PICK b : b = [Blank EXCEPT !.at = "posted"] /\ Turn(p, b)
    BY <1>1 DEF Launch
  <2>3. b \in PageRow /\ b.at = "posted" /\ b.polls = 0 /\ b.verdict = "unknown" /\ b.shows = "nothing"
    BY <2>2, BlankIs
  <2>4. ask'[p].do = "scan"
    BY <2>1, SentIs
  <2>5. QED
    BY <2>2, <2>3, <2>4, Turned DEF PageStep, PageOwn, Waiting
<1>2. CASE Rerun(p)
  BY <1>2, BlankIs, Turned DEF Rerun, PageStep, PageOwn, Waiting
<1>3. CASE List(p)
  <2>1. PICK l : l \in {{<<t.id, t.auto>> : t \in seen.targets},
                        {<<s.id, s.status>> : s \in {r \in seen.scans : r.status = "completed"}}}
                 /\ Turn(p, [Blank EXCEPT !.listed = l])
    BY <1>3 DEF List
  <2>2. CInv
    BY PInvIs
  <2>3. l \in SUBSET ((Scan \X {"completed"}) \union (TargetId \X Flag))
    BY <2>1, <2>2, Rows DEF TargetRow, ScanRows
  <2>4. PICK b : b = [Blank EXCEPT !.listed = l] /\ Turn(p, b)
    BY <2>1
  <2>5. b \in PageRow /\ b.at = "open" /\ b.verdict = "unknown" /\ b.shows = "nothing"
    BY <2>3, <2>4, BlankIs
  <2>6. QED
    BY <2>4, <2>5, Turned DEF PageStep, PageOwn, Waiting
<1>4. QED
  BY <1>1, <1>2, <1>3

LEMMA ClickStep ==
  ASSUME PInv, DataStep, NEW p \in Page, Toggle(p) \/ Generate(p) \/ Explained(p)
  PROVE  PageStep(p)
<1>1. PICK a \in {"toggled", "generated", "shown"} : Turn(p, [page[p] EXCEPT !.at = a])
  BY DEF Toggle, Generate, Explained
<1>2. page[p] \in PageRow /\ a \in At
  BY PInvIs DEF At
<1>3. PICK r : r = [page[p] EXCEPT !.at = a] /\ Turn(p, r)
  BY <1>1
<1>4. /\ r \in PageRow /\ r.at = a /\ r.scan = page[p].scan /\ r.verdict = page[p].verdict
      /\ r.shows = page[p].shows /\ r.failed = page[p].failed
  BY <1>2, <1>3, RowParts
<1>5. page' \in [Page -> PageRow] /\ page'[p] = r /\ \A q \in Page : q # p => page'[q] = page[q]
  BY <1>3, <1>4, Turned
<1>6. Waiting(p)'
  BY <1>4, <1>5 DEF Waiting
<1>7. QED
  BY <1>4, <1>5, <1>6, GoesOn DEF PageStep

LEMMA DownloadStep ==
  ASSUME PInv, DataStep, NEW p \in Page, Download(p)
  PROVE  PageStep(p)
<1>1. page' = page /\ page[p].at = "generated"
  BY DEF Download
<1>2. Waiting(p)'
  BY <1>1 DEF Waiting
<1>3. QED
  BY <1>1, <1>2, GoesOn, PInvIs DEF PageStep

LEMMA QueuedStep ==
  ASSUME PInv, DataStep, NEW p \in Page, Queued(p)
  PROVE  PageStep(p)
<1>1. CASE Turn(p, Blank)
  BY <1>1, BlankIs, Turned DEF PageStep, PageOwn, Waiting
<1>2. CASE Answers(p) /\ Turn(p, [page[p] EXCEPT !.at = "polling", !.scan = got[p].id])
  <2>1. CInv /\ p \in Client /\ page[p] \in PageRow /\ PageOwn(p) /\ page[p].at = "posted"
    BY PInvIs, PageAssumption DEF Queued
  <2>2. got[p].id \in Scan
    BY <1>2, <2>1, Known DEF Answers, PageOwn, Waiting, OnItsWay
  <2>3. PICK r : r = [page[p] EXCEPT !.at = "polling", !.scan = got[p].id] /\ Turn(p, r)
    BY <1>2
  <2>4. /\ r \in PageRow /\ r.at = "polling" /\ r.polls = page[p].polls
        /\ r.verdict = page[p].verdict /\ r.shows = page[p].shows /\ r.failed = page[p].failed
    BY <2>1, <2>2, <2>3 DEF PageRow, At
  <2>5. r.polls < MaxPolls /\ r.verdict = "unknown"
    <3>1. page[p].polls = 0 /\ page[p].verdict = "unknown"
      BY <2>1 DEF PageOwn, Waiting
    <3>2. 0 < MaxPolls
      BY PageAssumption
    <3>3. QED
      BY <2>4, <3>1, <3>2
  <2>6. shared' = shared
    BY DEF DataStep
  <2>7. page' \in [Page -> PageRow] /\ page'[p] = r /\ \A q \in Page : q # p => page'[q] = page[q]
    BY <2>3, <2>4, Turned
  <2>8. Waiting(p)'
    BY <2>4, <2>5, <2>7 DEF Waiting
  <2>9. PageOwn(p)'
    BY <2>1, <2>4, <2>5, <2>6, <2>7, <2>8 DEF PageOwn
  <2>10. QED
    BY <2>7, <2>9 DEF PageStep
<1>3. QED
  BY <1>1, <1>2 DEF Queued

LEMMA PollStep ==
  ASSUME PInv, DataStep, NEW p \in Page, Poll(p)
  PROVE  PageStep(p)
<1>1. /\ page[p] \in PageRow /\ PageOwn(p) /\ page[p].at = "polling"
      /\ Submit(p, [do |-> "poll", of |-> page[p].scan, with |-> None])
  BY PInvIs DEF Poll
<1>2. PICK r : r = [page[p] EXCEPT !.at = "polled", !.polls = NextPoll(@)] /\ Turn(p, r)
  BY DEF Poll
<1>3. page[p].polls \in 0..MaxPolls /\ page[p].polls < MaxPolls
  BY <1>1 DEF PageRow, PageOwn, Waiting
<1>4. page[p].polls + 1 \in 0..MaxPolls
  BY <1>3, PageAssumption
<1>5. /\ r \in PageRow /\ r.at = "polled" /\ r.scan = page[p].scan /\ r.verdict = page[p].verdict
      /\ r.shows = page[p].shows /\ r.failed = page[p].failed
  BY <1>1, <1>2, <1>4 DEF PageRow, At, NextPoll
<1>6. page' \in [Page -> PageRow] /\ page'[p] = r /\ \A q \in Page : q # p => page'[q] = page[q]
  BY <1>2, <1>5, Turned
<1>7. ask'[p].do = "poll" /\ ask'[p].of = page[p].scan
  BY <1>1, SentIs
<1>8. Waiting(p)'
  BY <1>5, <1>6, <1>7 DEF Waiting
<1>9. QED
  BY <1>5, <1>6, <1>8, GoesOn DEF PageStep

LEMMA PolledStep ==
  ASSUME PInv, DataStep, NEW p \in Page, Polled(p)
  PROVE  PageStep(p)
<1>1. /\ page[p] \in PageRow /\ PageOwn(p) /\ page[p].at = "polled" /\ CInv /\ p \in Client
      /\ UNCHANGED vars
  BY PInvIs, PageAssumption DEF Polled
<1>2. PICK answered \in BOOLEAN :
        /\ IF answered THEN Answers(p) ELSE Replied(p)
        /\ IF Again(answered, got[p].value, page[p].polls)
             THEN Turn(p, [page[p] EXCEPT !.at = "polling"])
             ELSE Conclude(p, Verdict(answered, got[p].value))
  BY DEF Polled
<1>3. CASE Again(answered, got[p].value, page[p].polls)
  <2>1. PICK r : r = [page[p] EXCEPT !.at = "polling"] /\ Turn(p, r)
    BY <1>2, <1>3
  <2>2. /\ r \in PageRow /\ r.at = "polling" /\ r.scan = page[p].scan /\ r.polls = page[p].polls
        /\ r.verdict = page[p].verdict /\ r.shows = page[p].shows /\ r.failed = page[p].failed
    BY <1>1, <2>1, RowParts DEF At
  <2>3. page' \in [Page -> PageRow] /\ page'[p] = r /\ \A q \in Page : q # p => page'[q] = page[q]
    BY <2>1, <2>2, Turned
  <2>4. Waiting(p)'
    BY <1>3, <2>2, <2>3 DEF Waiting, Again
  <2>5. QED
    BY <2>2, <2>3, <2>4, GoesOn DEF PageStep
<1>4. CASE ~Again(answered, got[p].value, page[p].polls)
  <2> DEFINE verdict == Verdict(answered, got[p].value)
             a == IF verdict \in {"completed", "failed"} THEN "ending" ELSE "shown"
  <2>1. verdict \in Final \union {"unknown"} /\ Final \subseteq Status
    BY DEF Verdict, Final, Status
  <2>2. a \in {"ending", "shown"} /\ (a = "ending" => verdict \in {"completed", "failed"})
    OBVIOUS
  <2>3. PICK r : r = [page[p] EXCEPT !.verdict = verdict, !.at = a] /\ Turn(p, r)
    BY <1>2, <1>4 DEF Conclude
  <2>4. ~shared /\ verdict \in {"completed", "failed"} =>
          \E s \in stored.scans : s.id = page[p].scan /\ s.status = verdict
    <3>1. verdict \in {"completed", "failed"} => got[p].value = verdict /\ verdict \in Final /\ pc[p] = "done"
      BY <1>2 DEF Verdict, Answers, Final
    <3>2. ask[p].do = "poll" /\ ask[p].of = page[p].scan
      BY <1>1 DEF PageOwn, Waiting
    <3>3. ~shared => ToldRight(p)
      BY <1>1, Known
    <3>4. QED
      BY <3>1, <3>2, <3>3 DEF ToldRight, Settled
  <2> HIDE DEF verdict, a
  <2>5. /\ r \in PageRow /\ r.at = a /\ r.scan = page[p].scan /\ r.verdict = verdict
        /\ r.shows = page[p].shows /\ r.failed = page[p].failed
    BY <1>1, <2>1, <2>2, <2>3 DEF PageRow, At
  <2>6. page' \in [Page -> PageRow] /\ page'[p] = r /\ \A q \in Page : q # p => page'[q] = page[q]
    BY <2>3, <2>5, Turned
  <2>7. Waiting(p)'
    BY <2>2, <2>5, <2>6 DEF Waiting
  <2>8. shared' = shared /\ stored' = stored
    BY <1>1 DEF vars
  <2>9. PageOwn(p)'
    BY <1>1, <2>4, <2>5, <2>6, <2>7, <2>8 DEF PageOwn
  <2>10. QED
    BY <2>6, <2>9 DEF PageStep
<1>5. QED
  BY <1>3, <1>4

LEMMA EndingStep ==
  ASSUME PInv, DataStep, NEW p \in Page, Ending(p)
  PROVE  PageStep(p)
<1>1. PICK a, request :
        /\ a \in {"loaded", "explained"}
        /\ Submit(p, request) /\ Turn(p, [page[p] EXCEPT !.at = a])
        /\ a = "loaded" => /\ page[p].verdict = "completed"
                           /\ request.do = "result" /\ request.of = page[p].scan
  <2>1. CASE page[p].verdict = "completed"
    <3> DEFINE r == [do |-> "result", of |-> page[p].scan, with |-> None]
    <3>1. /\ Submit(p, r) /\ Turn(p, [page[p] EXCEPT !.at = "loaded"])
          /\ r.do = "result" /\ r.of = page[p].scan
      BY <2>1 DEF Ending
    <3> HIDE DEF r
    <3>2. QED
      BY <2>1, <3>1
  <2>2. CASE page[p].verdict # "completed"
    <3> DEFINE r == [do |-> "poll", of |-> page[p].scan, with |-> None]
    <3>1. Submit(p, r) /\ Turn(p, [page[p] EXCEPT !.at = "explained"])
      BY <2>2 DEF Ending
    <3> HIDE DEF r
    <3>2. QED
      BY <3>1
  <2>3. QED
    BY <2>1, <2>2
<1>2. page[p] \in PageRow /\ a \in At
  BY <1>1, PInvIs DEF At
<1>3. PICK r : r = [page[p] EXCEPT !.at = a] /\ Turn(p, r)
  BY <1>1
<1>4. /\ r \in PageRow /\ r.at = a /\ r.scan = page[p].scan /\ r.verdict = page[p].verdict
      /\ r.shows = page[p].shows /\ r.failed = page[p].failed
  BY <1>2, <1>3, RowParts
<1>5. page' \in [Page -> PageRow] /\ page'[p] = r /\ \A q \in Page : q # p => page'[q] = page[q]
  BY <1>3, <1>4, Turned
<1>6. ask'[p] = request /\ pc'[p] = "read"
  BY <1>1, SentIs
<1>7. Waiting(p)'
  BY <1>1, <1>4, <1>5, <1>6 DEF Waiting
<1>8. QED
  BY <1>4, <1>5, <1>7, GoesOn DEF PageStep

LEMMA LoadedStep ==
  ASSUME PInv, DataStep, NEW p \in Page, Loaded(p)
  PROVE  PageStep(p)
<1>1. /\ page[p] \in PageRow /\ PageOwn(p) /\ page[p].at = "loaded" /\ CInv /\ p \in Client
      /\ UNCHANGED vars
  BY PInvIs, PageAssumption DEF Loaded
<1>2. PICK answered \in BOOLEAN :
        /\ IF answered THEN Answers(p) ELSE Replied(p)
        /\ Turn(p, [page[p] EXCEPT !.at = "shown", !.failed = ~answered, !.shows = Shown(answered, got[p])])
  BY DEF Loaded
<1> DEFINE shows == Shown(answered, got[p])
           failed == ~answered
<1>3. shows \in {"nothing", "findings", "no findings"} /\ failed \in BOOLEAN
  BY DEF Shown
<1>4. ~shared /\ shows = "no findings" => failed
  BY <1>1, <1>2, Known DEF PageOwn, Waiting, Answers, ToldRight, Shown
<1>5. PICK r : r = [page[p] EXCEPT !.at = "shown", !.failed = failed, !.shows = shows] /\ Turn(p, r)
  BY <1>2
<1> HIDE DEF shows, failed
<1>6. /\ r \in PageRow /\ r.at = "shown" /\ r.scan = page[p].scan /\ r.verdict = page[p].verdict
      /\ r.shows = shows /\ r.failed = failed
  BY <1>1, <1>3, <1>5 DEF PageRow, At
<1>7. page' \in [Page -> PageRow] /\ page'[p] = r /\ \A q \in Page : q # p => page'[q] = page[q]
  BY <1>5, <1>6, Turned
<1>8. shared' = shared /\ stored' = stored
  BY <1>1 DEF vars
<1>9. PageOwn(p)'
  BY <1>1, <1>4, <1>6, <1>7, <1>8 DEF PageOwn, Waiting
<1>10. QED
  BY <1>7, <1>9 DEF PageStep

LEMMA PNextPInv == PInv /\ [PNext]_pageVars => PInv'
<1> SUFFICES ASSUME PInv, [PNext]_pageVars PROVE PInv'
  OBVIOUS
<1>1. CInv' /\ DataStep
  BY PNextIsNext, NextCInv, PInvIs
<1>2. page \in [Page -> PageRow] /\ Page \subseteq Client /\ CInv
  BY PInvIs, PageAssumption
<1>3. ASSUME page' \in [Page -> PageRow], \A q \in Page : PageOwn(q)' PROVE PInv'
  BY <1>1, <1>3 DEF PInv, PTypeOK, PageRow, VerdictTrue, FindingsShown, PageOwn
<1>4. CASE UNCHANGED pageVars
  <2>1. \A q \in Page : PageOwn(q)'
    BY <1>1, <1>4, PageRests DEF pageVars, vars
  <2>2. QED
    BY <1>2, <1>3, <1>4, <2>1 DEF pageVars
<1>5. ASSUME NEW p \in Page,
             Launch(p) \/ Follow(p) \/ List(p) \/ Toggle(p) \/ Generate(p) \/ Rerun(p) \/ Download(p)
      PROVE  PInv'
  <2>1. PageStep(p)
    BY <1>1, <1>5, LaunchStep, ClickStep, DownloadStep, QueuedStep, PollStep, PolledStep, EndingStep,
       LoadedStep DEF Follow
  <2>2. ASSUME NEW q \in Page, q # p PROVE pc'[q] = pc[q] /\ ask'[q] = ask[q] /\ got'[q] = got[q]
    <3>1. CASE UNCHANGED vars
      BY <3>1 DEF vars
    <3>2. CASE \E request : Submit(p, request)
      BY <2>2, <3>2, SentIs
    <3>3. QED
      BY <1>5, <3>1, <3>2 DEF Launch, Follow, List, Toggle, Generate, Rerun, Download, Queued, Poll,
                              Polled, Ending, Loaded, Explained
  <2>3. \A q \in Page : PageOwn(q)'
    BY <1>1, <2>1, <2>2, PageRests DEF PageStep
  <2>4. QED
    BY <1>3, <2>1, <2>3 DEF PageStep
<1>6. ASSUME page' = page, NEW d \in Client \union Scan,
             \A c \in Client : c # d => pc'[c] = pc[c] /\ ask'[c] = ask[c] /\ got'[c] = got[c],
             d \in Page => Handle(d)
      PROVE  PInv'
  <2>1. \A q \in Page : PageOwn(q)'
    BY <1>1, <1>2, <1>6, PageRests, PageWaits
  <2>2. QED
    BY <1>2, <1>3, <1>6, <2>1
<1>7. pc \in [Actor -> Phase] /\ DOMAIN ask = Client /\ got \in [Client -> Got] /\ Actor = Client \union Scan
  BY <1>2, CInvIs DEF Base, Clients, Actor
<1>8. ASSUME NEW c \in Client \ Page, Ask(c), page' = page PROVE PInv'
  BY <1>6, <1>7, <1>8 DEF Ask, Send, Goto
<1>9. ASSUME NEW c \in Client, Handle(c), page' = page PROVE PInv'
  <2>1. \A d \in Client : d # c => pc'[d] = pc[d] /\ ask'[d] = ask[d] /\ got'[d] = got[d]
    <3>1. ask' = ask /\ \E phase : Goto(c, phase)
      BY <1>9 DEF Handle, Read, Resolve, Findings, Count, WriteFile, Stream, AddParent, Change, AddTarget, SetAuto,
                DeleteTarget, MarkFinding, SaveReport, AddScan, Commit, Refresh, Write, Refuse, Reply
    <3>2. \A d \in Client : d # c => got'[d] = got[d]
      BY <1>7, <1>9 DEF Handle, Read, Resolve, Findings, Count, WriteFile, Stream, AddParent, Change, AddTarget, SetAuto,
                DeleteTarget, MarkFinding, SaveReport, AddScan, Commit, Refresh, Make
    <3>3. QED
      BY <1>7, <3>1, <3>2 DEF Goto
  <2>2. QED
    BY <1>6, <1>9, <2>1
<1>10. ASSUME NEW s \in Scan, Execute(s) \/ ExecutorCommits(s), page' = page PROVE PInv'
  <2>1. s \notin Page /\ s \notin Client
    BY <1>2, NamesAssumption
  <2>2. \A d \in Client : d # s => pc'[d] = pc[d] /\ ask'[d] = ask[d] /\ got'[d] = got[d]
    BY <1>7, <1>10 DEF Execute, ExecutorCommits, Write, Goto
  <2>3. QED
    BY <1>6, <1>10, <2>1, <2>2
<1>11. QED
  BY <1>4, <1>5, <1>8, <1>9, <1>10 DEF PNext

\* What the pages rely on while polls are lost and scans end: the status a page
\* shows, the row it is of and the answer it waits for agree.
THEOREM DashboardInvariance == PSpec => []PInv
<1>1. PInit => PInv
  BY InitPInv
<1>2. PInv /\ [PNext]_pageVars => PInv'
  BY PNextPInv
<1>3. QED
  BY <1>1, <1>2, PTL DEF PSpec

\* Every page is in a state page_new_scan, page_scan_history or page_reports
\* can be in, with no more polls than the loop makes.
THEOREM PageTypes == PSpec => []PTypeOK
<1>1. PInv => PTypeOK
  BY DEF PInv
<1>2. QED
  BY <1>1, DashboardInvariance, PTL

\* "Scan complete!" and "Scan failed" are never shown of a scan that has not
\* ended so.
THEOREM VerdictsAreTrue == PSpec => []VerdictTrue
<1>1. PInv => VerdictTrue
  BY DEF PInv
<1>2. QED
  BY <1>1, DashboardInvariance, PTL

\* A completed scan is shown without its findings only if the answer was lost.
THEOREM FindingsAreShown == PSpec => []FindingsShown
<1>1. PInv => FindingsShown
  BY DEF PInv
<1>2. QED
  BY <1>1, DashboardInvariance, PTL
=============================================================================
