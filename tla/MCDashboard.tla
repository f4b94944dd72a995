----------------------------- MODULE MCDashboard -----------------------------
\* A page and another client; one address, two scans, two reports.
EXTENDS Dashboard

Kind(kinds) == {r \in Request : r.do \in kinds}

Share(client, pages, ids) ==
  [asks |-> [c \in Client |-> Kind(IF c \in Page THEN pages ELSE client)], ids |-> ids]

\* The history page and a client at the registry; the new-scan page while
\* targets come and go, and while findings are marked; the reports page.
Registry   == Share({"add", "auto", "delete"}, {"auto"}, {"t1", "t2"})
Following  == Share({"add", "delete"}, {"scan", "poll", "result"}, {"t1", "t2", "s1"})
Marking    == Share({"mark"}, {"scan", "poll", "result"}, {"t1", "s1"})
Documented == Share({"scan", "report"}, {"report", "download"}, {"t1", "s1", "r1", "r2"})
Reporting  == Share({"scan", "report"}, {"report", "download"}, {"t1", "t2", "s1", "s2", "r1", "r2"})

Mixed == {Registry, Following, Marking, Documented}
Reports == {Reporting}
=============================================================================
