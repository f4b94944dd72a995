--------------------------- MODULE MCScanPipeline ---------------------------
(* An instance of ScanPipeline for TLC: a host, and a URL scanned safely. *)
EXTENDS ScanPipeline

MCMode == {[safe |-> FALSE, url |-> "none"], [safe |-> TRUE, url |-> "https"]}
=============================================================================
