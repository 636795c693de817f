--------------------------- MODULE MCReportStore ---------------------------
(* The report of one job, small enough to be searched completely. *)
EXTENDS ReportStore

CONSTANTS q1, q2, p1, p2, s1, w1

MCKinds == [r \in Requests |-> IF r = q1 THEN {"json"} ELSE {"json", "export", "list"}]

\* One patch the sandbox compiles, and one that is written as a stub.
MCShape ==
    [p \in Patches |->
        IF p = p1
        THEN [diff |-> "headed", language |-> "python", empty |-> FALSE, stub |-> FALSE, sound |-> TRUE]
        ELSE [diff |-> "marked", language |-> "checked", empty |-> FALSE, stub |-> TRUE, sound |-> TRUE]]
=============================================================================
