----------------------------- MODULE ReportShelf -----------------------------
(***************************************************************************)
(* What the report queue promises, without processes, slots, heartbeats,   *)
(* statements and transactions.  Reports are taken up in order, but for    *)
(* those being taken up together, and a limited number of times.  An       *)
(* attempt, however late, publishes a report as a whole, in one step, or   *)
(* fails it; what is answered is not made again, and what is removed stays *)
(* away.                                                                   *)
(***************************************************************************)
EXTENDS Naturals, FiniteSets

CONSTANTS
    Reports, Sizes,
    Limit,      \* attempts at a report
    AtOnce      \* reports made at a time

VARIABLES
    report,     \* where each report stands, its attempts, and the rows it counts
    shown       \* the rows a reader of the report finds

shelfVars == <<report, shown>>

Whole(attempt, size) == {[by |-> attempt, number |-> n] : n \in 1 .. size}

ShelfInit ==
    /\ report = [r \in Reports |-> [status |-> "none", attempts |-> 0, count |-> 0]]
    /\ shown = [r \in Reports |-> {}]

Older(r) == {q \in Reports : q < r /\ report[q].status = "queued"}

Request(r) ==
    /\ report[r].status = "none"
    /\ report' = [report EXCEPT ![r].status = "queued"]
    /\ UNCHANGED shown

\* The oldest, or one of the next when the ones before are just being taken up.
TakeUp(r) ==
    /\ report[r].status = "queued" /\ Cardinality(Older(r)) < AtOnce
    /\ report[r].attempts < Limit
    /\ report' = [report EXCEPT ![r].status = "running", ![r].attempts = @ + 1]
    /\ UNCHANGED shown

\* The attempts at these reports are given up: those with one left are queued
\* again, the others fail.
GiveUp(given, status) ==
    /\ \A r \in given : /\ report[r].status = "running"
                        /\ status = IF report[r].attempts < Limit THEN "queued" ELSE "failed"
    /\ report' = [r \in Reports |->
                    IF r \in given THEN [report[r] EXCEPT !.status = status] ELSE report[r]]
    /\ UNCHANGED shown

\* Some attempt was made, and the report is still there for its answer.
Attempted(r) ==
    /\ report[r].attempts > 0
    /\ report[r].status \in {"queued", "running", "completed", "failed"}

Publish(r, attempt, size) ==
    /\ Attempted(r)
    /\ attempt <= report[r].attempts
    /\ report' = [report EXCEPT ![r].status = "completed", ![r].count = size]
    /\ shown' = [shown EXCEPT ![r] = Whole(attempt, size)]

Fail(r) ==
    /\ Attempted(r)
    /\ report' = [report EXCEPT ![r].status = "failed"]
    /\ UNCHANGED shown

Remove(r) ==
    /\ report[r].status \in {"completed", "failed"}
    /\ report' = [report EXCEPT ![r].status = "deleted"]
    /\ shown' = [shown EXCEPT ![r] = {}]

ShelfNext ==
    \/ \E r \in Reports : \/ Request(r)
                          \/ TakeUp(r)
                          \/ \E attempt \in 1 .. Limit, size \in Sizes \cup {0} :
                                 Publish(r, attempt, size)
                          \/ Fail(r)
                          \/ Remove(r)
    \/ \E given \in SUBSET Reports, status \in {"queued", "failed"} : GiveUp(given, status)

ShelfSpec == ShelfInit /\ [][ShelfNext]_shelfVars
=============================================================================
