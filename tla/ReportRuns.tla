------------------------------ MODULE ReportRuns ------------------------------
(***************************************************************************)
(* The queue of tabular reports.  A report is queued by a request and made *)
(* by a worker of some API process: it claims the run, takes a snapshot in *)
(* a REPEATABLE READ transaction, and commits the rows with the run's      *)
(* completion.  While it works it keeps a heartbeat in report_run_runtime; *)
(* the ticks of every process put a run whose heartbeat is too old back on *)
(* the queue, whether its worker is dead or only slow.                     *)
(*                                                                         *)
(* Each statement or transaction is one step, except the three statements  *)
(* a tick begins with: each of them joins two tables as its snapshot saw   *)
(* them and, where a row has changed by then, checks again only the row it *)
(* changes.  That is PostgreSQL's READ COMMITTED, and is two steps here.   *)
(***************************************************************************)
EXTENDS Naturals, FiniteSets

CONSTANTS
    Processes,      \* API processes
    MaxRuns,        \* bound on the reports requested
    Sizes,          \* how many rows a snapshot may have
    MaxConcurrent,  \* MAX_CONCURRENT_REPORTS
    MaxAttempts,    \* the 3 of the exhausted and requeue statements
    MaxFaults       \* bound on crashes and failed statements

ASSUME ReportAssumption ==
    /\ IsFiniteSet(Processes)
    /\ MaxRuns \in Nat \ {0}
    /\ Sizes \subseteq Nat
    /\ MaxConcurrent \in Nat \ {0}
    /\ MaxAttempts \in Nat \ {0}
    /\ MaxFaults \in Nat

VARIABLES
    run,        \* report_runs
    rows,       \* report_run_rows, per run
    runtime,    \* report_run_runtime: the age of the heartbeat, if there is one
    tick,       \* per process: where its tick is, and what a statement has matched
    worker,     \* per process: the calls of runTabularReportWorkerOnce it makes
    faults      \* crashes and failed statements so far

vars == <<run, rows, runtime, tick, worker, faults>>

-----------------------------------------------------------------------------

\* Ids in the order of (requested_at, id).
Runs == 1 .. MaxRuns
Workers == Processes \X (1 .. MaxConcurrent)

\* A run is "none" before it is requested and "deleted" once cleaned up.
Statuses == {"none", "queued", "running", "completed", "failed", "deleted"}
Statements == {"exhaust", "requeue", "leftover"}

\* Rows of one snapshot, named by the attempt that wrote them.
SnapshotOf(attempt, size) == {[by |-> attempt, number |-> n] : n \in 1 .. size}

Working == {"claimed", "snapshot", "written", "failing", "dropping"}

\* dirty: the run's row changed after the transaction's snapshot.
\* old: the stored rows the transaction has deleted.
\* awaited: the tick that started the call still waits for it.
AtRest == [phase |-> "rest", run |-> 1, attempt |-> 0, size |-> 0,
           dirty |-> FALSE, old |-> {}, awaited |-> FALSE]
Ready == [AtRest EXCEPT !.phase = "ready", !.awaited = TRUE]

StartOfTick == [at |-> "exhaust", open |-> FALSE, matched |-> {}]

Row == [by : Nat, number : Nat]

Place == [at : Statements \cup {"work"}, open : BOOLEAN, matched : SUBSET Runs]
RunRow == [status : Statuses, attempts : Nat, count : Sizes \cup {0}]
Call == [phase : Working \cup {"rest", "ready"}, run : Runs, attempt : Nat,
         size : Sizes \cup {0}, dirty : BOOLEAN, old : SUBSET Row, awaited : BOOLEAN]

\* The shape of the tables and of the processes' memory.
TypeOK ==
    /\ run \in [Runs -> RunRow]
    /\ rows \in [Runs -> SUBSET Row]
    /\ runtime \in [Runs -> {"none", "fresh", "stale"}]
    /\ tick \in [Processes -> Place]
    /\ worker \in [Workers -> Call]
    /\ faults \in 0 .. MaxFaults

Init ==
    /\ run = [r \in Runs |-> [status |-> "none", attempts |-> 0, count |-> 0]]
    /\ rows = [r \in Runs |-> {}]
    /\ runtime = [r \in Runs |-> "none"]
    /\ tick = [p \in Processes |-> StartOfTick]
    /\ worker = [w \in Workers |-> AtRest]
    /\ faults = 0

Stored(r) == run[r].status \notin {"none", "deleted"}
Is(r, status) == run[r].status = status

\* Variants: the transaction is not isolated from the others; the attempts do not
\* end; they are not checked again, nor is the status.
NeverDirty(wk, changed) == wk
ExhaustedLater(r) == run[r].status = "running" /\ run[r].attempts > MaxAttempts
StillRunning(statement, r) ==
    statement # "leftover" => run[r].status = "running"
WithoutRecheck(statement, r) == TRUE

\* First updater wins: a REPEATABLE READ transaction may not change a row that
\* changed after its snapshot.
NowDirty(wk, changed) ==
    IF wk.phase = "snapshot" /\ wk.run \in changed THEN [wk EXCEPT !.dirty = TRUE] ELSE wk

\* The worker table after worker w moved to `to' and the rows of the runs in
\* `changed' were updated.
Moved(w, to, changed) ==
    [v \in Workers |-> IF v = w THEN to ELSE NowDirty(worker[v], changed)]

\* The tick table after the runtime rows of the runs in `gone' were deleted: a
\* statement about to delete one of them too lets it go, even if a new one is made.
Forgotten(gone) ==
    [p \in Processes |-> IF tick[p].at = "leftover" THEN [tick[p] EXCEPT !.matched = @ \ gone]
                                                    ELSE tick[p]]

-----------------------------------------------------------------------------
(* Requests and clean-up *)

\* POST .../runs.  Two requests at once may commit in either order of their ids.
generateTabularReport(r) ==
    /\ Is(r, "none")
    /\ run' = [run EXCEPT ![r].status = "queued"]
    /\ UNCHANGED <<rows, runtime, tick, worker, faults>>

\* Hourly: an expired run that is not pinned goes, with its rows and its runtime.
cleanupExpiredTabularReportRuns(r) ==
    /\ run[r].status \in {"completed", "failed"}
    /\ run' = [run EXCEPT ![r].status = "deleted"]
    /\ rows' = [rows EXCEPT ![r] = {}]
    /\ runtime' = [runtime EXCEPT ![r] = "none"]
    /\ worker' = [w \in Workers |-> NowDirty(worker[w], {r})]
    /\ tick' = Forgotten({r})
    /\ UNCHANGED faults

\* Fifteen minutes without a heartbeat: nobody works on the run any more, or a
\* statement of its worker takes that long.
GoStale(r) ==
    /\ runtime[r] = "fresh"
    /\ runtime' = [runtime EXCEPT ![r] = "stale"]
    /\ UNCHANGED <<run, rows, tick, worker, faults>>

-----------------------------------------------------------------------------
(* The statements of a tick *)

Exhausted(r) == Is(r, "running") /\ run[r].attempts >= MaxAttempts
Retryable(r) == Is(r, "running") /\ run[r].attempts < MaxAttempts

\* The rows a statement joins in its snapshot ...
Matches(statement) ==
    {r \in Runs :
        CASE statement = "exhaust"  -> Exhausted(r) /\ runtime[r] = "stale"
          [] statement = "requeue"  -> Retryable(r) /\ runtime[r] = "stale"
          [] statement = "leftover" -> Stored(r) /\ ~Is(r, "running") /\ runtime[r] # "none"}

\* ... and the condition on the row it changes, which it checks again.  The last
\* statement's is on a runtime row, whatever its heartbeat.
StillMatches(statement, r) ==
    CASE statement = "exhaust"  -> Exhausted(r)
      [] statement = "requeue"  -> Retryable(r)
      [] statement = "leftover" -> TRUE

After(statement) ==
    CASE statement = "exhaust"  -> "requeue"
      [] statement = "requeue"  -> "leftover"
      [] statement = "leftover" -> "work"

\* The tick goes on behind its current statement, which has deleted the runtime rows
\* of the runs in `gone'; the last one starts the workers.
Advance(p, workers, gone) ==
    /\ tick' = [Forgotten(gone) EXCEPT
                  ![p] = [at |-> After(tick[p].at), open |-> FALSE, matched |-> {}]]
    /\ worker' = [w \in Workers |->
                    IF tick[p].at = "leftover" /\ w[1] = p /\ workers[w].phase = "rest"
                    THEN Ready ELSE workers[w]]

\* The statement takes its snapshot; one that matches nothing is over.
Match(p) ==
    /\ tick[p].at \in Statements /\ ~tick[p].open
    /\ IF Matches(tick[p].at) = {}
       THEN Advance(p, worker, {})
       ELSE /\ tick' = [tick EXCEPT ![p] = [@ EXCEPT !.open = TRUE,
                                                    !.matched = Matches(tick[p].at)]]
            /\ UNCHANGED worker
    /\ UNCHANGED <<run, rows, runtime, faults>>

\* It changes the rows that still match.
Apply(p) ==
    LET hit == {r \in tick[p].matched : StillMatches(tick[p].at, r)}
        to == IF tick[p].at = "exhaust" THEN "failed" ELSE "queued"
    IN  /\ tick[p].at \in Statements /\ tick[p].open
        /\ IF tick[p].at = "leftover"
           THEN /\ runtime' = [r \in Runs |-> IF r \in hit THEN "none" ELSE runtime[r]]
                /\ UNCHANGED run
                /\ Advance(p, worker, hit)
           ELSE /\ run' = [r \in Runs |-> IF r \in hit THEN [run[r] EXCEPT !.status = to]
                                          ELSE run[r]]
                /\ UNCHANGED runtime
                /\ Advance(p, [w \in Workers |-> NowDirty(worker[w], hit)], {})
        /\ UNCHANGED <<rows, faults>>

\* Promise.all is settled: the next tick may start.
EndTick(p) ==
    /\ tick[p].at = "work"
    /\ \A w \in Workers : w[1] = p => worker[w].phase = "rest" \/ ~worker[w].awaited
    /\ tick' = [tick EXCEPT ![p] = StartOfTick]
    /\ UNCHANGED <<run, rows, runtime, worker, faults>>

Tick(p) == Match(p) \/ Apply(p) \/ EndTick(p)

-----------------------------------------------------------------------------
(* The workers *)

\* The advisory locks, held by the calls that got past acquireSlot.
SlotsTaken == {w \in Workers : worker[w].phase \in Working}
SlotFree == Cardinality(SlotsTaken) < MaxConcurrent

Older(r) == {q \in Runs : q < r /\ Is(q, "queued")}

\* The oldest queued run nobody has locked: an older one is skipped only while the
\* claim of another call, with a slot of its own, holds it and may yet be rolled back.
NextQueued(w, r) ==
    /\ Is(r, "queued")
    /\ Cardinality(Older(r)) <= Cardinality({v \in Workers \ {w} : worker[v].phase = "ready"})
    /\ Cardinality(Older(r)) + Cardinality(SlotsTaken) < MaxConcurrent

\* One transaction: the next queued run is running, with a fresh heartbeat.
claimNextRun(w) ==
    \E r \in Runs :
        /\ worker[w].phase = "ready"
        /\ NextQueued(w, r)
        /\ run' = [run EXCEPT ![r].status = "running", ![r].attempts = @ + 1]
        /\ runtime' = [runtime EXCEPT ![r] = "fresh"]
        /\ worker' = Moved(w, [worker[w] EXCEPT !.phase = "claimed", !.run = r,
                                                !.attempt = run[r].attempts + 1], {r})
        /\ UNCHANGED <<rows, tick, faults>>

\* No slot, or no queued run.
NothingToClaim(w) ==
    /\ worker[w].phase = "ready"
    /\ ~SlotFree \/ \A r \in Runs : ~Is(r, "queued")
    /\ worker' = [worker EXCEPT ![w] = AtRest]
    /\ UNCHANGED <<run, rows, runtime, tick, faults>>

\* Access is granted again; the transaction's first statement deletes the rows an
\* earlier snapshot stored.
StartSnapshot(w) ==
    /\ worker[w].phase = "claimed"
    /\ \E size \in Sizes :
          worker' = [worker EXCEPT ![w].phase = "snapshot", ![w].size = size,
                                   ![w].old = rows[worker[w].run]]
    /\ UNCHANGED <<run, rows, runtime, tick, faults>>

\* After each batch, outside the transaction and whoever owns the runtime row.
Beat(w) ==
    /\ worker[w].phase = "snapshot" /\ worker[w].size > 0
    /\ runtime[worker[w].run] = "stale"
    /\ runtime' = [runtime EXCEPT ![worker[w].run] = "fresh"]
    /\ UNCHANGED <<run, rows, tick, worker, faults>>

\* The rows stored besides those the transaction deleted.
Others(w) == rows[worker[w].run] \ worker[w].old
Snapshot(w) == SnapshotOf(worker[w].attempt, worker[w].size)

\* What the database asks of the transaction: the run's row as the snapshot saw
\* it, a new (run_id, row_number), and a run for the rows to refer to.
CommitAllowed(w) ==
    /\ ~worker[w].dirty
    /\ \A new \in Snapshot(w), other \in Others(w) : new.number # other.number
    /\ Stored(worker[w].run) \/ worker[w].size = 0

Completed(w) ==
    LET r == worker[w].run
    IN  IF Stored(r)
        THEN [run EXCEPT ![r].status = "completed", ![r].count = worker[w].size]
        ELSE run

\* The transaction of worker w is over.
Ended(w, phase) ==
    [worker[w] EXCEPT !.phase = phase, !.size = 0, !.dirty = FALSE, !.old = {}]

CommitSnapshot(w) ==
    /\ worker[w].phase = "snapshot" /\ CommitAllowed(w)
    /\ run' = Completed(w)
    /\ rows' = [rows EXCEPT ![worker[w].run] = Others(w) \cup Snapshot(w)]
    /\ worker' = Moved(w, Ended(w, "written"), {worker[w].run})
    /\ UNCHANGED <<runtime, tick, faults>>

\* The access check, the query or the transaction fails, and is rolled back.
Fail(w) ==
    /\ worker[w].phase \in {"claimed", "snapshot"}
    /\ worker' = [worker EXCEPT ![w] = Ended(w, "failing")]
    /\ UNCHANGED <<run, rows, runtime, tick, faults>>

\* The catch marks the run failed, whatever has become of it meanwhile.
RecordFailure(w) ==
    LET r == worker[w].run
    IN  /\ worker[w].phase = "failing"
        /\ run' = IF Stored(r) THEN [run EXCEPT ![r].status = "failed"] ELSE run
        /\ worker' = Moved(w, [worker[w] EXCEPT !.phase = "dropping"], {r})
        /\ UNCHANGED <<rows, runtime, tick, faults>>

\* The last statement of either way; the slot is free again.
DropRuntime(w) ==
    /\ worker[w].phase \in {"written", "dropping"}
    /\ runtime' = [runtime EXCEPT ![worker[w].run] = "none"]
    /\ worker' = [worker EXCEPT ![w] = AtRest]
    /\ tick' = Forgotten({worker[w].run})
    /\ UNCHANGED <<run, rows, faults>>

Work(w) ==
    \/ claimNextRun(w)
    \/ NothingToClaim(w)
    \/ StartSnapshot(w)
    \/ CommitSnapshot(w)
    \/ Fail(w)
    \/ RecordFailure(w)
    \/ DropRuntime(w)

-----------------------------------------------------------------------------
(* Faults *)

Faulty == faults < MaxFaults /\ faults' = faults + 1

\* The process dies and starts again: transactions roll back, locks are released.
Crash(p) ==
    /\ Faulty
    /\ \E w \in Workers : w[1] = p /\ worker[w].phase # "rest"
    /\ tick' = [tick EXCEPT ![p] = StartOfTick]
    /\ worker' = [w \in Workers |-> IF w[1] = p THEN AtRest ELSE worker[w]]
    /\ UNCHANGED <<run, rows, runtime>>

\* Deleting the runtime row fails after the commit, inside the same try.
LostAfterCommit(w) ==
    /\ Faulty
    /\ worker[w].phase = "written"
    /\ worker' = [worker EXCEPT ![w].phase = "failing"]
    /\ UNCHANGED <<run, rows, runtime, tick>>

\* Deleting it fails after the failure was recorded, and is ignored.
LostLeftover(w) ==
    /\ Faulty
    /\ worker[w].phase = "dropping"
    /\ worker' = [worker EXCEPT ![w] = AtRest]
    /\ UNCHANGED <<run, rows, runtime, tick>>

\* The claim or the record of the failure fails: the call throws, and the tick
\* that awaits it is over while its other calls still run.
LostCall(w) ==
    /\ Faulty
    /\ worker[w].phase \in {"ready", "failing"}
    /\ IF worker[w].awaited
       THEN /\ tick' = [tick EXCEPT ![w[1]] = StartOfTick]
            /\ worker' = [v \in Workers |->
                            IF v = w THEN AtRest
                            ELSE IF v[1] = w[1] THEN [worker[v] EXCEPT !.awaited = FALSE]
                            ELSE worker[v]]
       ELSE /\ worker' = [worker EXCEPT ![w] = AtRest]
            /\ UNCHANGED tick
    /\ UNCHANGED <<run, rows, runtime>>

\* A statement of the tick fails, and the tick with it.
LostStatement(p) ==
    /\ Faulty
    /\ tick[p].open
    /\ tick' = [tick EXCEPT ![p] = StartOfTick]
    /\ UNCHANGED <<run, rows, runtime, worker>>

-----------------------------------------------------------------------------

Next ==
    \/ \E r \in Runs : \/ generateTabularReport(r)
                       \/ cleanupExpiredTabularReportRuns(r)
                       \/ GoStale(r)
    \/ \E p \in Processes : Tick(p) \/ Crash(p) \/ LostStatement(p)
    \/ \E w \in Workers : \/ Work(w) \/ Beat(w)
                          \/ LostAfterCommit(w) \/ LostLeftover(w) \/ LostCall(w)

Spec == Init /\ [][Next]_vars

\* A process ticks every two seconds and is restarted when it dies, a call ends in
\* one of its ways, and a heartbeat nobody renews gets old.
FairSpec ==
    /\ Spec
    /\ \A p \in Processes : WF_vars(Tick(p))
    /\ \A w \in Workers : WF_vars(Work(w))
    /\ \A r \in Runs : WF_vars(GoStale(r))

-----------------------------------------------------------------------------
(* Safety *)

\* The snapshot of a completed run is whole: as many rows as the run counts, all
\* written by one attempt, although a worker presumed dead may be writing the same
\* run at the same time.  A run still to be made shows none.
StoredSnapshotIsWhole ==
    \A r \in Runs :
        /\ Is(r, "completed") => /\ Cardinality(rows[r]) = run[r].count
                                 /\ \E a \in 1 .. MaxAttempts : \A row \in rows[r] : row.by = a
        /\ run[r].status \in {"queued", "running"} => rows[r] = {}

\* No two workers work on one run as the same attempt, and there are no more
\* attempts than allowed: a requeue that comes late counts what happened since.
AttemptsAreLimited ==
    \A w, v \in SlotsTaken :
        /\ worker[w].attempt <= MaxAttempts
        /\ w # v /\ worker[w].run = worker[v].run => worker[w].attempt # worker[v].attempt

\* An answered run is not made again by the ticks, however late the statement that
\* saw it running.
AnsweredIsNotRequeued ==
    [][\A r \in Runs : run[r].status \in {"completed", "failed"} =>
                          run'[r].status \notin {"queued", "running"}]_vars

\* A running run that no worker will answer and no tick can find.
WorkedOn(r) == \E w \in SlotsTaken : worker[w].run = r
Stranded(r) == Is(r, "running") /\ runtime[r] = "none" /\ ~WorkedOn(r)

-----------------------------------------------------------------------------
(* Liveness *)

\* A requested report is answered: it completes or fails, whatever dies on the
\* way, unless its heartbeat row is lost.
EveryRunIsAnswered ==
    \A r \in Runs : Is(r, "queued") ~>
                        (run[r].status \in {"completed", "failed"} \/ Stranded(r))

-----------------------------------------------------------------------------
(* What the documents say and the code does not do *)

\* reporting-analytics.md:731: work that stopped is recovered from an expired
\* heartbeat, so there is a heartbeat to expire.
StoppedIsRecoverable == \A r \in Runs : ~Stranded(r)
=============================================================================
