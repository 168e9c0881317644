--------------------------- MODULE ReportRunsProofs ---------------------------
(***************************************************************************)
(* Theorems about ReportRuns, for any number of processes, runs, slots and *)
(* attempts.                                                               *)
(***************************************************************************)
EXTENDS ReportRunsRefinement, FiniteSetTheorems, TLAPS

-----------------------------------------------------------------------------
(* Types *)

LEMMA SizesAreNat == Sizes \cup {0} \subseteq Nat
  <1>1. Sizes \subseteq Nat
    BY ReportAssumption, Zenon DEF ReportAssumption
  <1>2. {0} \subseteq Nat
    OBVIOUS
  <1>3. QED
    BY <1>1, <1>2, Zenon

LEMMA AtRestIsCall == AtRest \in Call /\ Ready \in Call
  <1>1. 1 \in Runs
    BY ReportAssumption DEF Runs
  <1>2. AtRest \in Call
    BY <1>1 DEF AtRest, Call
  <1>3. QED
    BY <1>2 DEF Ready, Call

LEMMA DirtyIsCall ==
    ASSUME NEW wk \in Call, NEW changed
    PROVE  NowDirty(wk, changed) \in Call
  BY DEF NowDirty, Call

LEMMA MovedType ==
    ASSUME worker \in [Workers -> Call], NEW w \in Workers, NEW to \in Call, NEW changed
    PROVE  Moved(w, to, changed) \in [Workers -> Call]
  BY DirtyIsCall DEF Moved

LEMMA EndedType ==
    ASSUME worker \in [Workers -> Call], NEW w \in Workers,
           NEW phase \in Working
    PROVE  Ended(w, phase) \in Call
  BY DEF Ended, Call

LEMMA TypeInit == Init => TypeOK
  BY AtRestIsCall, ReportAssumption
     DEF Init, TypeOK, RunRow, Place, Statuses, StartOfTick, Statements

LEMMA ForgottenType ==
    ASSUME TypeOK, NEW gone
    PROVE  Forgotten(gone) \in [Processes -> Place]
  <1>1. ASSUME NEW p \in Processes
        PROVE  [tick[p] EXCEPT !.matched = @ \ gone] \in Place /\ tick[p] \in Place
    BY DEF TypeOK, Place
  <1>2. QED
    BY <1>1 DEF Forgotten

LEMMA AdvanceType ==
    ASSUME TypeOK, NEW p \in Processes, NEW workers \in [Workers -> Call], NEW gone,
           tick[p].at \in Statements, Advance(p, workers, gone)
    PROVE  /\ tick' \in [Processes -> Place]
           /\ worker' \in [Workers -> Call]
  <1>1. After(tick[p].at) \in Statements \cup {"work"}
    BY DEF After, Statements
  <1>2. [at |-> After(tick[p].at), open |-> FALSE, matched |-> {}] \in Place
    BY <1>1 DEF Place
  <1>3. QED
    BY <1>2, AtRestIsCall, ForgottenType DEF Advance

LEMMA RunsTypes ==
    ASSUME TypeOK, NEW r \in Runs,
           generateTabularReport(r) \/ cleanupExpiredTabularReportRuns(r) \/ GoStale(r)
    PROVE  TypeOK'
  <1>1. CASE generateTabularReport(r)
    <2>1. [run[r] EXCEPT !.status = "queued"] \in RunRow
      BY DEF TypeOK, RunRow, Statuses
    <2>2. QED
      BY <1>1, <2>1 DEF generateTabularReport, TypeOK
  <1>2. CASE cleanupExpiredTabularReportRuns(r)
    <2>1. [run[r] EXCEPT !.status = "deleted"] \in RunRow
      BY DEF TypeOK, RunRow, Statuses
    <2>2. worker' \in [Workers -> Call]
      BY <1>2, DirtyIsCall DEF cleanupExpiredTabularReportRuns, TypeOK
    <2>3. tick' \in [Processes -> Place]
      BY <1>2, ForgottenType DEF cleanupExpiredTabularReportRuns
    <2>4. QED
      BY <1>2, <2>1, <2>2, <2>3 DEF cleanupExpiredTabularReportRuns, TypeOK
  <1>3. CASE GoStale(r)
    BY <1>3 DEF GoStale, TypeOK
  <1>4. QED
    BY <1>1, <1>2, <1>3

LEMMA TickTypes ==
    ASSUME TypeOK, NEW p \in Processes, Tick(p)
    PROVE  TypeOK'
  <1>0. tick[p] \in Place
    BY DEF TypeOK
  <1>1. CASE Match(p)
    <2>1. CASE Matches(tick[p].at) = {}
      <3>1. Advance(p, worker, {}) /\ tick[p].at \in Statements
        BY <1>1, <2>1 DEF Match
      <3>2. QED
        BY <1>1, <3>1, AdvanceType DEF Match, TypeOK
    <2>2. CASE Matches(tick[p].at) # {}
      <3>1. Matches(tick[p].at) \in SUBSET Runs
        BY DEF Matches
      <3>2. [tick[p] EXCEPT !.open = TRUE, !.matched = Matches(tick[p].at)] \in Place
        BY <1>0, <3>1 DEF Place
      <3>3. QED
        BY <1>1, <2>2, <3>2 DEF Match, TypeOK
    <2>3. QED
      BY <2>1, <2>2
  <1>2. CASE Apply(p)
    <2> DEFINE hit == {r \in tick[p].matched : StillMatches(tick[p].at, r)}
    <2> DEFINE dirtied == [w \in Workers |-> NowDirty(worker[w], hit)]
    <2>1. dirtied \in [Workers -> Call]
      BY DirtyIsCall DEF TypeOK
    <2>2. CASE tick[p].at = "leftover"
      <3>1. Advance(p, worker, hit) /\ UNCHANGED <<run, rows, faults>>
        BY <1>2, <2>2 DEF Apply
      <3>2. runtime' = [r \in Runs |-> IF r \in hit THEN "none" ELSE runtime[r]]
        BY <1>2, <2>2 DEF Apply
      <3>3. QED
        BY <2>2, <3>1, <3>2, AdvanceType DEF TypeOK, Statements
    <2>3. CASE tick[p].at # "leftover"
      <3> DEFINE to == IF tick[p].at = "exhaust" THEN "failed" ELSE "queued"
      <3>1. Advance(p, dirtied, {}) /\ UNCHANGED <<runtime, rows, faults>>
        BY <1>2, <2>3 DEF Apply
      <3>2. run' = [r \in Runs |-> IF r \in hit THEN [run[r] EXCEPT !.status = to] ELSE run[r]]
        BY <1>2, <2>3 DEF Apply
      <3>3. ASSUME NEW r \in Runs PROVE [run[r] EXCEPT !.status = to] \in RunRow
        BY DEF TypeOK, RunRow, Statuses
      <3>4. run' \in [Runs -> RunRow]
        BY <3>2, <3>3 DEF TypeOK
      <3>5. tick[p].at \in Statements
        BY <1>2 DEF Apply
      <3>6. QED
        BY <2>1, <3>1, <3>4, <3>5, AdvanceType DEF TypeOK
    <2>4. QED
      BY <2>2, <2>3
  <1>3. CASE EndTick(p)
    BY <1>3 DEF EndTick, TypeOK, Place, StartOfTick, Statements
  <1>4. QED
    BY <1>1, <1>2, <1>3 DEF Tick

LEMMA CommitTypes ==
    ASSUME TypeOK, NEW w \in Workers, CommitSnapshot(w)
    PROVE  TypeOK'
  <1> DEFINE r == worker[w].run
  <1>1. worker[w] \in Call /\ r \in Runs /\ run[r] \in RunRow /\ rows[r] \subseteq Row
    BY DEF TypeOK, Call
  <1>2. run' \in [Runs -> RunRow]
    <2>1. [run[r] EXCEPT !.status = "completed", !.count = worker[w].size] \in RunRow
      BY <1>1 DEF RunRow, Call, Statuses
    <2>2. run' = IF Stored(r)
                 THEN [run EXCEPT ![r] = [run[r] EXCEPT !.status = "completed",
                                                        !.count = worker[w].size]]
                 ELSE run
      BY <1>1 DEF CommitSnapshot, Completed, TypeOK, RunRow
    <2>3. QED
      BY <1>1, <2>1, <2>2 DEF TypeOK
  <1>3. rows' \in [Runs -> SUBSET Row]
    <2>1. Snapshot(w) \subseteq Row
      BY <1>1, ReportAssumption DEF Snapshot, SnapshotOf, Row, Call
    <2>2. Others(w) \subseteq Row
      BY <1>1 DEF Others
    <2>3. QED
      BY <2>1, <2>2 DEF CommitSnapshot, TypeOK
  <1>4. worker' \in [Workers -> Call]
    BY MovedType, EndedType DEF CommitSnapshot, Working, TypeOK
  <1>5. QED
    BY <1>2, <1>3, <1>4 DEF CommitSnapshot, TypeOK

LEMMA WorkTypes ==
    ASSUME TypeOK, NEW w \in Workers, Work(w) \/ Beat(w)
    PROVE  TypeOK'
  <1>0. worker[w] \in Call /\ worker[w].run \in Runs
    BY DEF TypeOK, Call
  <1>1. CASE claimNextRun(w)
    <2>1. PICK r \in Runs :
            /\ run' = [run EXCEPT ![r].status = "running", ![r].attempts = @ + 1]
            /\ runtime' = [runtime EXCEPT ![r] = "fresh"]
            /\ worker' = Moved(w, [worker[w] EXCEPT !.phase = "claimed", !.run = r,
                                                    !.attempt = run[r].attempts + 1], {r})
            /\ UNCHANGED <<rows, tick, faults>>
      BY <1>1 DEF claimNextRun
    <2>2. run[r].attempts + 1 \in Nat
      BY DEF TypeOK, RunRow
    <2>3. [run[r] EXCEPT !.status = "running", !.attempts = run[r].attempts + 1] \in RunRow
      BY <2>2 DEF TypeOK, RunRow, Statuses
    <2>4. run' = [run EXCEPT ![r] = [run[r] EXCEPT !.status = "running",
                                                   !.attempts = run[r].attempts + 1]]
      BY <2>1 DEF TypeOK, RunRow
    <2>5. [worker[w] EXCEPT !.phase = "claimed", !.run = r,
                            !.attempt = run[r].attempts + 1] \in Call
      BY <1>0, <2>2 DEF Call, Working
    <2>6. worker' \in [Workers -> Call]
      BY <2>1, <2>5, MovedType DEF TypeOK
    <2>7. QED
      BY <2>1, <2>3, <2>4, <2>6 DEF TypeOK
  <1>2. CASE NothingToClaim(w)
    BY <1>2, AtRestIsCall DEF NothingToClaim, TypeOK
  <1>3. CASE StartSnapshot(w)
    <2>1. PICK size \in Sizes :
            worker' = [worker EXCEPT ![w].phase = "snapshot", ![w].size = size,
                                     ![w].old = rows[worker[w].run]]
      BY <1>3 DEF StartSnapshot
    <2>2. [worker[w] EXCEPT !.phase = "snapshot", !.size = size,
                            !.old = rows[worker[w].run]] \in Call
      BY <1>0 DEF Call, Working, TypeOK
    <2>3. worker' = [worker EXCEPT ![w] = [worker[w] EXCEPT !.phase = "snapshot",
                                             !.size = size, !.old = rows[worker[w].run]]]
      BY <1>0, <2>1 DEF TypeOK, Call
    <2>4. QED
      BY <1>3, <2>2, <2>3 DEF StartSnapshot, TypeOK
  <1>4. CASE CommitSnapshot(w)
    BY <1>4, CommitTypes
  <1>5. CASE Fail(w)
    BY <1>5, EndedType DEF Fail, Working, TypeOK
  <1>6. CASE RecordFailure(w)
    <2>1. [run[worker[w].run] EXCEPT !.status = "failed"] \in RunRow
      BY <1>0 DEF TypeOK, RunRow, Statuses
    <2>2. [worker[w] EXCEPT !.phase = "dropping"] \in Call
      BY <1>0 DEF Call, Working
    <2>3. worker' \in [Workers -> Call]
      BY <1>6, <2>2, MovedType DEF RecordFailure, TypeOK
    <2>4. QED
      BY <1>0, <1>6, <2>1, <2>3 DEF RecordFailure, TypeOK
  <1>7. CASE DropRuntime(w)
    <2>1. tick' \in [Processes -> Place]
      BY <1>7, ForgottenType DEF DropRuntime
    <2>2. QED
      BY <1>0, <1>7, <2>1, AtRestIsCall DEF DropRuntime, TypeOK
  <1>8. CASE Beat(w)
    BY <1>0, <1>8 DEF Beat, TypeOK
  <1>9. QED
    BY <1>1, <1>2, <1>3, <1>4, <1>5, <1>6, <1>7, <1>8 DEF Work

LEMMA FaultTypes ==
    ASSUME TypeOK, Faulty, UNCHANGED <<run, rows, runtime>>,
           worker' \in [Workers -> Call],
           tick' \in [Processes -> Place]
    PROVE  TypeOK'
  BY ReportAssumption DEF Faulty, TypeOK

LEMMA PlaceType == StartOfTick \in Place
  BY DEF StartOfTick, Place, Statements

LEMMA ProcessFaultTypes ==
    ASSUME TypeOK, NEW p \in Processes, Crash(p) \/ LostStatement(p)
    PROVE  TypeOK'
  <1>1. CASE Crash(p)
    BY <1>1, FaultTypes, AtRestIsCall, PlaceType DEF Crash, TypeOK
  <1>2. CASE LostStatement(p)
    BY <1>2, FaultTypes, PlaceType DEF LostStatement, TypeOK
  <1>3. QED
    BY <1>1, <1>2

LEMMA CallFaultTypes ==
    ASSUME TypeOK, NEW w \in Workers,
           LostAfterCommit(w) \/ LostLeftover(w) \/ LostCall(w)
    PROVE  TypeOK'
  <1>0. worker[w] \in Call /\ w[1] \in Processes
    BY DEF TypeOK, Workers
  <1>1. CASE LostAfterCommit(w)
    <2>1. [worker[w] EXCEPT !.phase = "failing"] \in Call
      BY <1>0 DEF Call, Working
    <2>2. QED
      BY <1>1, <2>1, FaultTypes DEF LostAfterCommit, TypeOK
  <1>2. CASE LostLeftover(w)
    BY <1>2, FaultTypes, AtRestIsCall DEF LostLeftover, TypeOK
  <1>3. CASE LostCall(w)
    <2>1. ASSUME NEW v \in Workers PROVE [worker[v] EXCEPT !.awaited = FALSE] \in Call
      BY DEF TypeOK, Call
    <2>2. worker' \in [Workers -> Call]
      BY <1>3, <2>1, AtRestIsCall DEF LostCall, TypeOK
    <2>3. tick' \in [Processes -> Place]
      BY <1>0, <1>3, PlaceType DEF LostCall, TypeOK
    <2>4. QED
      BY <1>3, <2>2, <2>3, FaultTypes DEF LostCall
  <1>4. QED
    BY <1>1, <1>2, <1>3

LEMMA TypeNext == TypeOK /\ [Next]_vars => TypeOK'
  <1> SUFFICES ASSUME TypeOK, [Next]_vars PROVE TypeOK'
    OBVIOUS
  <1>1. ASSUME NEW r \in Runs,
               generateTabularReport(r) \/ cleanupExpiredTabularReportRuns(r) \/ GoStale(r)
        PROVE  TypeOK'
    BY <1>1, RunsTypes
  <1>2. ASSUME NEW p \in Processes, Tick(p) \/ Crash(p) \/ LostStatement(p)
        PROVE  TypeOK'
    BY <1>2, TickTypes, ProcessFaultTypes
  <1>3. ASSUME NEW w \in Workers,
               Work(w) \/ Beat(w) \/ LostAfterCommit(w) \/ LostLeftover(w) \/ LostCall(w)
        PROVE  TypeOK'
    BY <1>3, WorkTypes, CallFaultTypes
  <1>4. CASE UNCHANGED vars
    BY <1>4 DEF vars, TypeOK
  <1>5. QED
    BY <1>1, <1>2, <1>3, <1>4 DEF Next

\* The tables and the processes' memory keep their shape, for any number of
\* processes and runs.
THEOREM TypeCorrect == Spec => []TypeOK
  BY TypeInit, TypeNext, PTL DEF Spec

-----------------------------------------------------------------------------
(* An answered run is not requeued *)

\* The two statements of a tick that write report_runs act on running runs only.
LEMMA ApplyActsOnRunning ==
    ASSUME TypeOK, NEW p \in Processes, Apply(p), NEW r \in Runs, run'[r] # run[r]
    PROVE  /\ Is(r, "running")
           /\ run'[r].status \in {"failed", "queued"}
           /\ run'[r].status = "queued" => run[r].attempts < MaxAttempts
           /\ run'[r].attempts = run[r].attempts
  <1> DEFINE hit == {q \in tick[p].matched : StillMatches(tick[p].at, q)}
  <1> DEFINE to == IF tick[p].at = "exhaust" THEN "failed" ELSE "queued"
  <1>0. run[r] \in RunRow /\ tick[p].matched \subseteq Runs
    BY DEF TypeOK, Place
  <1>1. tick[p].at \in {"exhaust", "requeue"}
    BY DEF Apply, Statements
  <1>2. run' = [q \in Runs |-> IF q \in hit THEN [run[q] EXCEPT !.status = to] ELSE run[q]]
    BY <1>1 DEF Apply
  <1>3. r \in hit /\ run'[r] = [run[r] EXCEPT !.status = to]
    BY <1>2
  <1>4. StillMatches(tick[p].at, r)
    BY <1>3
  <1>5. CASE tick[p].at = "exhaust"
    <2>1. Exhausted(r)
      BY <1>4, <1>5 DEF StillMatches
    <2>2. QED
      BY <1>0, <1>3, <1>5, <2>1 DEF Exhausted, Is, RunRow
  <1>6. CASE tick[p].at = "requeue"
    <2>1. Retryable(r)
      BY <1>4, <1>6 DEF StillMatches
    <2>2. QED
      BY <1>0, <1>3, <1>6, <2>1 DEF Retryable, Is, RunRow
  <1>7. QED
    BY <1>1, <1>5, <1>6

\* What becomes of a run in one step, other than by a claim.
RunMoves(r) ==
    /\ run'[r].attempts = run[r].attempts
    /\ \/ run'[r].status = run[r].status
       \/ Is(r, "none") /\ run'[r].status = "queued"
       \/ Is(r, "running") /\ run[r].attempts < MaxAttempts /\ run'[r].status = "queued"
       \/ run'[r].status \in {"completed", "failed", "deleted"}

LEMMA OnlyClaimsAttempt ==
    ASSUME TypeOK, Next, ~\E w \in Workers : claimNextRun(w), NEW r \in Runs
    PROVE  RunMoves(r)
  <1>0. run[r] \in RunRow
    BY DEF TypeOK
  <1>1. CASE run' = run
    BY <1>1 DEF RunMoves
  <1>2. ASSUME NEW q \in Runs, generateTabularReport(q) PROVE RunMoves(r)
    BY <1>0, <1>2 DEF generateTabularReport, RunMoves, Is, TypeOK, RunRow
  <1>3. ASSUME NEW q \in Runs, cleanupExpiredTabularReportRuns(q) PROVE RunMoves(r)
    BY <1>0, <1>3 DEF cleanupExpiredTabularReportRuns, RunMoves, TypeOK, RunRow
  <1>4. ASSUME NEW q \in Runs, GoStale(q) PROVE RunMoves(r)
    BY <1>1, <1>4 DEF GoStale
  <1>5. ASSUME NEW p \in Processes, Tick(p) PROVE RunMoves(r)
    <2>1. CASE Match(p) \/ EndTick(p)
      BY <1>1, <2>1 DEF Match, EndTick
    <2>2. CASE Apply(p)
      BY <2>2, ApplyActsOnRunning DEF RunMoves
    <2>3. QED
      BY <1>5, <2>1, <2>2 DEF Tick
  <1>6. ASSUME NEW w \in Workers, Work(w) \/ Beat(w) PROVE RunMoves(r)
    <2>1. CASE CommitSnapshot(w)
      BY <1>0, <2>1 DEF CommitSnapshot, Completed, RunMoves, TypeOK, RunRow
    <2>2. CASE RecordFailure(w)
      BY <1>0, <2>2 DEF RecordFailure, RunMoves, TypeOK, RunRow
    <2>3. CASE NothingToClaim(w) \/ StartSnapshot(w) \/ Fail(w) \/ DropRuntime(w) \/ Beat(w)
      BY <1>1, <2>3 DEF NothingToClaim, StartSnapshot, Fail, DropRuntime, Beat
    <2>4. QED
      BY <1>6, <2>1, <2>2, <2>3 DEF Work
  <1>7. ASSUME NEW p \in Processes, Crash(p) \/ LostStatement(p) PROVE RunMoves(r)
    BY <1>1, <1>7 DEF Crash, LostStatement
  <1>8. ASSUME NEW w \in Workers, LostAfterCommit(w) \/ LostLeftover(w) \/ LostCall(w)
        PROVE  RunMoves(r)
    BY <1>1, <1>8 DEF LostAfterCommit, LostLeftover, LostCall
  <1>9. QED
    BY <1>2, <1>3, <1>4, <1>5, <1>6, <1>7, <1>8 DEF Next

\* A claim takes one queued run.
LEMMA ClaimEffect ==
    ASSUME TypeOK, NEW w \in Workers, claimNextRun(w)
    PROVE  \E r \in Runs :
              /\ Is(r, "queued")
              /\ worker[w].phase = "ready"
              /\ run' = [run EXCEPT ![r] = [run[r] EXCEPT !.status = "running",
                                               !.attempts = run[r].attempts + 1]]
              /\ worker' = Moved(w, [worker[w] EXCEPT !.phase = "claimed", !.run = r,
                                                      !.attempt = run[r].attempts + 1], {r})
  <1>1. PICK r \in Runs :
          /\ worker[w].phase = "ready"
          /\ NextQueued(w, r)
          /\ run' = [run EXCEPT ![r].status = "running", ![r].attempts = @ + 1]
          /\ worker' = Moved(w, [worker[w] EXCEPT !.phase = "claimed", !.run = r,
                                                  !.attempt = run[r].attempts + 1], {r})
    BY DEF claimNextRun
  <1>2. run' = [run EXCEPT ![r] = [run[r] EXCEPT !.status = "running",
                                                 !.attempts = run[r].attempts + 1]]
    BY <1>1 DEF TypeOK, RunRow
  <1>3. QED
    BY <1>1, <1>2 DEF NextQueued

\* A completed or failed run is not made again, whatever a tick saw before.
THEOREM AnsweredStays == Spec => AnsweredIsNotRequeued
  <1>1. TypeOK /\ [Next]_vars =>
          [\A r \in Runs : run[r].status \in {"completed", "failed"} =>
                              run'[r].status \notin {"queued", "running"}]_vars
    <2> SUFFICES ASSUME TypeOK, Next, NEW r \in Runs,
                        run[r].status \in {"completed", "failed"}
                 PROVE  run'[r].status \notin {"queued", "running"}
      BY DEF vars
    <2>1. CASE \E w \in Workers : claimNextRun(w)
      <3>1. PICK w \in Workers : claimNextRun(w)
        BY <2>1
      <3>2. PICK q \in Runs :
              /\ Is(q, "queued")
              /\ run' = [run EXCEPT ![q] = [run[q] EXCEPT !.status = "running",
                                               !.attempts = run[q].attempts + 1]]
        BY <3>1, ClaimEffect
      <3>3. QED
        BY <3>2 DEF Is, TypeOK
    <2>2. CASE ~\E w \in Workers : claimNextRun(w)
      BY <2>2, OnlyClaimsAttempt DEF RunMoves, Is
    <2>3. QED
      BY <2>1, <2>2
  <1>2. QED
    BY <1>1, TypeCorrect, PTL DEF Spec, AnsweredIsNotRequeued

-----------------------------------------------------------------------------
(* Attempts are limited *)

\* Only runs with an attempt left are queued; a call works as an attempt its run
\* has counted, and as a different one than any other call on that run.
CountedRuns ==
    \A r \in Runs : /\ run[r].attempts <= MaxAttempts
                    /\ run[r].status \in {"none", "queued"} => run[r].attempts < MaxAttempts
CountedCalls ==
    \A w \in Workers : worker[w].phase \in Working =>
                           worker[w].attempt <= run[worker[w].run].attempts
DistinctAttempts ==
    \A w, v \in Workers :
        (/\ w # v
         /\ worker[w].phase \in Working /\ worker[v].phase \in Working
         /\ worker[w].run = worker[v].run) => worker[w].attempt # worker[v].attempt
AttemptInv == CountedRuns /\ CountedCalls /\ DistinctAttempts

\* A call goes on with the run and the attempt it claimed.
Continues(v) ==
    worker'[v].phase \in Working =>
        /\ worker[v].phase \in Working
        /\ worker'[v].run = worker[v].run
        /\ worker'[v].attempt = worker[v].attempt

LEMMA DirtyContinues ==
    ASSUME NEW wk \in Call, NEW changed
    PROVE  /\ NowDirty(wk, changed).phase = wk.phase
           /\ NowDirty(wk, changed).run = wk.run
           /\ NowDirty(wk, changed).attempt = wk.attempt
  BY DEF NowDirty, Call

LEMMA RestIsNotWorking ==
    /\ AtRest.phase \notin Working
    /\ Ready.phase \notin Working
  BY DEF AtRest, Ready, Working

LEMMA MovedContinues ==
    ASSUME TypeOK, NEW w \in Workers, NEW to \in Call, NEW changed,
           worker' = Moved(w, to, changed),
           worker[w].phase \in Working, to.run = worker[w].run,
           to.attempt = worker[w].attempt,
           NEW v \in Workers
    PROVE  Continues(v)
  <1>1. worker[v] \in Call
    BY DEF TypeOK
  <1>2. QED
    BY <1>1, DirtyContinues DEF Moved, Continues

LEMMA AdvanceContinues ==
    ASSUME NEW p \in Processes, NEW workers, NEW gone, Advance(p, workers, gone),
           NEW v \in Workers,
           workers[v].phase = worker[v].phase,
           workers[v].run = worker[v].run,
           workers[v].attempt = worker[v].attempt
    PROVE  Continues(v)
  BY RestIsNotWorking DEF Advance, Continues

LEMMA CallsContinue ==
    ASSUME TypeOK, Next, ~\E w \in Workers : claimNextRun(w), NEW v \in Workers
    PROVE  Continues(v)
  <1>0. worker[v] \in Call
    BY DEF TypeOK
  <1>1. CASE worker' = worker
    BY <1>1 DEF Continues
  <1>2. ASSUME NEW r \in Runs,
               generateTabularReport(r) \/ cleanupExpiredTabularReportRuns(r) \/ GoStale(r)
        PROVE  Continues(v)
    <2>1. CASE cleanupExpiredTabularReportRuns(r)
      BY <1>0, <2>1, DirtyContinues DEF cleanupExpiredTabularReportRuns, Continues
    <2>2. QED
      BY <1>1, <1>2, <2>1 DEF generateTabularReport, GoStale
  <1>3. ASSUME NEW p \in Processes, Tick(p) PROVE Continues(v)
    <2>1. CASE Match(p)
      BY <1>1, <2>1, AdvanceContinues DEF Match
    <2>2. CASE Apply(p)
      <3> DEFINE hit == {r \in tick[p].matched : StillMatches(tick[p].at, r)}
      <3> DEFINE dirtied == [w \in Workers |-> NowDirty(worker[w], hit)]
      <3>1. Advance(p, worker, hit) \/ Advance(p, dirtied, {})
        BY <2>2 DEF Apply
      <3>2. /\ dirtied[v].phase = worker[v].phase
            /\ dirtied[v].run = worker[v].run
            /\ dirtied[v].attempt = worker[v].attempt
        BY <1>0, DirtyContinues
      <3> HIDE DEF hit, dirtied
      <3>3. CASE Advance(p, worker, hit)
        BY <3>3, AdvanceContinues
      <3>4. CASE Advance(p, dirtied, {})
        BY <3>2, <3>4, AdvanceContinues
      <3>5. QED
        BY <3>1, <3>3, <3>4
    <2>3. CASE EndTick(p)
      BY <1>1, <2>3 DEF EndTick
    <2>4. QED
      BY <1>3, <2>1, <2>2, <2>3 DEF Tick
  <1>4. ASSUME NEW w \in Workers, Work(w) \/ Beat(w) PROVE Continues(v)
    <2>0. worker[w] \in Call
      BY DEF TypeOK
    <2>1. CASE NothingToClaim(w) \/ DropRuntime(w)
      BY <2>1, RestIsNotWorking DEF NothingToClaim, DropRuntime, Continues, TypeOK
    <2>2. CASE StartSnapshot(w)
      BY <1>0, <2>0, <2>2 DEF StartSnapshot, Continues, TypeOK, Call, Working
    <2>3. CASE CommitSnapshot(w)
      <3> DEFINE to == Ended(w, "written")
      <3>1. to \in Call
        BY EndedType DEF TypeOK, Working
      <3>2. to.run = worker[w].run /\ to.attempt = worker[w].attempt
        BY <2>0 DEF Ended, Call
      <3>3. worker' = Moved(w, to, {worker[w].run}) /\ worker[w].phase \in Working
        BY <2>3 DEF CommitSnapshot, Working
      <3> HIDE DEF to
      <3>4. QED
        BY <3>1, <3>2, <3>3, MovedContinues
    <2>4. CASE Fail(w)
      BY <2>0, <2>4 DEF Fail, Ended, Continues, TypeOK, Call, Working
    <2>5. CASE RecordFailure(w)
      <3> DEFINE to == [worker[w] EXCEPT !.phase = "dropping"]
      <3>1. to \in Call /\ to.run = worker[w].run /\ to.attempt = worker[w].attempt
        BY <2>0 DEF Call, Working
      <3>2. QED
        BY <2>5, <3>1, MovedContinues DEF RecordFailure, Working
    <2>6. CASE Beat(w)
      BY <1>1, <2>6 DEF Beat
    <2>7. QED
      BY <1>4, <2>1, <2>2, <2>3, <2>4, <2>5, <2>6 DEF Work
  <1>5. ASSUME NEW p \in Processes, Crash(p) \/ LostStatement(p) PROVE Continues(v)
    BY <1>1, <1>5, RestIsNotWorking DEF Crash, LostStatement, Continues
  <1>6. ASSUME NEW w \in Workers, LostAfterCommit(w) \/ LostLeftover(w) \/ LostCall(w)
        PROVE  Continues(v)
    <2>0. worker[w] \in Call
      BY DEF TypeOK
    <2>1. CASE LostAfterCommit(w)
      BY <2>0, <2>1 DEF LostAfterCommit, Continues, TypeOK, Call, Working
    <2>2. CASE LostLeftover(w)
      BY <2>2, RestIsNotWorking DEF LostLeftover, Continues, TypeOK
    <2>3. CASE LostCall(w)
      BY <1>0, <2>3, RestIsNotWorking DEF LostCall, Continues, TypeOK, Call
    <2>4. QED
      BY <1>6, <2>1, <2>2, <2>3
  <1>7. QED
    BY <1>2, <1>3, <1>4, <1>5, <1>6 DEF Next

LEMMA AttemptInit == Init => AttemptInv
  BY ReportAssumption, RestIsNotWorking
     DEF Init, AttemptInv, CountedRuns, CountedCalls, DistinctAttempts

LEMMA ClaimKeepsAttempts ==
    ASSUME TypeOK, AttemptInv, NEW w \in Workers, claimNextRun(w)
    PROVE  AttemptInv'
  <1>1. PICK r \in Runs :
          /\ Is(r, "queued")
          /\ worker[w].phase = "ready"
          /\ run' = [run EXCEPT ![r] = [run[r] EXCEPT !.status = "running",
                                           !.attempts = run[r].attempts + 1]]
          /\ worker' = Moved(w, [worker[w] EXCEPT !.phase = "claimed", !.run = r,
                                                  !.attempt = run[r].attempts + 1], {r})
    BY ClaimEffect
  <1>2. \A q \in Runs : run[q].attempts \in Nat /\ run[q] \in RunRow
    BY DEF TypeOK, RunRow
  <1>3. /\ run'[r].attempts = run[r].attempts + 1 /\ run'[r].status = "running"
        /\ \A q \in Runs : q # r => run'[q] = run[q]
    BY <1>1, <1>2 DEF TypeOK, RunRow
  <1>4. worker'[w].run = r /\ worker'[w].attempt = run[r].attempts + 1
    BY <1>1 DEF Moved, TypeOK, Call
  <1>5. \A v \in Workers : v # w => /\ worker'[v].phase = worker[v].phase
                                    /\ worker'[v].run = worker[v].run
                                    /\ worker'[v].attempt = worker[v].attempt
    BY <1>1, DirtyContinues DEF Moved, TypeOK
  <1>6. \A v \in Workers : worker[v].run \in Runs /\ worker[v].attempt \in Nat
    BY DEF TypeOK, Call
  <1>7. CountedRuns'
    BY <1>1, <1>2, <1>3, ReportAssumption DEF AttemptInv, CountedRuns, Is
  <1>8. CountedCalls'
    <2> SUFFICES ASSUME NEW v \in Workers, worker'[v].phase \in Working
                 PROVE  worker'[v].attempt <= run'[worker'[v].run].attempts
      BY DEF CountedCalls
    <2>1. CASE v = w
      BY <1>2, <1>3, <1>4, <2>1
    <2>2. CASE v # w
      BY <1>2, <1>3, <1>5, <1>6, <2>2 DEF AttemptInv, CountedCalls
    <2>3. QED
      BY <2>1, <2>2
  <1>9. DistinctAttempts'
    <2>1. \A v \in Workers : (v # w /\ worker'[v].phase \in Working /\ worker'[v].run = r)
                                => worker'[v].attempt < run[r].attempts + 1
      BY <1>2, <1>5, <1>6 DEF AttemptInv, CountedCalls
    <2>2. \A v \in Workers : (v # w /\ worker'[v].phase \in Working /\ worker'[v].run = r)
                                => worker'[v].attempt # worker'[w].attempt
      BY <1>2, <1>4, <1>5, <1>6, <2>1
    <2>3. QED
      BY <1>4, <1>5, <2>2 DEF AttemptInv, DistinctAttempts
  <1>10. QED
    BY <1>7, <1>8, <1>9 DEF AttemptInv

LEMMA AttemptNext == TypeOK /\ AttemptInv /\ [Next]_vars => AttemptInv'
  <1> SUFFICES ASSUME TypeOK, AttemptInv, [Next]_vars PROVE AttemptInv'
    OBVIOUS
  <1>1. CASE \E w \in Workers : claimNextRun(w)
    BY <1>1, ClaimKeepsAttempts
  <1>2. CASE Next /\ ~\E w \in Workers : claimNextRun(w)
    <2>1. \A r \in Runs : RunMoves(r)
      BY <1>2, OnlyClaimsAttempt
    <2>2. \A v \in Workers : Continues(v)
      BY <1>2, CallsContinue
    <2>3. \A v \in Workers : worker[v].run \in Runs
      BY DEF TypeOK, Call
    <2>4. CountedRuns'
      BY <2>1 DEF AttemptInv, CountedRuns, RunMoves, Is
    <2>5. CountedCalls'
      BY <2>1, <2>2, <2>3 DEF AttemptInv, CountedCalls, RunMoves, Continues
    <2>6. DistinctAttempts'
      BY <2>2 DEF AttemptInv, DistinctAttempts, Continues
    <2>7. QED
      BY <2>4, <2>5, <2>6 DEF AttemptInv
  <1>3. CASE UNCHANGED vars
    BY <1>3 DEF vars, AttemptInv, CountedRuns, CountedCalls, DistinctAttempts
  <1>4. QED
    BY <1>1, <1>2, <1>3

\* No run is claimed more often than allowed, and no two calls work on it as the
\* same attempt.
THEOREM AttemptsLimited == Spec => []AttemptsAreLimited
  <1>1. TypeOK /\ AttemptInv => AttemptsAreLimited
    <2> SUFFICES ASSUME TypeOK, AttemptInv PROVE AttemptsAreLimited
      OBVIOUS
    <2>1. \A w \in Workers : worker[w].run \in Runs /\ worker[w].attempt \in Nat
      BY DEF TypeOK, Call
    <2>2. \A r \in Runs : run[r].attempts \in Nat
      BY DEF TypeOK, RunRow
    <2>3. \A w \in SlotsTaken : worker[w].attempt <= MaxAttempts
      BY <2>1, <2>2, ReportAssumption DEF AttemptInv, CountedCalls, CountedRuns, SlotsTaken
    <2>4. QED
      BY <2>3 DEF AttemptInv, DistinctAttempts, AttemptsAreLimited, SlotsTaken
  <1>2. QED
    BY <1>1, AttemptInit, AttemptNext, TypeCorrect, TypeNext, PTL DEF Spec

-----------------------------------------------------------------------------
(* The stored snapshot is whole *)

\* A completed run stores the snapshot of one attempt, only answered runs store
\* rows, and a transaction that may still commit has deleted all there are: rows
\* only change with the run's own row, which would have made it dirty.
WholeSnapshots ==
    \A r \in Runs : Is(r, "completed") =>
        \E a \in 1 .. MaxAttempts : rows[r] = SnapshotOf(a, run[r].count)
NoEarlyRows ==
    \A r \in Runs : run[r].status \notin {"completed", "failed"} => rows[r] = {}
CurrentOld ==
    \A w \in Workers : (worker[w].phase = "snapshot" /\ ~worker[w].dirty) =>
                          worker[w].old = rows[worker[w].run]
NumberedCalls ==
    \A w \in Workers : worker[w].phase \in Working => worker[w].attempt \in 1 .. MaxAttempts

SnapshotInv == WholeSnapshots /\ NoEarlyRows /\ CurrentOld /\ NumberedCalls

\* A step that leaves the rows of run r alone keeps what the run says of them.
RowsKept(r) ==
    /\ rows'[r] = rows[r]
    /\ Is(r, "completed")' => Is(r, "completed") /\ run'[r].count = run[r].count
    /\ run[r].status \in {"completed", "failed"} => run'[r].status \in {"completed", "failed"}

\* A transaction that may still commit after the step was one before.
Undisturbed(v) ==
    (worker'[v].phase = "snapshot" /\ ~worker'[v].dirty) =>
        /\ worker[v].phase = "snapshot" /\ ~worker[v].dirty
        /\ worker'[v].run = worker[v].run
        /\ worker'[v].old = worker[v].old

LEMMA DirtyUndisturbed ==
    ASSUME NEW wk \in Call, NEW changed
    PROVE  LET new == NowDirty(wk, changed)
           IN  /\ new.phase = wk.phase /\ new.run = wk.run /\ new.old = wk.old
               /\ ~new.dirty => ~wk.dirty
               /\ (new.phase = "snapshot" /\ ~new.dirty) => wk.run \notin changed
  BY DEF NowDirty, Call

LEMMA RestIsNoSnapshot == AtRest.phase # "snapshot" /\ Ready.phase # "snapshot"
  BY DEF AtRest, Ready

LEMMA MovedUndisturbed ==
    ASSUME TypeOK, NEW w \in Workers, NEW to, NEW changed,
           worker' = Moved(w, to, changed), to.phase # "snapshot", NEW v \in Workers
    PROVE  /\ Undisturbed(v)
           /\ (worker'[v].phase = "snapshot" /\ ~worker'[v].dirty) =>
                  worker[v].run \notin changed
  <1>1. CASE v = w
    BY <1>1 DEF Moved, Undisturbed
  <1>2. CASE v # w
    <2>1. worker'[v] = NowDirty(worker[v], changed) /\ worker[v] \in Call
      BY <1>2 DEF Moved, TypeOK
    <2>2. QED
      BY <2>1, DirtyUndisturbed DEF Undisturbed
  <1>3. QED
    BY <1>1, <1>2

LEMMA AdvanceUndisturbed ==
    ASSUME NEW p \in Processes, NEW workers, NEW gone, Advance(p, workers, gone),
           NEW v \in Workers,
           workers[v].phase = worker[v].phase,
           workers[v].run = worker[v].run,
           workers[v].old = worker[v].old,
           ~workers[v].dirty => ~worker[v].dirty
    PROVE  Undisturbed(v)
  BY RestIsNoSnapshot DEF Advance, Undisturbed

LEMMA SnapshotSize ==
    ASSUME NEW a, NEW size \in Nat
    PROVE  Cardinality(SnapshotOf(a, size)) = size
  <1> DEFINE f == [n \in 1 .. size |-> [by |-> a, number |-> n]]
  <1>1. IsFiniteSet(1 .. size) /\ Cardinality(1 .. size) = size
    BY FS_Interval
  <1>2. f \in Bijection(1 .. size, SnapshotOf(a, size))
    <2>1. f \in [1 .. size -> SnapshotOf(a, size)]
      BY DEF SnapshotOf
    <2>2. ASSUME NEW m \in 1 .. size, NEW n \in 1 .. size, f[m] = f[n] PROVE m = n
      <3>1. f[m].number = m /\ f[n].number = n
        OBVIOUS
      <3>2. QED
        BY <2>2, <3>1
    <2>3. \A row \in SnapshotOf(a, size) : \E n \in 1 .. size : f[n] = row
      BY DEF SnapshotOf
    <2>4. QED
      BY <2>1, <2>2, <2>3 DEF Bijection, Injection, Surjection, IsInjective
  <1>3. QED
    BY <1>1, <1>2, FS_Bijection DEF ExistsBijection

LEMMA CommitKeepsSnapshots ==
    ASSUME TypeOK, SnapshotInv, NEW w \in Workers, CommitSnapshot(w)
    PROVE  WholeSnapshots' /\ NoEarlyRows' /\ CurrentOld'
  <1> DEFINE r == worker[w].run
             size == worker[w].size
             a == worker[w].attempt
  <1>1. r \in Runs /\ size \in Nat /\ run[r] \in RunRow /\ worker[w] \in Call
    <2>1. worker[w] \in Call
      BY DEF TypeOK
    <2>2. r \in Runs /\ size \in Sizes \cup {0}
      BY <2>1 DEF Call
    <2>3. size \in Nat
      BY <2>2, SizesAreNat, Zenon
    <2>4. QED
      BY <2>1, <2>2, <2>3 DEF TypeOK
  <1>2. a \in 1 .. MaxAttempts
    BY DEF SnapshotInv, NumberedCalls, CommitSnapshot, Working
  <1>3. rows' = [rows EXCEPT ![r] = SnapshotOf(a, size)]
    <2>1. Others(w) = {}
      BY DEF SnapshotInv, CurrentOld, CommitSnapshot, CommitAllowed, Others
    <2>2. QED
      BY <2>1 DEF CommitSnapshot, Snapshot
  <1>4. \A q \in Runs : q # r => rows'[q] = rows[q] /\ run'[q] = run[q]
    BY <1>1, <1>3 DEF CommitSnapshot, Completed, TypeOK
  <1>5. ASSUME Stored(r) PROVE WholeSnapshots' /\ NoEarlyRows'
    <2>1. run'[r].status = "completed" /\ run'[r].count = size
      BY <1>1, <1>5 DEF CommitSnapshot, Completed, TypeOK, RunRow
    <2>2. rows'[r] = SnapshotOf(a, size)
      BY <1>1, <1>3 DEF TypeOK
    <2>3. QED
      BY <1>2, <1>4, <2>1, <2>2 DEF SnapshotInv, WholeSnapshots, NoEarlyRows, Is
  <1>6. ASSUME ~Stored(r) PROVE WholeSnapshots' /\ NoEarlyRows'
    <2>1. run' = run /\ size = 0
      BY <1>6 DEF CommitSnapshot, Completed, CommitAllowed
    <2>2. rows'[r] = {}
      BY <1>1, <1>3, <2>1 DEF TypeOK, SnapshotOf
    <2>3. QED
      BY <1>4, <1>6, <2>1, <2>2 DEF SnapshotInv, WholeSnapshots, NoEarlyRows, Is, Stored
  <1>7. CurrentOld'
    <2> DEFINE to == Ended(w, "written")
    <2>1. worker' = Moved(w, to, {r}) /\ to.phase # "snapshot"
      BY <1>1 DEF CommitSnapshot, Ended, Call
    <2> HIDE DEF to
    <2>2. \A v \in Workers :
            /\ Undisturbed(v)
            /\ (worker'[v].phase = "snapshot" /\ ~worker'[v].dirty) => worker[v].run # r
      BY <2>1, MovedUndisturbed
    <2>3. \A v \in Workers : worker[v].run \in Runs
      BY DEF TypeOK, Call
    <2>4. QED
      BY <1>4, <2>2, <2>3 DEF SnapshotInv, CurrentOld, Undisturbed
  <1>8. QED
    BY <1>5, <1>6, <1>7

LEMMA CleanUpKeepsSnapshots ==
    ASSUME TypeOK, SnapshotInv, NEW r \in Runs, cleanupExpiredTabularReportRuns(r)
    PROVE  WholeSnapshots' /\ NoEarlyRows' /\ CurrentOld'
  <1>1. /\ rows'[r] = {} /\ run'[r].status = "deleted"
        /\ \A q \in Runs : q # r => rows'[q] = rows[q] /\ run'[q] = run[q]
    BY DEF cleanupExpiredTabularReportRuns, TypeOK, RunRow
  <1>2. WholeSnapshots' /\ NoEarlyRows'
    BY <1>1 DEF SnapshotInv, WholeSnapshots, NoEarlyRows, Is
  <1>3. \A v \in Workers : worker[v] \in Call /\ worker[v].run \in Runs
                            /\ worker'[v] = NowDirty(worker[v], {r})
    BY DEF cleanupExpiredTabularReportRuns, TypeOK, Call
  <1>4. CurrentOld'
    BY <1>1, <1>3, DirtyUndisturbed DEF SnapshotInv, CurrentOld
  <1>5. QED
    BY <1>2, <1>4

\* Every other step leaves the stored rows alone.
OtherStep ==
    /\ Next
    /\ \A w \in Workers : ~CommitSnapshot(w)
    /\ \A r \in Runs : ~cleanupExpiredTabularReportRuns(r)

LEMMA OthersKeepRows ==
    ASSUME TypeOK, OtherStep, NEW r \in Runs
    PROVE  RowsKept(r)
  <1>0. run[r] \in RunRow
    BY DEF TypeOK
  <1>1. CASE run' = run /\ rows' = rows
    BY <1>1 DEF RowsKept, Is
  <1>2. ASSUME NEW q \in Runs, generateTabularReport(q) \/ GoStale(q) PROVE RowsKept(r)
    <2>1. CASE generateTabularReport(q)
      BY <1>0, <2>1 DEF generateTabularReport, RowsKept, Is, TypeOK, RunRow
    <2>2. QED
      BY <1>1, <1>2, <2>1 DEF GoStale
  <1>3. ASSUME NEW p \in Processes, Tick(p) PROVE RowsKept(r)
    <2>1. CASE Match(p) \/ EndTick(p)
      BY <1>1, <2>1 DEF Match, EndTick
    <2>2. CASE Apply(p)
      <3>1. rows' = rows
        BY <2>2 DEF Apply
      <3>2. QED
        BY <2>2, <3>1, ApplyActsOnRunning DEF RowsKept, Is
    <2>3. QED
      BY <1>3, <2>1, <2>2 DEF Tick
  <1>4. ASSUME NEW w \in Workers, Work(w) \/ Beat(w) PROVE RowsKept(r)
    <2>1. CASE claimNextRun(w)
      <3>1. PICK q \in Runs :
              /\ Is(q, "queued")
              /\ run' = [run EXCEPT ![q] = [run[q] EXCEPT !.status = "running",
                                               !.attempts = run[q].attempts + 1]]
        BY <2>1, ClaimEffect
      <3>2. rows' = rows
        BY <2>1 DEF claimNextRun
      <3>3. QED
        BY <1>0, <3>1, <3>2 DEF RowsKept, Is, TypeOK, RunRow
    <2>2. CASE RecordFailure(w)
      BY <1>0, <2>2 DEF RecordFailure, RowsKept, Is, TypeOK, RunRow
    <2>3. CASE NothingToClaim(w) \/ StartSnapshot(w) \/ Fail(w) \/ DropRuntime(w) \/ Beat(w)
      BY <1>1, <2>3 DEF NothingToClaim, StartSnapshot, Fail, DropRuntime, Beat
    <2>4. QED
      BY <1>4, <2>1, <2>2, <2>3 DEF Work, OtherStep
  <1>5. ASSUME NEW p \in Processes, Crash(p) \/ LostStatement(p) PROVE RowsKept(r)
    BY <1>1, <1>5 DEF Crash, LostStatement
  <1>6. ASSUME NEW w \in Workers, LostAfterCommit(w) \/ LostLeftover(w) \/ LostCall(w)
        PROVE  RowsKept(r)
    BY <1>1, <1>6 DEF LostAfterCommit, LostLeftover, LostCall
  <1>7. QED
    BY <1>2, <1>3, <1>4, <1>5, <1>6 DEF OtherStep, Next

\* What a transaction has deleted is what is stored, also when it only starts.
LEMMA OthersKeepOld ==
    ASSUME TypeOK, CurrentOld, OtherStep, NEW v \in Workers,
           worker'[v].phase = "snapshot", ~worker'[v].dirty
    PROVE  worker'[v].old = rows'[worker'[v].run]
  <1>0. worker[v] \in Call /\ worker[v].run \in Runs
    BY DEF TypeOK, Call
  <1>1. \A r \in Runs : rows'[r] = rows[r]
    BY OthersKeepRows DEF RowsKept
  <1>2. CASE Undisturbed(v)
    BY <1>0, <1>1, <1>2 DEF Undisturbed, CurrentOld
  <1>3. CASE worker' = worker
    BY <1>2, <1>3 DEF Undisturbed
  <1>4. ASSUME NEW r \in Runs, generateTabularReport(r) \/ GoStale(r) PROVE Undisturbed(v)
    BY <1>4 DEF generateTabularReport, GoStale, Undisturbed
  <1>5. ASSUME NEW p \in Processes, Tick(p) PROVE Undisturbed(v)
    <2>1. CASE Match(p)
      <3>1. CASE Advance(p, worker, {})
        BY <3>1, AdvanceUndisturbed
      <3>2. CASE worker' = worker
        BY <3>2 DEF Undisturbed
      <3>3. QED
        BY <2>1, <3>1, <3>2 DEF Match
    <2>2. CASE Apply(p)
      <3> DEFINE hit == {r \in tick[p].matched : StillMatches(tick[p].at, r)}
      <3> DEFINE dirtied == [w \in Workers |-> NowDirty(worker[w], hit)]
      <3>1. Advance(p, worker, hit) \/ Advance(p, dirtied, {})
        BY <2>2 DEF Apply
      <3>2. /\ dirtied[v].phase = worker[v].phase
            /\ dirtied[v].run = worker[v].run
            /\ dirtied[v].old = worker[v].old
            /\ ~dirtied[v].dirty => ~worker[v].dirty
        BY <1>0, DirtyUndisturbed
      <3> HIDE DEF hit, dirtied
      <3>3. CASE Advance(p, worker, hit)
        BY <3>3, AdvanceUndisturbed
      <3>4. CASE Advance(p, dirtied, {})
        BY <3>2, <3>4, AdvanceUndisturbed
      <3>5. QED
        BY <3>1, <3>3, <3>4
    <2>3. CASE EndTick(p)
      BY <2>3 DEF EndTick, Undisturbed
    <2>4. QED
      BY <1>5, <2>1, <2>2, <2>3 DEF Tick
  <1>6. ASSUME NEW w \in Workers, Work(w) \/ Beat(w), ~StartSnapshot(w) PROVE Undisturbed(v)
    <2>0. worker[w] \in Call
      BY DEF TypeOK
    <2>1. CASE claimNextRun(w)
      <3>1. PICK r \in Runs :
              worker' = Moved(w, [worker[w] EXCEPT !.phase = "claimed", !.run = r,
                                                  !.attempt = run[r].attempts + 1], {r})
        BY <2>1 DEF claimNextRun
      <3> DEFINE to == [worker[w] EXCEPT !.phase = "claimed", !.run = r,
                                         !.attempt = run[r].attempts + 1]
      <3>2. to.phase # "snapshot" /\ worker' = Moved(w, to, {r})
        BY <2>0, <3>1 DEF Call
      <3> HIDE DEF to
      <3>3. QED
        BY <3>2, MovedUndisturbed
    <2>2. CASE RecordFailure(w)
      <3> DEFINE to == [worker[w] EXCEPT !.phase = "dropping"]
      <3>1. to.phase # "snapshot" /\ worker' = Moved(w, to, {worker[w].run})
        BY <2>0, <2>2 DEF RecordFailure, Call
      <3> HIDE DEF to
      <3>2. QED
        BY <3>1, MovedUndisturbed
    <2>3. CASE NothingToClaim(w) \/ DropRuntime(w)
      BY <2>3, RestIsNoSnapshot DEF NothingToClaim, DropRuntime, Undisturbed, TypeOK
    <2>4. CASE Fail(w)
      BY <2>0, <2>4 DEF Fail, Ended, Undisturbed, TypeOK, Call
    <2>5. CASE Beat(w)
      BY <2>5 DEF Beat, Undisturbed
    <2>6. QED
      BY <1>6, <2>1, <2>2, <2>3, <2>4, <2>5 DEF Work, OtherStep
  <1>7. ASSUME NEW w \in Workers, StartSnapshot(w)
        PROVE  worker'[v].old = rows'[worker'[v].run]
    <2>1. CASE v = w
      BY <1>0, <1>1, <1>7, <2>1 DEF StartSnapshot, TypeOK, Call
    <2>2. CASE v # w
      BY <1>2, <1>7, <2>2 DEF StartSnapshot, Undisturbed, TypeOK
    <2>3. QED
      BY <2>1, <2>2
  <1>8. ASSUME NEW p \in Processes, Crash(p) \/ LostStatement(p) PROVE Undisturbed(v)
    BY <1>8, RestIsNoSnapshot DEF Crash, LostStatement, Undisturbed
  <1>9. ASSUME NEW w \in Workers, LostAfterCommit(w) \/ LostLeftover(w) \/ LostCall(w)
        PROVE  Undisturbed(v)
    <2>0. worker[w] \in Call
      BY DEF TypeOK
    <2>1. CASE LostAfterCommit(w)
      BY <2>0, <2>1 DEF LostAfterCommit, Undisturbed, TypeOK, Call
    <2>2. CASE LostLeftover(w)
      BY <2>2, RestIsNoSnapshot DEF LostLeftover, Undisturbed, TypeOK
    <2>3. CASE LostCall(w)
      BY <1>0, <2>3, RestIsNoSnapshot DEF LostCall, Undisturbed, TypeOK, Call
    <2>4. QED
      BY <1>9, <2>1, <2>2, <2>3
  <1>10. QED
    BY <1>2, <1>4, <1>5, <1>6, <1>7, <1>8, <1>9 DEF OtherStep, Next

LEMMA StepsKeepNumbers ==
    ASSUME TypeOK, AttemptInv, NumberedCalls, Next
    PROVE  NumberedCalls'
  <1>1. CASE \E w \in Workers : claimNextRun(w)
    <2>1. PICK w \in Workers : claimNextRun(w)
      BY <1>1
    <2>2. PICK r \in Runs :
            /\ Is(r, "queued")
            /\ worker' = Moved(w, [worker[w] EXCEPT !.phase = "claimed", !.run = r,
                                                    !.attempt = run[r].attempts + 1], {r})
      BY <2>1, ClaimEffect
    <2>3. run[r].attempts + 1 \in 1 .. MaxAttempts
      BY <2>2, ReportAssumption DEF AttemptInv, CountedRuns, Is, TypeOK, RunRow
    <2>4. worker'[w].attempt = run[r].attempts + 1
      BY <2>2 DEF Moved, TypeOK, Call
    <2>5. \A v \in Workers : v # w => /\ worker'[v].phase = worker[v].phase
                                      /\ worker'[v].attempt = worker[v].attempt
      BY <2>2, DirtyContinues DEF Moved, TypeOK
    <2>6. QED
      BY <2>3, <2>4, <2>5 DEF NumberedCalls
  <1>2. CASE ~\E w \in Workers : claimNextRun(w)
    BY <1>2, CallsContinue DEF NumberedCalls, Continues
  <1>3. QED
    BY <1>1, <1>2

LEMMA SnapshotInit == Init => SnapshotInv
  BY RestIsNoSnapshot, RestIsNotWorking
     DEF Init, SnapshotInv, WholeSnapshots, NoEarlyRows, CurrentOld, NumberedCalls, Is

LEMMA SnapshotNext == TypeOK /\ AttemptInv /\ SnapshotInv /\ [Next]_vars => SnapshotInv'
  <1> SUFFICES ASSUME TypeOK, AttemptInv, SnapshotInv, [Next]_vars PROVE SnapshotInv'
    OBVIOUS
  <1>1. CASE UNCHANGED vars
    BY <1>1 DEF vars, SnapshotInv, WholeSnapshots, NoEarlyRows, CurrentOld, NumberedCalls, Is
  <1>2. CASE Next
    <2>1. NumberedCalls'
      BY <1>2, StepsKeepNumbers DEF SnapshotInv
    <2>2. CASE \E w \in Workers : CommitSnapshot(w)
      BY <2>1, <2>2, CommitKeepsSnapshots DEF SnapshotInv
    <2>3. CASE \E r \in Runs : cleanupExpiredTabularReportRuns(r)
      BY <2>1, <2>3, CleanUpKeepsSnapshots DEF SnapshotInv
    <2>4. CASE OtherStep
      <3>1. \A r \in Runs : RowsKept(r)
        BY <2>4, OthersKeepRows
      <3>2. WholeSnapshots' /\ NoEarlyRows'
        BY <3>1 DEF SnapshotInv, WholeSnapshots, NoEarlyRows, RowsKept, Is
      <3>3. CurrentOld'
        BY <2>4, OthersKeepOld DEF SnapshotInv, CurrentOld
      <3>4. QED
        BY <2>1, <3>2, <3>3 DEF SnapshotInv
    <2>5. QED
      BY <1>2, <2>2, <2>3, <2>4 DEF OtherStep
  <1>3. QED
    BY <1>1, <1>2

\* A completed report stores the rows it counts, of one attempt, and a report
\* still to be made stores none, however many workers are on it.
THEOREM StoredSnapshotsAreWhole == Spec => []StoredSnapshotIsWhole
  <1>1. TypeOK /\ SnapshotInv => StoredSnapshotIsWhole
    <2> SUFFICES ASSUME TypeOK, SnapshotInv, NEW r \in Runs
                 PROVE  /\ Is(r, "completed") =>
                              /\ Cardinality(rows[r]) = run[r].count
                              /\ \E a \in 1 .. MaxAttempts : \A row \in rows[r] : row.by = a
                        /\ run[r].status \in {"queued", "running"} => rows[r] = {}
      BY DEF StoredSnapshotIsWhole
    <2>1. ASSUME Is(r, "completed")
          PROVE  /\ Cardinality(rows[r]) = run[r].count
                 /\ \E a \in 1 .. MaxAttempts : \A row \in rows[r] : row.by = a
      <3>1. PICK a \in 1 .. MaxAttempts : rows[r] = SnapshotOf(a, run[r].count)
        BY <2>1 DEF SnapshotInv, WholeSnapshots
      <3>2. run[r].count \in Nat
        <4>1. run[r].count \in Sizes \cup {0}
          BY DEF TypeOK, RunRow
        <4>2. QED
          BY <4>1, SizesAreNat, Zenon
      <3>3. \A row \in SnapshotOf(a, run[r].count) : row.by = a
        BY DEF SnapshotOf
      <3>4. QED
        BY <3>1, <3>2, <3>3, SnapshotSize
    <2>2. QED
      BY <2>1 DEF SnapshotInv, NoEarlyRows
  <1>2. QED
    BY <1>1, SnapshotInit, SnapshotNext, AttemptInit, AttemptNext, TypeCorrect, PTL DEF Spec

-----------------------------------------------------------------------------
(* The shelf *)

ShelfStep == [Shelf!ShelfNext]_(Shelf!shelfVars)

LEMMA ShelfRequests ==
    ASSUME NEW r \in Runs, generateTabularReport(r)
    PROVE  ShelfStep
  <1>1. Shelf!Request(r)
    BY DEF generateTabularReport, Is, Shelf!Request
  <1>2. QED
    BY <1>1 DEF ShelfStep, Shelf!ShelfNext

LEMMA ShelfRemoves ==
    ASSUME NEW r \in Runs, cleanupExpiredTabularReportRuns(r)
    PROVE  ShelfStep
  <1>1. Shelf!Remove(r)
    BY DEF cleanupExpiredTabularReportRuns, Shelf!Remove
  <1>2. QED
    BY <1>1 DEF ShelfStep, Shelf!ShelfNext

LEMMA SameCount ==
    ASSUME NEW S
    PROVE  Shelf!Cardinality(S) = Cardinality(S)
  BY DEF Cardinality, Shelf!Cardinality

LEMMA CountsAreNat ==
    ASSUME NEW r \in Runs
    PROVE  Cardinality(Older(r)) \in Nat /\ Cardinality(SlotsTaken) \in Nat
  <1>1. MaxRuns \in Nat /\ MaxConcurrent \in Nat /\ IsFiniteSet(Processes)
    BY ReportAssumption DEF ReportAssumption
  <1>2. IsFiniteSet(Runs) /\ IsFiniteSet(1 .. MaxConcurrent)
    BY <1>1, FS_Interval DEF Runs
  <1>3. IsFiniteSet(Workers)
    BY <1>1, <1>2, FS_Product DEF Workers
  <1>4. Older(r) \subseteq Runs /\ SlotsTaken \subseteq Workers
    BY DEF Older, SlotsTaken
  <1>5. IsFiniteSet(Older(r)) /\ IsFiniteSet(SlotsTaken)
    BY <1>2, <1>3, <1>4, FS_Subset
  <1>6. QED
    BY <1>5, FS_CardinalityType

\* The queue never holds a run without an attempt left.
LEMMA ShelfTakesUp ==
    ASSUME AttemptInv, NEW w \in Workers, claimNextRun(w)
    PROVE  ShelfStep
  <1>1. PICK r \in Runs : /\ NextQueued(w, r) /\ UNCHANGED rows
                          /\ run' = [run EXCEPT ![r].status = "running", ![r].attempts = @ + 1]
    BY DEF claimNextRun
  <1>2. run[r].attempts < MaxAttempts
    BY <1>1 DEF AttemptInv, CountedRuns, NextQueued, Is
  <1>3. Cardinality(Older(r)) \in Nat /\ Cardinality(SlotsTaken) \in Nat
    BY CountsAreNat
  <1>4. Cardinality(Older(r)) < MaxConcurrent
    BY <1>1, <1>3, ReportAssumption DEF NextQueued, ReportAssumption
  <1>5. Shelf!Older(r) = Older(r) /\ Shelf!Cardinality(Older(r)) = Cardinality(Older(r))
    BY SameCount DEF Shelf!Older, Older, Is
  <1>6. Shelf!TakeUp(r)
    BY <1>1, <1>2, <1>4, <1>5 DEF NextQueued, Is, Shelf!TakeUp
  <1>7. QED
    BY <1>6 DEF ShelfStep, Shelf!ShelfNext

\* What a statement of the tick still finds is running, and has or has not an
\* attempt left, whatever it was when the statement began.
LEMMA ShelfGivesUp ==
    ASSUME TypeOK, NEW p \in Processes, Apply(p)
    PROVE  ShelfStep
  <1> DEFINE hit == {r \in tick[p].matched : StillMatches(tick[p].at, r)}
             to == IF tick[p].at = "exhaust" THEN "failed" ELSE "queued"
  <1>1. CASE tick[p].at = "leftover"
    BY <1>1 DEF Apply, ShelfStep, Shelf!shelfVars
  <1>2. CASE tick[p].at \in {"exhaust", "requeue"}
    <2>1. /\ run' = [r \in Runs |-> IF r \in hit THEN [run[r] EXCEPT !.status = to] ELSE run[r]]
          /\ UNCHANGED rows
      BY <1>2 DEF Apply
    <2>2. hit \subseteq Runs
      BY DEF TypeOK, Place
    <2>3. ASSUME NEW r \in hit
          PROVE  /\ run[r].status = "running"
                 /\ to = IF run[r].attempts < MaxAttempts THEN "queued" ELSE "failed"
      <3>1. run[r].attempts \in Nat /\ MaxAttempts \in Nat
        BY <2>2, ReportAssumption DEF TypeOK, RunRow
      <3>2. CASE tick[p].at = "exhaust"
        BY <3>1, <3>2 DEF StillMatches, Exhausted, Is
      <3>3. CASE tick[p].at = "requeue"
        BY <3>1, <3>3 DEF StillMatches, Retryable, Is
      <3>4. QED
        BY <1>2, <3>2, <3>3
    <2>4. to \in {"queued", "failed"}
      OBVIOUS
    <2> HIDE DEF hit, to
    <2>5. Shelf!GiveUp(hit, to)
      BY <2>1, <2>3 DEF Shelf!GiveUp
    <2>6. QED
      BY <2>2, <2>4, <2>5 DEF ShelfStep, Shelf!ShelfNext
  <1>3. QED
    BY <1>1, <1>2 DEF Apply, Statements

\* A call at work has an attempt its run has counted.
LEMMA WorkIsAttempted ==
    ASSUME TypeOK, AttemptInv, SnapshotInv, NEW w \in Workers, worker[w].phase \in Working
    PROVE  /\ worker[w].run \in Runs /\ worker[w].attempt \in 1 .. MaxAttempts
           /\ worker[w].attempt <= run[worker[w].run].attempts
           /\ Stored(worker[w].run) => Shelf!Attempted(worker[w].run)
  <1> DEFINE r == worker[w].run
  <1>1. r \in Runs /\ worker[w].attempt \in Nat
    BY DEF TypeOK, Call
  <1>2. worker[w].attempt \in 1 .. MaxAttempts /\ worker[w].attempt <= run[r].attempts
    BY DEF SnapshotInv, NumberedCalls, AttemptInv, CountedCalls
  <1>3. run[r].attempts \in Nat /\ run[r].status \in Statuses
    BY <1>1 DEF TypeOK, RunRow
  <1>4. run[r].attempts > 0
    BY <1>2, <1>3
  <1>5. Stored(r) => Shelf!Attempted(r)
    BY <1>3, <1>4 DEF Stored, Statuses, Shelf!Attempted
  <1>6. QED
    BY <1>1, <1>2, <1>5

\* The transaction that commits has deleted all there was: the report shows its
\* snapshot and nothing else, or there is no report and no row.
LEMMA ShelfPublishes ==
    ASSUME TypeOK, AttemptInv, SnapshotInv, NEW w \in Workers, CommitSnapshot(w)
    PROVE  ShelfStep
  <1> DEFINE r == worker[w].run
             size == worker[w].size
             attempt == worker[w].attempt
  <1>1. worker[w].phase \in Working
    BY DEF CommitSnapshot, Working
  <1>2. /\ r \in Runs /\ attempt \in 1 .. MaxAttempts /\ attempt <= run[r].attempts
        /\ Stored(r) => Shelf!Attempted(r)
    BY <1>1, WorkIsAttempted
  <1>3. size \in Sizes \cup {0}
    BY DEF TypeOK, Call
  <1>4. rows' = [rows EXCEPT ![r] = SnapshotOf(attempt, size)]
    <2>1. Others(w) = {}
      BY DEF SnapshotInv, CurrentOld, CommitSnapshot, CommitAllowed, Others
    <2>2. QED
      BY <2>1 DEF CommitSnapshot, Snapshot
  <1>5. CASE Stored(r)
    <2>1. run' = [run EXCEPT ![r].status = "completed", ![r].count = size]
      BY <1>5 DEF CommitSnapshot, Completed
    <2>2. SnapshotOf(attempt, size) = Shelf!Whole(attempt, size)
      BY DEF SnapshotOf, Shelf!Whole
    <2> HIDE DEF r, size, attempt
    <2>3. Shelf!Publish(r, attempt, size)
      BY <1>2, <1>4, <1>5, <2>1, <2>2 DEF Shelf!Publish
    <2>4. QED
      BY <1>2, <1>3, <2>3 DEF ShelfStep, Shelf!ShelfNext
  <1>6. CASE ~Stored(r)
    <2>1. run' = run /\ size = 0
      BY <1>6 DEF CommitSnapshot, Completed, CommitAllowed
    <2>2. rows[r] = {} /\ SnapshotOf(attempt, size) = {}
      BY <1>2, <1>6, <2>1 DEF SnapshotInv, NoEarlyRows, Stored, SnapshotOf
    <2>3. rows' = rows
      BY <1>2, <1>4, <2>2 DEF TypeOK
    <2>4. QED
      BY <2>1, <2>3 DEF ShelfStep, Shelf!shelfVars
  <1>7. QED
    BY <1>5, <1>6

LEMMA ShelfFails ==
    ASSUME TypeOK, AttemptInv, SnapshotInv, NEW w \in Workers, RecordFailure(w)
    PROVE  ShelfStep
  <1> DEFINE r == worker[w].run
  <1>1. worker[w].phase \in Working
    BY DEF RecordFailure, Working
  <1>2. r \in Runs /\ (Stored(r) => Shelf!Attempted(r))
    BY <1>1, WorkIsAttempted
  <1>3. /\ run' = IF Stored(r) THEN [run EXCEPT ![r].status = "failed"] ELSE run
        /\ UNCHANGED rows
    BY DEF RecordFailure
  <1> HIDE DEF r
  <1>4. CASE Stored(r)
    <2>1. Shelf!Fail(r)
      BY <1>2, <1>3, <1>4 DEF Shelf!Fail
    <2>2. QED
      BY <1>2, <2>1 DEF ShelfStep, Shelf!ShelfNext
  <1>5. CASE ~Stored(r)
    BY <1>3, <1>5 DEF ShelfStep, Shelf!shelfVars
  <1>6. QED
    BY <1>4, <1>5

LEMMA ShelfNextStep ==
    ASSUME TypeOK, AttemptInv, SnapshotInv, [Next]_vars
    PROVE  ShelfStep
  <1>1. ASSUME UNCHANGED <<run, rows>> PROVE ShelfStep
    BY <1>1 DEF ShelfStep, Shelf!shelfVars
  <1>2. ASSUME NEW r \in Runs, GoStale(r) PROVE UNCHANGED <<run, rows>>
    BY <1>2 DEF GoStale
  <1>3. ASSUME NEW p \in Processes, Tick(p) PROVE ShelfStep
    <2>1. ASSUME Match(p) \/ EndTick(p) PROVE UNCHANGED <<run, rows>>
      BY <2>1 DEF Match, EndTick
    <2>2. QED
      BY <1>1, <1>3, <2>1, ShelfGivesUp DEF Tick
  <1>4. ASSUME NEW w \in Workers, Work(w) PROVE ShelfStep
    <2>1. ASSUME NothingToClaim(w) \/ StartSnapshot(w) \/ Fail(w) \/ DropRuntime(w)
          PROVE  UNCHANGED <<run, rows>>
      BY <2>1 DEF NothingToClaim, StartSnapshot, Fail, DropRuntime
    <2>2. QED
      BY <1>1, <1>4, <2>1, ShelfTakesUp, ShelfPublishes, ShelfFails DEF Work
  <1>5. ASSUME NEW p \in Processes, Crash(p) \/ LostStatement(p) PROVE UNCHANGED <<run, rows>>
    BY <1>5 DEF Crash, LostStatement
  <1>6. ASSUME NEW w \in Workers, Beat(w) \/ LostAfterCommit(w) \/ LostLeftover(w) \/ LostCall(w)
        PROVE  UNCHANGED <<run, rows>>
    BY <1>6 DEF Beat, LostAfterCommit, LostLeftover, LostCall
  <1>7. CASE UNCHANGED vars
    BY <1>1, <1>7 DEF vars
  <1>8. QED
    BY <1>1, <1>2, <1>3, <1>4, <1>5, <1>6, <1>7, ShelfRequests, ShelfRemoves DEF Next

\* The queue, its ticks and its workers implement the shelf: whoever is presumed
\* dead and goes on, a reader sees reports published whole or failed, and none that
\* was answered made again.
THEOREM ShelfImplemented == Spec => ImplementsShelf
  <1>1. Init => Shelf!ShelfInit
    BY DEF Init, Shelf!ShelfInit
  <1>2. Spec => [](TypeOK /\ AttemptInv /\ SnapshotInv)
    BY TypeInit, TypeNext, SnapshotInit, SnapshotNext, AttemptInit, AttemptNext, PTL DEF Spec
  <1>3. TypeOK /\ AttemptInv /\ SnapshotInv /\ [Next]_vars
          => [Shelf!ShelfNext]_(Shelf!shelfVars)
    BY ShelfNextStep DEF ShelfStep
  <1>4. QED
    BY <1>1, <1>2, <1>3, PTL DEF Spec, ImplementsShelf, Shelf!ShelfSpec
=============================================================================
