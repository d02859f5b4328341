------------------------------ MODULE ScanRun ------------------------------
(***************************************************************************)
(* The headless daily job (backend/jobs/run_daily_scan.py): one after the  *)
(* other, each schedule entry runs a screener through the scan service     *)
(* (backend/scanning/service.py), which commits a RUNNING header, lets the *)
(* screener pull its universe through a loader (module UniverseLoad),      *)
(* judges what came back, and commits result rows and a final status.      *)
(***************************************************************************)
EXTENDS Integers, FiniteSets, Sequences

CONSTANTS
    N, K, WorkerCounts, Faults,     \* one load: see UniverseLoad
    E,                              \* the enabled entries of the schedule
    JobFaults   \* what may go wrong: "refused", "setup", "raise", "service",
                \* "database", "lost_ack", "kill"

VARIABLES
    workers, phase, submitted, fetch, items, streak, tripped, reports, failures,
    stage,      \* what the job is doing
    run,        \* run_id, 0 for None
    verdict,    \* what became of each row that reached compute_signal
    raised,     \* the screener raised
    runs,       \* the scan_runs table: status, and the symbols of its scan_results
    outcomes,   \* DailyScanSummary.outcomes
    exit        \* the exit code, -1 while the job runs

Load == INSTANCE UniverseLoad

loadVars == <<workers, phase, submitted, fetch, items, streak, tripped, reports, failures>>
jobVars  == <<stage, run, verdict, raised, runs, outcomes, exit>>
vars     == <<loadVars, jobVars>>

Rows == Load!Rows

ASSUME JobAssumption ==
    /\ N \in Nat /\ K \in Nat
    /\ WorkerCounts \subseteq Nat \ {0}
    /\ Faults \subseteq {"failure", "quality", "abandon"}
    /\ E \in Nat \ {0}
    /\ JobFaults \subseteq {"refused", "setup", "raise", "service", "database",
                            "lost_ack", "kill"}

\* compute_signal finds no signal, a signal, or raises; a signal's row may be refused
\* by the result contract when the screener emits it or when the service stores it.
Verdicts == {"none", "signal", "raises", "invalid", "unstorable"}

NoVerdicts == [i \in Rows |-> "unseen"]
Judgement(v) == {i \in Rows : verdict[i] = v}

Init ==
    /\ Load!Init
    /\ stage = "start" /\ run = 0
    /\ verdict = NoVerdicts /\ raised = FALSE
    /\ runs = <<>> /\ outcomes = <<>> /\ exit = -1

-----------------------------------------------------------------------------
(* The job around each screener.                                           *)

\* main, run_daily_scan: no schema, no valid schedule or no registry ends the job;
\* else the entries are run in turn.
Refuse ==
    /\ stage = "start" /\ "refused" \in JobFaults
    /\ stage' = "ended" /\ exit' = 1
    /\ UNCHANGED <<loadVars, run, verdict, raised, runs, outcomes>>

Start ==
    /\ stage = "start" /\ stage' = "setup"
    /\ UNCHANGED <<loadVars, run, verdict, raised, runs, outcomes, exit>>

\* A line of the summary, and the next entry.
Report(id, fatal, status) ==
    /\ outcomes' = Append(outcomes, [fatal |-> fatal, run |-> id, status |-> status])
    /\ stage' = "setup" /\ run' = 0

\* _run_one_screener: an unknown screener, or no universe, credentials or loader.
SetupFails ==
    /\ stage = "setup" /\ Len(outcomes) < E /\ "setup" \in JobFaults
    /\ Report(0, TRUE, "none")
    /\ UNCHANGED <<loadVars, verdict, raised, runs, exit>>

SharedLoader ==
    /\ phase' = "new" /\ submitted' = 0 /\ fetch' = Load!NewFetches
    /\ items' = <<>> /\ streak' = 0 /\ tripped' = FALSE
    /\ UNCHANGED <<workers, reports, failures>>

\* _make_data_loader: every entry gets a loader of its own.
FreshLoader ==
    /\ phase' = "new" /\ submitted' = 0 /\ fetch' = Load!NewFetches
    /\ items' = <<>> /\ streak' = 0 /\ tripped' = FALSE
    /\ reports' = Load!NoReports /\ failures' = {}
    /\ UNCHANGED workers

SetUp ==
    /\ stage = "setup" /\ Len(outcomes) < E
    /\ FreshLoader
    /\ stage' = "header" /\ verdict' = NoVerdicts /\ raised' = FALSE
    /\ UNCHANGED <<run, runs, outcomes, exit>>

LastFatal == outcomes[Len(outcomes)].fatal

AnyFatal == \E k \in 1..Len(outcomes) : outcomes[k].fatal

Finish ==
    /\ stage = "setup" /\ Len(outcomes) = E
    /\ stage' = "ended" /\ exit' = IF AnyFatal THEN 1 ELSE 0
    /\ UNCHANGED <<loadVars, run, verdict, raised, runs, outcomes>>

\* The process is killed, or the Streamlit script that runs the scan is stopped.
Kill ==
    /\ "kill" \in JobFaults /\ stage \notin {"ended", "killed"}
    /\ stage' = "killed"
    /\ UNCHANGED <<loadVars, run, verdict, raised, runs, outcomes, exit>>

-----------------------------------------------------------------------------
(* The scan service.                                                       *)

\* How a transaction ends: committed; rolled back; or committed, and its caller told
\* that it failed.
Commits == {"committed"} \cup (IF "database" \in JobFaults THEN {"rolled back"} ELSE {})
                         \cup (IF "lost_ack" \in JobFaults THEN {"unacknowledged"} ELSE {})

HeaderRetried ==
    /\ stage = "header" /\ stage' = "screening"
    /\ \E commit \in Commits :
        /\ runs' = IF commit = "unacknowledged"
                   THEN runs \o [i \in 1..2 |-> [status |-> "running", rows |-> {}]]
                   ELSE Append(runs, [status |-> "running", rows |-> {}])
        /\ run' = Len(runs')
    /\ UNCHANGED <<loadVars, verdict, raised, outcomes, exit>>

\* _create_run_header: without a header the scan still runs.
CreateHeader ==
    /\ stage = "header" /\ stage' = "screening"
    /\ \E commit \in Commits :
        /\ runs' = IF commit = "rolled back" THEN runs
                   ELSE Append(runs, [status |-> "running", rows |-> {}])
        /\ run' = IF commit = "committed" THEN Len(runs') ELSE 0
    /\ UNCHANGED <<loadVars, verdict, raised, outcomes, exit>>

\* Each frame the loader yields goes through _compute_signal_safely, and its signal
\* through build_result_frame; an item with a failure is skipped.
Screened ==
    LET i == Len(items') IN
    IF i > Len(items) /\ items'[i] = "frame"
    THEN \E v \in Verdicts : verdict' = [verdict EXCEPT ![i] = v]
    ELSE UNCHANGED verdict

Pull ==
    /\ stage = "screening"
    /\ Load!Generate /\ Screened
    /\ UNCHANGED <<stage, run, raised, runs, outcomes, exit>>

PoolThread(i) ==
    /\ stage = "screening"
    /\ Load!StartFetch(i) \/ Load!EndFetch(i)
    /\ UNCHANGED jobVars

Return ==
    /\ stage = "screening" /\ phase = "done"
    /\ stage' = "persist"
    /\ UNCHANGED <<loadVars, run, verdict, raised, runs, outcomes, exit>>

\* A screener that reads no candles (the IPO screener) never touches its loader.
ReturnEventDriven ==
    /\ stage = "screening" /\ phase = "new"
    /\ verdict' \in [Rows -> Verdicts]
    /\ stage' = "persist"
    /\ UNCHANGED <<loadVars, run, raised, runs, outcomes, exit>>

\* The screener raises before, inside or after its loop; inside, the load is closed
\* before the service sees the exception.
RaiseInLoop ==
    /\ stage = "screening" /\ "raise" \in JobFaults
    /\ Load!Abandon
    /\ UNCHANGED jobVars

Raise ==
    /\ stage = "screening" /\ "raise" \in JobFaults
    /\ phase \in {"new", "done", "closed"}
    /\ stage' = "persist" /\ raised' = TRUE
    /\ UNCHANGED <<loadVars, run, verdict, runs, outcomes, exit>>

-----------------------------------------------------------------------------
(* The verdict on a run: the tail of run_scan.                             *)

\* The frame the screener returned is lost when it raises, and with it the rows that
\* build_result_frame and _result_rows would have refused.
Emitted(v) == IF raised THEN {} ELSE Judgement(v)

Stored          == Emitted("signal")
Results         == Stored \cup Emitted("unstorable")
Rejected        == Emitted("invalid") \cup Emitted("unstorable")
ComputeFailures == Judgement("raises") \cup Emitted("invalid")

ScreenerStatus ==
    IF raised THEN "failed"
    ELSE IF failures # {} \/ ComputeFailures # {} THEN "partial" ELSE "success"

QualityStatus ==
    IF reports.fatal = {} THEN ScreenerStatus
    ELSE IF reports.usable = {} /\ Results = {} THEN "failed"
    ELSE IF ScreenerStatus = "success" THEN "partial" ELSE ScreenerStatus

FinalStatus ==
    IF Rejected = {} THEN QualityStatus
    ELSE IF Stored # {} THEN "partial" ELSE "failed"

\* save_scan_results and finish_scan_run, in one transaction.
WriteOutcome(r) == runs' = [runs EXCEPT ![r] = [status |-> FinalStatus, rows |-> Stored]]

FatalIfFailed(status) == status = "failed"

\* A headless run without history is as useless as a failed one.
IsFatal(status) == status = "failed" \/ run = 0

\* _persist_run_outcome: nothing to do without a header; a failure leaves the run to
\* _mark_run_failed_after_persistence_error.
PersistNothing ==
    /\ stage = "persist" /\ run = 0
    /\ Report(run, IsFatal(FinalStatus), FinalStatus)
    /\ UNCHANGED <<loadVars, verdict, raised, runs, exit>>

Persist ==
    /\ stage = "persist" /\ run # 0
    /\ WriteOutcome(run)
    /\ Report(run, IsFatal(FinalStatus), FinalStatus)
    /\ UNCHANGED <<loadVars, verdict, raised, exit>>

PersistFails ==
    /\ stage = "persist" /\ run # 0
    /\ \E commit \in Commits \ {"committed"} :
        IF commit = "rolled back" THEN UNCHANGED runs ELSE WriteOutcome(run)
    /\ stage' = "mark"
    /\ UNCHANGED <<loadVars, run, verdict, raised, outcomes, exit>>

\* Best effort: the result is FAILED whether or not the stamp is committed.
MarkFailed ==
    /\ stage = "mark"
    /\ \E commit \in Commits :
        runs' = IF commit = "rolled back" THEN runs
                ELSE [runs EXCEPT ![run].status = "failed"]
    /\ Report(run, IsFatal("failed"), "failed")
    /\ UNCHANGED <<loadVars, verdict, raised, exit>>

\* Anything else the service raises is reported as fatal, and the job goes on.
ServiceFails ==
    /\ stage = "persist" /\ "service" \in JobFaults
    /\ Report(0, TRUE, "none")
    /\ UNCHANGED <<loadVars, verdict, raised, runs, exit>>

Job ==
    \/ Start \/ SetUp \/ Finish \/ CreateHeader \/ Pull
    \/ Return \/ ReturnEventDriven \/ Raise
    \/ PersistNothing \/ Persist \/ PersistFails \/ MarkFailed

Over == stage \in {"ended", "killed"} /\ UNCHANGED vars

Pool == \E i \in Rows : PoolThread(i)

Next == Refuse \/ SetupFails \/ ServiceFails \/ Job \/ Pool \/ RaiseInLoop \/ Kill \/ Over
Spec == Init /\ [][Next]_vars

\* The process runs, pool threads run and a fetch ends.
FairSpec ==
    /\ Spec /\ WF_vars(Job)
    /\ \A i \in Rows : WF_vars(PoolThread(i))

-----------------------------------------------------------------------------
(* Properties.                                                             *)

\* Every variable keeps its type; a run that was given an id exists.
TypeOK ==
    /\ Load!TypeOK
    /\ stage \in {"start", "setup", "header", "screening", "persist", "mark", "ended", "killed"}
    /\ runs \in Seq([status : {"running", "success", "partial", "failed"}, rows : SUBSET Rows])
    /\ run \in 0..Len(runs) /\ Len(runs) <= E
    /\ verdict \in [Rows -> Verdicts \cup {"unseen"}]
    /\ raised \in BOOLEAN /\ exit \in {-1, 0, 1}
    /\ outcomes \in Seq([fatal : BOOLEAN, run : 0..E,
                         status : {"none", "success", "partial", "failed"}])

NotLoaded  == {i \in 1..Len(items) : items[i] # "frame"}
BadVerdict == {i \in Rows : verdict[i] \in {"raises", "invalid", "unstorable"}}

\* A step writes status to run r: over RUNNING, or over a verdict stored before.
Stamped(r, status) ==
    r \in DOMAIN runs /\ runs'[r] # runs[r] /\ runs'[r].status = status

\* FAILED over RUNNING: the screener raised, or found nothing that could be stored, or
\* the verdict could not be committed.
NothingStored(r) ==
    /\ runs[r].status = "running" /\ runs'[r].rows = {}
    /\ raised \/ Judgement("signal") = {} \/ stage = "mark"

\* FAILED over a verdict: the true verdict of this very run was committed, but its
\* caller was told that it was not. The rows stay, and the job reports the run as
\* failed, like the history.
Overruled(r) ==
    /\ stage = "mark" /\ r = run
    /\ runs[r] = [status |-> FinalStatus, rows |-> Stored]
    /\ runs'[r].rows = runs[r].rows
    /\ outcomes' = Append(outcomes, [fatal |-> TRUE, run |-> r, status |-> "failed"])

\* A run's stored status tells what happened in that run and in no other, whatever it
\* is written over: SUCCESS, that every row of its universe was loaded and computed and
\* every signal stored; PARTIAL, that something was lost, yet the screener came to its
\* end; FAILED, that nothing of it is stored, except after a commit whose
\* acknowledgement was lost, when FAILED is written over a verdict with its rows
\* (finish_scan_run asks no question). SUCCESS and PARTIAL are written over RUNNING only.
\* Rows and status appear together: a reader (comparison, forward returns) finds no
\* rows of a run that is still RUNNING, and a finalized run never gains or loses one.
StatusTruthful ==
    [][\A r \in 1..E :
        /\ Stamped(r, "success") =>
            /\ runs[r].status = "running"
            /\ NotLoaded = {} /\ BadVerdict = {} /\ ~raised
            /\ phase = "done" => Len(items) = N
            /\ runs'[r].rows = Judgement("signal")
        /\ Stamped(r, "partial") =>
            /\ runs[r].status = "running"
            /\ NotLoaded \cup BadVerdict # {} /\ ~raised
            /\ runs'[r].rows = Judgement("signal")
        /\ Stamped(r, "failed") => NothingStored(r) \/ Overruled(r)
        /\ r \in DOMAIN runs =>
            /\ runs'[r].status = "running" => runs'[r].rows = {}
            /\ runs[r].status # "running" => runs'[r].rows = runs[r].rows]_vars

\* The scheduler that sees exit code 0 may rely on the history: every entry has a run
\* of its own, finalized with the status the job reported, and none is RUNNING.
ExitZeroMeansRecorded ==
    exit = 0 =>
        /\ Len(outcomes) = E /\ Len(runs) = E
        /\ \A k \in 1..E :
            /\ outcomes[k].run = k
            /\ runs[k].status = outcomes[k].status
            /\ runs[k].status \in {"success", "partial"}

StillRunning == {r \in DOMAIN runs : runs[r].status = "running"}

\* No run stays RUNNING in silence: it is finalized, or the job ends with an error, or
\* its process was killed.
RunningIsReported ==
    \A r \in 1..E :
        r \in StillRunning ~> (r \notin StillRunning \/ exit = 1 \/ stage = "killed")
=============================================================================
