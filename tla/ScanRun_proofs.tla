--------------------------- MODULE ScanRun_proofs ---------------------------
(***************************************************************************)
(* Machine-checked theorems about ScanRun, for any schedule, any universe, *)
(* any breaker and any faults of the job: its types, that exit code 0      *)
(* means a complete history, and that a run's stored status is the truth.  *)
(***************************************************************************)
EXTENDS ScanRun, SequenceTheorems, TLAPS

\* What is proved about one load, for the load inside the job.
LoadProofs == INSTANCE UniverseLoad_proofs

-----------------------------------------------------------------------------
(* The inductive invariant.                                                *)

InScan == stage \in {"screening", "persist", "mark"}

\* At most one run per entry is in the history, and the current run is the last one.
EntriesInTurn ==
    /\ Len(outcomes) <= E
    /\ stage = "start" => outcomes = <<>> /\ runs = <<>>
    /\ stage \in {"header", "screening", "persist", "mark"} => Len(outcomes) < E
    /\ stage \in {"start", "setup", "header"} => Len(runs) <= Len(outcomes)
    /\ stage \in {"start", "setup", "header"} => run = 0
    /\ InScan => Len(runs) <= Len(outcomes) + 1 /\ run \in {0, Len(runs)}
    /\ stage = "mark" => run # 0
    /\ exit # -1 => stage = "ended"

NothingFatal == \A k \in 1..Len(outcomes) : ~outcomes[k].fatal

\* As long as no entry was fatal, the history has exactly the runs of the entries done.
RecordedSoFar ==
    NothingFatal =>
        /\ \A k \in 1..Len(outcomes) :
            /\ outcomes[k].run = k /\ k <= Len(runs)
            /\ runs[k].status = outcomes[k].status
            /\ runs[k].status \in {"success", "partial"}
        /\ stage \in {"start", "setup", "header"} => Len(runs) = Len(outcomes)
        /\ InScan /\ run # 0 => run = Len(outcomes) + 1

\* A run keeps status RUNNING, and no rows, until its outcome is written.
OpenRunsAreEmpty ==
    /\ \A r \in DOMAIN runs : runs[r].status = "running" => runs[r].rows = {}
    /\ stage \in {"screening", "persist"} /\ run # 0 => runs[run].status = "running"

\* A screener that did not raise read its load to the end, or never opened it.
ScreenerCameToItsEnd == stage \in {"persist", "mark"} /\ ~raised => phase \in {"done", "new"}

JobInv ==
    /\ LoadProofs!LoadInv /\ TypeOK /\ EntriesInTurn /\ RecordedSoFar /\ OpenRunsAreEmpty
    /\ ScreenerCameToItsEnd /\ ExitZeroMeansRecorded

-----------------------------------------------------------------------------
(* The load inside the job.                                                *)

RunStatus == {"running", "success", "partial", "failed"}
RunRow    == [status : RunStatus, rows : SUBSET Rows]
Line      == [fatal : BOOLEAN, run : 0..E, status : {"none", "success", "partial", "failed"}]

\* The load the job runs is the one the proofs are about.
LEMMA SameWords ==
  /\ LoadProofs!Rows = Rows /\ Rows = 1..N /\ Load!Outcomes = LoadProofs!Outcomes
  /\ (Load!Window = LoadProofs!Window) /\ (Load!Parallel <=> LoadProofs!Parallel)
  /\ Load!NoReports = LoadProofs!NoReports /\ Load!NewFetches = LoadProofs!NewFetches
  /\ \A s : Load!InState(s) = LoadProofs!InState(s)
  BY DEF Rows, Load!Rows, LoadProofs!Rows, Load!Outcomes, LoadProofs!Outcomes, Load!Window,
         LoadProofs!Window, Load!Parallel, LoadProofs!Parallel, Load!NoReports,
         LoadProofs!NoReports, Load!NewFetches, LoadProofs!NewFetches, Load!InState,
         LoadProofs!InState

\* Sizes are the same in the two instances.
LEMMA SameSizes == \A S : Load!Cardinality(S) = LoadProofs!Cardinality(S)
  BY Zenon DEF Load!Cardinality, LoadProofs!Cardinality

\* So are the types.
LEMMA SameTypes == Load!TypeOK <=> LoadProofs!TypeOK
  BY SameWords, SameSizes DEF Load!TypeOK, LoadProofs!TypeOK, Rows

\* The same, one step later.
LEMMA SameTypesNext == Load!TypeOK' <=> LoadProofs!TypeOK'
  BY SameTypes, PTL

\* A step of the load inside the job is a step of the load.
LEMMA SameSteps ==
  /\ Load!Open => LoadProofs!Open
  /\ Load!FetchNext => LoadProofs!FetchNext
  /\ Load!TakeCancelled => LoadProofs!TakeCancelled
  /\ Load!TakeResult => LoadProofs!TakeResult
  /\ Load!SkipRest => LoadProofs!SkipRest
  /\ Load!Remember => LoadProofs!Remember
  /\ Load!Closed => LoadProofs!Closed
  /\ Load!Abandon => LoadProofs!Abandon
  /\ \A i \in Rows : Load!StartFetch(i) \/ Load!EndFetch(i) => LoadProofs!Pool
<1>0. /\ \A k : Load!Yield(k) <=> LoadProofs!Yield(k)
      /\ \A k : Load!Counted(k) <=> LoadProofs!Counted(k)
      /\ Load!Head1 = LoadProofs!Head1
  BY Zenon DEF Load!Yield, LoadProofs!Yield, Load!Counted, LoadProofs!Counted, Load!Head1,
         LoadProofs!Head1
<1>1. \A a, b : Load!MinOf(a, b) = LoadProofs!MinOf(a, b)
  BY DEF Load!MinOf, LoadProofs!MinOf
<1>2. Load!SubmitMore <=> LoadProofs!SubmitMore
  BY <1>1 DEF Load!SubmitMore, LoadProofs!SubmitMore
<1>3. Load!Rows = LoadProofs!Rows
  BY DEF Load!Rows, LoadProofs!Rows
<1>4. Load!Open => LoadProofs!Open
  BY <1>1, <1>3, SameWords DEF Load!Open, LoadProofs!Open
<1>5. Load!FetchNext => LoadProofs!FetchNext
  BY <1>0, SameWords DEF Load!FetchNext, LoadProofs!FetchNext
<1>6. /\ Load!TakeCancelled => LoadProofs!TakeCancelled
      /\ Load!SkipRest => LoadProofs!SkipRest
  BY <1>0, SameWords DEF Load!TakeCancelled, LoadProofs!TakeCancelled,
                         Load!SkipRest, LoadProofs!SkipRest
<1>7. Load!TakeResult => LoadProofs!TakeResult
  BY <1>0, <1>2, <1>3, SameWords DEF Load!TakeResult, LoadProofs!TakeResult
<1>8. /\ Load!Remember => LoadProofs!Remember
      /\ Load!Closed => LoadProofs!Closed
      /\ Load!Abandon => LoadProofs!Abandon
  BY <1>3, SameWords DEF Load!Remember, LoadProofs!Remember, Load!Closed, LoadProofs!Closed,
                         Load!Abandon, LoadProofs!Abandon
<1>9. \A i \in Rows : Load!StartFetch(i) \/ Load!EndFetch(i) => LoadProofs!Pool
  BY SameWords, SameSizes DEF Load!StartFetch, Load!EndFetch, LoadProofs!Pool, LoadProofs!StartFetch,
                   LoadProofs!EndFetch
<1> QED BY <1>4, <1>5, <1>6, <1>7, <1>8, <1>9

\* Whatever the job lets its load do keeps the load's invariant.
LEMMA LoadKeeps ==
  ASSUME LoadProofs!LoadInv,
         \/ Load!Generate \/ Load!Abandon
         \/ \E i \in Rows : Load!StartFetch(i) \/ Load!EndFetch(i)
         \/ UNCHANGED loadVars
  PROVE  LoadProofs!LoadInv' /\ Load!TypeOK'
<1>1. [LoadProofs!Next]_(LoadProofs!vars)
  BY SameSteps DEF Load!Generate, LoadProofs!Next, LoadProofs!Generate, LoadProofs!vars, loadVars
<1>2. LoadProofs!LoadInv'
  BY <1>1, LoadProofs!LoadStep, JobAssumption
<1>3. LoadProofs!TypeOK'
  BY <1>2 DEF LoadProofs!LoadInv
<1>4. Load!TypeOK' <=> LoadProofs!TypeOK'
  BY SameTypesNext
<1> QED BY <1>2, <1>3, <1>4

\* A loader that was not used yet.
LEMMA UnusedLoad == (LoadProofs!Init => LoadProofs!LoadInv /\ Load!TypeOK)'
<1>1. LoadProofs!Init => LoadProofs!LoadInv /\ Load!TypeOK
  BY LoadProofs!LoadInit, SameTypes, JobAssumption DEF LoadProofs!LoadInv
<1> QED BY <1>1, PTL

\* Every entry gets one.
LEMMA FreshLoaderIsUnused ==
  ASSUME Load!TypeOK, FreshLoader
  PROVE  LoadProofs!LoadInv' /\ Load!TypeOK' /\ phase' = "new"
<1>1. LoadProofs!Init'
  BY SameWords DEF FreshLoader, LoadProofs!Init, Load!TypeOK
<1> QED BY <1>1, UnusedLoad DEF FreshLoader

-----------------------------------------------------------------------------
(* The job's tables.                                                       *)

\* The type invariant, with the records named.
LEMMA Types ==
  TypeOK <=>
    /\ Load!TypeOK
    /\ stage \in {"start", "setup", "header", "screening", "persist", "mark", "ended", "killed"}
    /\ runs \in Seq(RunRow) /\ run \in 0..Len(runs) /\ Len(runs) <= E
    /\ verdict \in [Rows -> Verdicts \cup {"unseen"}]
    /\ raised \in BOOLEAN /\ exit \in {-1, 0, 1}
    /\ outcomes \in Seq(Line)
  BY DEF TypeOK, RunRow, RunStatus, Line

\* The same in the next state.
LEMMA TypesNext ==
  TypeOK' <=>
    /\ Load!TypeOK'
    /\ stage' \in {"start", "setup", "header", "screening", "persist", "mark", "ended", "killed"}
    /\ runs' \in Seq(RunRow) /\ run' \in 0..Len(runs') /\ Len(runs') <= E
    /\ verdict' \in [Rows -> Verdicts \cup {"unseen"}]
    /\ raised' \in BOOLEAN /\ exit' \in {-1, 0, 1}
    /\ outcomes' \in Seq(Line)
  BY DEF TypeOK, RunRow, RunStatus, Line, Rows, Load!Rows

\* The numbers of runs and of outcomes.
LEMMA Counts ==
  ASSUME TypeOK
  PROVE  /\ E \in Nat \ {0} /\ Len(runs) \in Nat /\ Len(outcomes) \in Nat /\ run \in Nat
         /\ DOMAIN runs = 1..Len(runs)
         /\ \A r \in 1..Len(runs) : runs[r] \in RunRow
         /\ \A k \in 1..Len(outcomes) : outcomes[k] \in Line
  BY JobAssumption, Types, ElementOfSeq, LenProperties

\* The verdict on a run is a final status, and what it stores are rows.
LEMMA FinalStatusType ==
  FinalStatus \in {"success", "partial", "failed"} /\ Stored \in SUBSET Rows
<1>1. ScreenerStatus \in {"success", "partial", "failed"}
  BY DEF ScreenerStatus
<1>2. QualityStatus \in {"success", "partial", "failed"}
  BY <1>1 DEF QualityStatus
<1>3. FinalStatus \in {"success", "partial", "failed"}
  BY <1>2 DEF FinalStatus
<1>4. Stored \in SUBSET Rows
  BY DEF Stored, Emitted, Judgement
<1> QED BY <1>3, <1>4

\* The outcome of the current run is written: what the table of runs is then.
LEMMA Written ==
  ASSUME TypeOK, OpenRunsAreEmpty, run # 0, WriteOutcome(run)
  PROVE  /\ runs' \in Seq(RunRow) /\ Len(runs') = Len(runs)
         /\ \A r \in 1..Len(runs) : r # run => runs'[r] = runs[r]
         /\ run \in 1..Len(runs)
         /\ runs'[run] = [status |-> FinalStatus, rows |-> Stored]
         /\ \A r \in 1..Len(runs') : runs'[r].status = "running" => runs'[r].rows = {}
<1>0. /\ runs \in Seq(RunRow) /\ run \in 1..Len(runs) /\ DOMAIN runs = 1..Len(runs)
      /\ runs' = [runs EXCEPT ![run] = [status |-> FinalStatus, rows |-> Stored]]
  BY Types, Counts DEF WriteOutcome
<1>1. [status |-> FinalStatus, rows |-> Stored] \in RunRow
  BY FinalStatusType DEF RunRow, RunStatus
<1>2. runs' \in Seq(RunRow) /\ Len(runs') = Len(runs)
  BY <1>0, <1>1, ExceptSeq
<1>3. /\ \A r \in 1..Len(runs) : r # run => runs'[r] = runs[r]
      /\ runs'[run] = [status |-> FinalStatus, rows |-> Stored]
  BY <1>0
<1>4. FinalStatus # "running"
  BY FinalStatusType
<1> QED BY <1>0, <1>2, <1>3, <1>4 DEF OpenRunsAreEmpty

-----------------------------------------------------------------------------
(* Every step keeps the invariant.                                         *)

\* A line of the summary is written: what it must say for the invariant to survive.
LEMMA ReportKeeps ==
  ASSUME JobInv, stage \in {"setup", "persist", "mark"}, Len(outcomes) < E,
         NEW id \in 0..E, NEW fatal \in BOOLEAN,
         NEW status \in {"none", "success", "partial", "failed"},
         Report(id, fatal, status), UNCHANGED <<loadVars, verdict, raised, exit>>,
         runs' \in Seq(RunRow), Len(runs') = Len(runs),
         \A r \in 1..Len(runs) : r # run => runs'[r] = runs[r],
         \A r \in 1..Len(runs') : runs'[r].status = "running" => runs'[r].rows = {},
         ~fatal => /\ id = run /\ run # 0
                   /\ runs'[run].status = status /\ status \in {"success", "partial"}
  PROVE  JobInv'
<1> DEFINE line == [fatal |-> fatal, run |-> id, status |-> status]
           n == Len(outcomes)
<1>0. /\ TypeOK /\ stage' = "setup" /\ run' = 0 /\ outcomes' = Append(outcomes, line)
      /\ n \in Nat /\ E \in Nat \ {0} /\ outcomes \in Seq(Line) /\ Len(runs) \in Nat
      /\ run \in Nat /\ exit = -1
  BY Counts, Types DEF JobInv, Report, EntriesInTurn
<1>1. LoadProofs!LoadInv' /\ Load!TypeOK'
  BY LoadKeeps DEF JobInv
<1>2. /\ outcomes' \in Seq(Line) /\ Len(outcomes') = n + 1 /\ outcomes'[n + 1] = line
      /\ \A k \in 1..n : outcomes'[k] = outcomes[k]
  <2>1. line \in Line
    BY DEF Line
  <2> QED BY <1>0, <2>1, AppendProperties
<1>3. TypeOK'
  BY <1>0, <1>1, <1>2, Types, TypesNext
<1>4. EntriesInTurn'
  BY <1>0, <1>2 DEF JobInv, EntriesInTurn, InScan
<1>5. RecordedSoFar'
  <2> SUFFICES ASSUME NothingFatal'
               PROVE  /\ \A k \in 1..(n + 1) :
                          /\ outcomes'[k].run = k /\ k <= Len(runs)
                          /\ runs'[k].status = outcomes'[k].status
                          /\ runs'[k].status \in {"success", "partial"}
                      /\ Len(runs) = n + 1
    BY <1>0, <1>2 DEF RecordedSoFar, InScan
  <2>1. NothingFatal /\ ~fatal
    BY <1>0, <1>2 DEF NothingFatal
  <2>2. run = n + 1 /\ Len(runs) = n + 1
    BY <1>0, <2>1, Types DEF JobInv, RecordedSoFar, EntriesInTurn, InScan
  <2>3. ASSUME NEW k \in 1..n
        PROVE  /\ outcomes'[k].run = k /\ k <= Len(runs)
               /\ runs'[k].status = outcomes'[k].status
               /\ runs'[k].status \in {"success", "partial"}
    <3>1. k # run /\ k \in 1..Len(runs)
      BY <1>0, <2>2
    <3>2. runs'[k] = runs[k] /\ outcomes'[k] = outcomes[k]
      BY <1>2, <3>1
    <3> QED BY <2>1, <3>1, <3>2 DEF JobInv, RecordedSoFar
  <2>4. /\ outcomes'[n + 1].run = n + 1
        /\ runs'[n + 1].status = outcomes'[n + 1].status
        /\ runs'[n + 1].status \in {"success", "partial"}
    BY <1>2, <2>1, <2>2
  <2>5. \A k \in 1..(n + 1) : k \in 1..n \/ k = n + 1
    BY <1>0
  <2> QED BY <1>0, <2>2, <2>3, <2>4, <2>5
<1>6. OpenRunsAreEmpty'
  <2>1. DOMAIN runs' = 1..Len(runs')
    BY LenProperties
  <2> QED BY <1>0, <2>1 DEF OpenRunsAreEmpty
<1>7. ScreenerCameToItsEnd' /\ ExitZeroMeansRecorded'
  BY <1>0 DEF ScreenerCameToItsEnd, ExitZeroMeansRecorded
<1> QED BY <1>1, <1>3, <1>4, <1>5, <1>6, <1>7 DEF JobInv

\* A line that tells of a failure.
LEMMA FailuresKeep == JobInv /\ (SetupFails \/ ServiceFails) => JobInv'
<1> SUFFICES ASSUME JobInv, SetupFails \/ ServiceFails PROVE JobInv'
  OBVIOUS
<1>0. /\ stage \in {"setup", "persist"} /\ Len(outcomes) < E /\ Report(0, TRUE, "none")
      /\ UNCHANGED <<loadVars, verdict, raised, runs, exit>>
  BY DEF JobInv, EntriesInTurn, SetupFails, ServiceFails
<1>1. /\ 0 \in 0..E /\ runs' \in Seq(RunRow) /\ Len(runs') = Len(runs)
      /\ \A r \in 1..Len(runs) : runs'[r] = runs[r]
      /\ \A r \in 1..Len(runs') : runs'[r].status = "running" => runs'[r].rows = {}
  BY <1>0, Types, Counts DEF JobInv, OpenRunsAreEmpty
<1> QED BY <1>0, <1>1, ReportKeeps

\* A run ends without a header, or with its outcome committed.
LEMMA PersistKeeps == JobInv /\ (PersistNothing \/ Persist) => JobInv'
<1> SUFFICES ASSUME JobInv, PersistNothing \/ Persist PROVE JobInv'
  OBVIOUS
<1>0. /\ TypeOK /\ stage = "persist" /\ Len(outcomes) < E
      /\ Report(run, IsFatal(FinalStatus), FinalStatus)
      /\ UNCHANGED <<loadVars, verdict, raised, exit>>
  BY DEF JobInv, EntriesInTurn, PersistNothing, Persist
<1>1. /\ run \in 0..E /\ IsFatal(FinalStatus) \in BOOLEAN
      /\ FinalStatus \in {"none", "success", "partial", "failed"}
      /\ ~IsFatal(FinalStatus) => run # 0 /\ FinalStatus \in {"success", "partial"}
  BY <1>0, FinalStatusType, Types, Counts DEF IsFatal
<1>2. CASE PersistNothing
  <2>1. runs' = runs /\ run = 0
    BY <1>2 DEF PersistNothing
  <2>2. /\ runs' \in Seq(RunRow) /\ Len(runs') = Len(runs)
        /\ \A r \in 1..Len(runs) : runs'[r] = runs[r]
        /\ \A r \in 1..Len(runs') : runs'[r].status = "running" => runs'[r].rows = {}
    BY <1>0, <2>1, Types, Counts DEF JobInv, OpenRunsAreEmpty
  <2> QED BY <1>0, <1>1, <2>1, <2>2, ReportKeeps
<1>3. CASE Persist
  <2>1. WriteOutcome(run) /\ run # 0
    BY <1>3 DEF Persist
  <2>2. /\ runs' \in Seq(RunRow) /\ Len(runs') = Len(runs)
        /\ \A r \in 1..Len(runs) : r # run => runs'[r] = runs[r]
        /\ runs'[run] = [status |-> FinalStatus, rows |-> Stored]
        /\ \A r \in 1..Len(runs') : runs'[r].status = "running" => runs'[r].rows = {}
    BY <1>0, <2>1, Written DEF JobInv
  <2> QED BY <1>0, <1>1, <2>1, <2>2, ReportKeeps
<1> QED BY <1>2, <1>3

\* A run whose outcome could not be committed is stamped FAILED, if that commits.
LEMMA MarkFailedKeeps == JobInv /\ MarkFailed => JobInv'
<1> SUFFICES ASSUME JobInv, MarkFailed PROVE JobInv'
  OBVIOUS
<1>0. /\ TypeOK /\ stage = "mark" /\ Len(outcomes) < E /\ run # 0
      /\ Report(run, TRUE, "failed") /\ UNCHANGED <<loadVars, verdict, raised, exit>>
  BY DEF JobInv, EntriesInTurn, MarkFailed, IsFatal
<1>1. run \in 1..Len(runs) /\ run \in 0..E /\ runs \in Seq(RunRow) /\ DOMAIN runs = 1..Len(runs)
  BY <1>0, Types, Counts
<1>2. \/ runs' = runs
      \/ runs' = [runs EXCEPT ![run].status = "failed"]
  BY DEF MarkFailed
<1>3. \A r \in 1..Len(runs) : runs[r].status = "running" => runs[r].rows = {}
  BY <1>1 DEF JobInv, OpenRunsAreEmpty
<1>4. /\ runs' \in Seq(RunRow) /\ Len(runs') = Len(runs)
      /\ \A r \in 1..Len(runs) : r # run => runs'[r] = runs[r]
      /\ \A r \in 1..Len(runs') : runs'[r].status = "running" => runs'[r].rows = {}
  <2>1. CASE runs' = runs
    BY <1>1, <1>3, <2>1
  <2>2. CASE runs' = [runs EXCEPT ![run].status = "failed"]
    <3> DEFINE new == [runs[run] EXCEPT !.status = "failed"]
    <3>1. runs[run] \in RunRow
      BY <1>0, <1>1, Counts
    <3>2. new \in RunRow /\ new.status = "failed"
      BY <3>1 DEF RunRow, RunStatus
    <3>3. runs' = [runs EXCEPT ![run] = new]
      BY <2>2
    <3>4. runs' \in Seq(RunRow) /\ Len(runs') = Len(runs)
      BY <1>1, <3>2, <3>3, ExceptSeq
    <3>5. runs'[run] = new /\ \A r \in 1..Len(runs) : r # run => runs'[r] = runs[r]
      BY <1>1, <3>3
    <3> QED BY <1>1, <1>3, <3>2, <3>4, <3>5
  <2> QED BY <1>2, <2>1, <2>2
<1> QED BY <1>0, <1>1, <1>4, ReportKeeps

\* The commit of an outcome fails, before or after it took effect.
LEMMA PersistFailsKeeps == JobInv /\ PersistFails => JobInv'
<1> SUFFICES ASSUME JobInv, PersistFails PROVE JobInv'
  OBVIOUS
<1>0. /\ TypeOK /\ stage = "persist" /\ stage' = "mark" /\ run # 0 /\ Len(outcomes) < E
      /\ UNCHANGED <<loadVars, run, verdict, raised, outcomes, exit>>
      /\ Len(outcomes) \in Nat /\ run \in 1..Len(runs) /\ DOMAIN runs = 1..Len(runs)
      /\ run = Len(runs) /\ Len(runs) <= Len(outcomes) + 1 /\ exit = -1
      /\ runs \in Seq(RunRow)
  <2>1. TypeOK /\ stage = "persist" /\ stage' = "mark" /\ run # 0
    BY DEF JobInv, PersistFails
  <2>2. UNCHANGED <<loadVars, run, verdict, raised, outcomes, exit>>
    BY DEF PersistFails
  <2>3. run = Len(runs) /\ Len(runs) <= Len(outcomes) + 1 /\ exit = -1 /\ Len(outcomes) < E
    BY <2>1 DEF JobInv, EntriesInTurn, InScan
  <2> QED BY <2>1, <2>2, <2>3, Types, Counts
<1>1. /\ runs' \in Seq(RunRow) /\ Len(runs') = Len(runs)
      /\ \A r \in 1..Len(runs) : r # run => runs'[r] = runs[r]
      /\ \A r \in 1..Len(runs') : runs'[r].status = "running" => runs'[r].rows = {}
  <2>1. CASE runs' = runs
    BY <1>0, <2>1 DEF JobInv, OpenRunsAreEmpty
  <2>2. CASE WriteOutcome(run)
    BY <1>0, <2>2, Written DEF JobInv
  <2> QED BY <2>1, <2>2 DEF PersistFails
<1>2. LoadProofs!LoadInv' /\ Load!TypeOK'
  BY <1>0, LoadKeeps DEF JobInv
<1>3. TypeOK'
  BY <1>0, <1>1, <1>2, Types, TypesNext
<1>4. EntriesInTurn'
  BY <1>0, <1>1 DEF JobInv, EntriesInTurn, InScan
<1>5. RecordedSoFar'
  <2> SUFFICES ASSUME NothingFatal
               PROVE  /\ \A k \in 1..Len(outcomes) :
                          /\ outcomes[k].run = k /\ k <= Len(runs')
                          /\ runs'[k].status = outcomes[k].status
                          /\ runs'[k].status \in {"success", "partial"}
                      /\ run = Len(outcomes) + 1
    BY <1>0 DEF RecordedSoFar, NothingFatal
  <2>1. run = Len(outcomes) + 1
    BY <1>0 DEF JobInv, RecordedSoFar, InScan
  <2>2. \A k \in 1..Len(outcomes) : k # run /\ k \in 1..Len(runs)
    BY <1>0, <2>1
  <2> QED BY <1>1, <2>1, <2>2 DEF JobInv, RecordedSoFar
<1>6. OpenRunsAreEmpty'
  BY <1>0, <1>1, LenProperties DEF OpenRunsAreEmpty
<1>7. ScreenerCameToItsEnd' /\ ExitZeroMeansRecorded'
  BY <1>0 DEF JobInv, ScreenerCameToItsEnd, ExitZeroMeansRecorded, loadVars
<1> QED BY <1>2, <1>3, <1>4, <1>5, <1>6, <1>7 DEF JobInv

\* A step that leaves the history and the summary alone moves the job one stage on.
LEMMA HistoryStays ==
  ASSUME JobInv, UNCHANGED <<run, runs, outcomes>>, LoadProofs!LoadInv', Load!TypeOK',
         verdict' \in [Rows -> Verdicts \cup {"unseen"}], raised' \in BOOLEAN,
         exit' \in {-1, 0, 1}, exit' # -1 => stage' = "ended",
         \/ stage' = stage \/ stage' \in {"ended", "killed"}
         \/ stage = "start" /\ stage' = "setup"
         \/ stage = "setup" /\ stage' = "header" /\ Len(outcomes) < E
         \/ stage = "screening" /\ stage' = "persist",
         ScreenerCameToItsEnd', ExitZeroMeansRecorded'
  PROVE  JobInv'
<1>0. TypeOK /\ stage \in {"start", "setup", "header", "screening", "persist", "mark", "ended", "killed"}
  BY Types DEF JobInv
<1>1. TypeOK'
  BY <1>0, Types, TypesNext
<1>2. EntriesInTurn'
  <2>1. CASE stage' = stage
    BY <2>1 DEF JobInv, EntriesInTurn, InScan
  <2>2. CASE stage' \in {"ended", "killed"}
    BY <2>2 DEF JobInv, EntriesInTurn, InScan
  <2>3. CASE stage = "start" /\ stage' = "setup"
    BY <2>3 DEF JobInv, EntriesInTurn, InScan
  <2>4. CASE stage = "setup" /\ stage' = "header" /\ Len(outcomes) < E
    BY <2>4 DEF JobInv, EntriesInTurn, InScan
  <2>5. CASE stage = "screening" /\ stage' = "persist"
    BY <2>5 DEF JobInv, EntriesInTurn, InScan
  <2> QED BY <2>1, <2>2, <2>3, <2>4, <2>5
<1>3. RecordedSoFar'
  BY DEF JobInv, RecordedSoFar, NothingFatal, InScan
<1>4. OpenRunsAreEmpty'
  BY DEF JobInv, OpenRunsAreEmpty
<1> QED BY <1>1, <1>2, <1>3, <1>4 DEF JobInv

\* The job starts, gives up before it starts, is killed, or has ended.
LEMMA StageKeeps == JobInv /\ (Refuse \/ Start \/ Kill \/ Over) => JobInv'
<1> SUFFICES ASSUME JobInv, Refuse \/ Start \/ Kill \/ Over PROVE JobInv'
  OBVIOUS
<1>0. /\ TypeOK /\ UNCHANGED <<loadVars, run, runs, outcomes, verdict, raised>>
  BY DEF JobInv, Refuse, Start, Kill, Over, vars, jobVars
<1>1. /\ verdict' \in [Rows -> Verdicts \cup {"unseen"}] /\ raised' \in BOOLEAN
      /\ exit' \in {-1, 0, 1}
  BY <1>0, Types DEF Refuse, Start, Kill, Over, vars, jobVars
<1>2. LoadProofs!LoadInv' /\ Load!TypeOK'
  BY <1>0, LoadKeeps DEF JobInv
<1>3. exit' # -1 => stage' = "ended"
  BY DEF JobInv, EntriesInTurn, Refuse, Start, Kill, Over, vars, jobVars
<1>4. \/ stage' = stage \/ stage' \in {"ended", "killed"}
      \/ stage = "start" /\ stage' = "setup"
  BY DEF Refuse, Start, Kill, Over, vars, jobVars
<1>5. ScreenerCameToItsEnd'
  BY DEF JobInv, ScreenerCameToItsEnd, Refuse, Start, Kill, Over, vars, jobVars, loadVars
<1>6. exit' = 0 => exit = 0
  BY DEF Refuse, Start, Kill, Over, vars, jobVars
<1>7. ExitZeroMeansRecorded'
  BY <1>0, <1>6 DEF JobInv, ExitZeroMeansRecorded
<1> QED BY <1>0, <1>1, <1>2, <1>3, <1>4, <1>5, <1>7, HistoryStays

\* An entry gets its loader.
LEMMA SetUpKeeps == JobInv /\ SetUp => JobInv'
<1> SUFFICES ASSUME JobInv, SetUp PROVE JobInv'
  OBVIOUS
<1>0. /\ TypeOK /\ Load!TypeOK /\ FreshLoader /\ stage = "setup" /\ stage' = "header"
      /\ Len(outcomes) < E /\ verdict' = NoVerdicts /\ raised' = FALSE
      /\ UNCHANGED <<run, runs, outcomes, exit>> /\ exit = -1
  BY Types DEF JobInv, EntriesInTurn, SetUp
<1>1. LoadProofs!LoadInv' /\ Load!TypeOK'
  BY <1>0, FreshLoaderIsUnused
<1>2. verdict' \in [Rows -> Verdicts \cup {"unseen"}]
  BY <1>0 DEF NoVerdicts
<1>3. ScreenerCameToItsEnd' /\ ExitZeroMeansRecorded'
  BY <1>0 DEF ScreenerCameToItsEnd, ExitZeroMeansRecorded
<1> QED BY <1>0, <1>1, <1>2, <1>3, HistoryStays

\* The job ends: with exit code 0 only if nothing was fatal.
LEMMA FinishKeeps == JobInv /\ Finish => JobInv'
<1> SUFFICES ASSUME JobInv, Finish PROVE JobInv'
  OBVIOUS
<1>0. /\ TypeOK /\ stage = "setup" /\ stage' = "ended" /\ Len(outcomes) = E
      /\ exit' = (IF AnyFatal THEN 1 ELSE 0)
      /\ UNCHANGED <<loadVars, run, runs, outcomes, verdict, raised>>
  BY DEF JobInv, Finish
<1>1. /\ verdict' \in [Rows -> Verdicts \cup {"unseen"}] /\ raised' \in BOOLEAN
      /\ exit' \in {-1, 0, 1}
  BY <1>0, Types
<1>2. LoadProofs!LoadInv' /\ Load!TypeOK'
  BY <1>0, LoadKeeps DEF JobInv
<1>3. exit' = 0 => NothingFatal
  BY <1>0 DEF AnyFatal, NothingFatal
<1>4. ExitZeroMeansRecorded'
  BY <1>0, <1>3 DEF JobInv, RecordedSoFar, ExitZeroMeansRecorded
<1>5. ScreenerCameToItsEnd'
  BY <1>0 DEF ScreenerCameToItsEnd
<1> QED BY <1>0, <1>1, <1>2, <1>4, <1>5, HistoryStays

\* The load moves on, and a frame it yields is judged.
LEMMA ScreenKeeps == JobInv /\ (Pull \/ Pool \/ RaiseInLoop) => JobInv'
<1> SUFFICES ASSUME JobInv, Pull \/ Pool \/ RaiseInLoop PROVE JobInv'
  OBVIOUS
<1>0. /\ TypeOK /\ stage = "screening" /\ UNCHANGED <<stage, run, raised, runs, outcomes, exit>>
      /\ \/ Load!Generate \/ Load!Abandon
         \/ \E i \in Rows : Load!StartFetch(i) \/ Load!EndFetch(i)
  BY DEF JobInv, Pull, Pool, PoolThread, RaiseInLoop, jobVars
<1>1. LoadProofs!LoadInv' /\ Load!TypeOK'
  BY <1>0, LoadKeeps DEF JobInv
<1>2. verdict' \in [Rows -> Verdicts \cup {"unseen"}]
  <2>1. verdict \in [Rows -> Verdicts \cup {"unseen"}]
    BY <1>0, Types
  <2>2. CASE Pull
    BY <2>1, <2>2 DEF Pull, Screened
  <2>3. CASE Pool \/ RaiseInLoop
    BY <2>1, <2>3 DEF Pool, PoolThread, RaiseInLoop, jobVars
  <2> QED BY <2>2, <2>3
<1>3. raised' \in BOOLEAN /\ exit' \in {-1, 0, 1} /\ exit' = -1
  BY <1>0, Types DEF JobInv, EntriesInTurn
<1>4. ScreenerCameToItsEnd' /\ ExitZeroMeansRecorded'
  BY <1>0, <1>3 DEF ScreenerCameToItsEnd, ExitZeroMeansRecorded
<1> QED BY <1>0, <1>1, <1>2, <1>3, <1>4, HistoryStays

\* The screener returns or raises.
LEMMA ReturnKeeps == JobInv /\ (Return \/ ReturnEventDriven \/ Raise) => JobInv'
<1> SUFFICES ASSUME JobInv, Return \/ ReturnEventDriven \/ Raise PROVE JobInv'
  OBVIOUS
<1>0. /\ TypeOK /\ stage = "screening" /\ stage' = "persist"
      /\ UNCHANGED <<loadVars, run, runs, outcomes, exit>>
  BY DEF JobInv, Return, ReturnEventDriven, Raise
<1>1. LoadProofs!LoadInv' /\ Load!TypeOK'
  BY <1>0, LoadKeeps DEF JobInv
<1>2. verdict' \in [Rows -> Verdicts \cup {"unseen"}] /\ raised' \in BOOLEAN
  BY <1>0, Types DEF Return, ReturnEventDriven, Raise
<1>3. exit' \in {-1, 0, 1} /\ exit' = -1
  BY <1>0, Types DEF JobInv, EntriesInTurn
<1>4. ScreenerCameToItsEnd'
  BY DEF ScreenerCameToItsEnd, Return, ReturnEventDriven, Raise, loadVars
<1>5. ExitZeroMeansRecorded'
  BY <1>3 DEF ExitZeroMeansRecorded
<1> QED BY <1>0, <1>1, <1>2, <1>3, <1>4, <1>5, HistoryStays

\* A header is committed, or the run goes on without one.
LEMMA CreateHeaderKeeps == JobInv /\ CreateHeader => JobInv'
<1> DEFINE header == [status |-> "running", rows |-> {}]
           n == Len(runs)
<1> SUFFICES ASSUME JobInv, CreateHeader PROVE JobInv'
  OBVIOUS
<1>0. /\ TypeOK /\ stage = "header" /\ stage' = "screening"
      /\ UNCHANGED <<loadVars, verdict, raised, outcomes, exit>>
  BY DEF JobInv, CreateHeader
<1>n. /\ runs \in Seq(RunRow) /\ n \in Nat /\ n <= Len(outcomes) /\ Len(outcomes) < E
      /\ Len(outcomes) \in Nat /\ E \in Nat /\ exit = -1 /\ DOMAIN runs = 1..n
  BY <1>0, Types, Counts DEF JobInv, EntriesInTurn
<1>1. \/ runs' = runs /\ run' = 0
      \/ runs' = Append(runs, header) /\ run' \in {0, Len(runs')}
  BY DEF CreateHeader
<1>2. header \in RunRow
  BY DEF RunRow, RunStatus
<1>3. /\ runs' \in Seq(RunRow) /\ Len(runs') \in {n, n + 1} /\ run' \in {0, Len(runs')}
      /\ run' # 0 => Len(runs') = n + 1 /\ runs'[n + 1] = header
      /\ \A r \in 1..n : runs'[r] = runs[r]
      /\ \A r \in 1..Len(runs') : r \in 1..n \/ runs'[r] = header
  <2>1. CASE runs' = runs /\ run' = 0
    BY <1>n, <2>1
  <2>2. CASE runs' = Append(runs, header) /\ run' \in {0, Len(runs')}
    <3>1. /\ runs' \in Seq(RunRow) /\ Len(runs') = n + 1 /\ runs'[n + 1] = header
          /\ \A r \in 1..n : runs'[r] = runs[r]
      BY <1>n, <1>2, <2>2, AppendProperties
    <3>2. \A r \in 1..(n + 1) : r \in 1..n \/ r = n + 1
      BY <1>n
    <3> QED BY <2>2, <3>1, <3>2
  <2> QED BY <1>1, <2>1, <2>2
<1> HIDE DEF header
<1>4. LoadProofs!LoadInv' /\ Load!TypeOK'
  BY <1>0, LoadKeeps DEF JobInv
<1>5. TypeOK'
  BY <1>0, <1>n, <1>3, <1>4, Types, TypesNext
<1>6. EntriesInTurn'
  BY <1>0, <1>n, <1>3 DEF JobInv, EntriesInTurn, InScan
<1>7. RecordedSoFar'
  <2> SUFFICES ASSUME NothingFatal
               PROVE  /\ \A k \in 1..Len(outcomes) :
                          /\ outcomes[k].run = k /\ k <= Len(runs')
                          /\ runs'[k].status = outcomes[k].status
                          /\ runs'[k].status \in {"success", "partial"}
                      /\ run' # 0 => run' = Len(outcomes) + 1
    BY <1>0 DEF RecordedSoFar, NothingFatal
  <2>1. n = Len(outcomes)
    BY <1>0 DEF JobInv, RecordedSoFar
  <2> QED BY <1>n, <1>3, <2>1 DEF JobInv, RecordedSoFar
<1>8. OpenRunsAreEmpty'
  <2>1. DOMAIN runs' = 1..Len(runs')
    BY <1>3, LenProperties
  <2>2. header.status = "running" /\ header.rows = {}
    BY DEF header
  <2> QED BY <1>0, <1>n, <1>3, <2>1, <2>2 DEF JobInv, OpenRunsAreEmpty
<1>9. ScreenerCameToItsEnd' /\ ExitZeroMeansRecorded'
  BY <1>0, <1>n DEF ScreenerCameToItsEnd, ExitZeroMeansRecorded
<1> QED BY <1>4, <1>5, <1>6, <1>7, <1>8, <1>9 DEF JobInv

-----------------------------------------------------------------------------
(* The invariants of the job.                                              *)

\* Before the job starts there is nothing.
LEMMA JobInit == Init => JobInv
<1> SUFFICES ASSUME Init PROVE JobInv
  OBVIOUS
<1>0. /\ stage = "start" /\ run = 0 /\ verdict = NoVerdicts /\ raised = FALSE
      /\ runs = <<>> /\ outcomes = <<>> /\ exit = -1 /\ Len(runs) = 0 /\ Len(outcomes) = 0
  BY DEF Init
<1>1. LoadProofs!LoadInv /\ Load!TypeOK
  <2>1. LoadProofs!Init
    BY SameWords DEF Init, Load!Init, LoadProofs!Init
  <2> QED BY <2>1, LoadProofs!LoadInit, SameTypes, JobAssumption DEF LoadProofs!LoadInv
<1>2. TypeOK
  <2>1. verdict \in [Rows -> Verdicts \cup {"unseen"}]
    BY <1>0 DEF NoVerdicts
  <2>2. run \in 0..Len(runs) /\ Len(runs) <= E /\ exit \in {-1, 0, 1} /\ raised \in BOOLEAN
    <3>1. raised \in BOOLEAN
      BY <1>0, Zenon
    <3>2. Len(runs) = 0 /\ run = 0 /\ exit = -1 /\ 0 <= E
      BY <1>0, JobAssumption
    <3> QED BY <3>1, <3>2
  <2>3. runs \in Seq(RunRow) /\ outcomes \in Seq(Line)
    BY <1>0
  <2> QED BY <1>0, <1>1, <2>1, <2>2, <2>3, Types
<1>3. EntriesInTurn /\ RecordedSoFar /\ OpenRunsAreEmpty
  BY <1>0, JobAssumption DEF EntriesInTurn, RecordedSoFar, OpenRunsAreEmpty, InScan
<1>4. ScreenerCameToItsEnd /\ ExitZeroMeansRecorded
  BY <1>0 DEF ScreenerCameToItsEnd, ExitZeroMeansRecorded
<1> QED BY <1>1, <1>2, <1>3, <1>4 DEF JobInv

\* Every step keeps the invariant.
LEMMA JobStep == JobInv /\ [Next]_vars => JobInv'
<1> SUFFICES ASSUME JobInv, [Next]_vars PROVE JobInv'
  OBVIOUS
<1>1. CASE UNCHANGED vars
  <2>1. /\ TypeOK /\ UNCHANGED <<loadVars, run, runs, outcomes, verdict, raised, exit, stage>>
    BY <1>1 DEF JobInv, vars, jobVars
  <2>2. LoadProofs!LoadInv' /\ Load!TypeOK'
    BY <2>1, LoadKeeps DEF JobInv
  <2>3. /\ verdict' \in [Rows -> Verdicts \cup {"unseen"}] /\ raised' \in BOOLEAN
        /\ exit' \in {-1, 0, 1}
    BY <2>1, Types
  <2>4. ScreenerCameToItsEnd' /\ ExitZeroMeansRecorded' /\ (exit' # -1 => stage' = "ended")
    BY <2>1 DEF JobInv, EntriesInTurn, ScreenerCameToItsEnd, ExitZeroMeansRecorded, loadVars
  <2> QED BY <2>1, <2>2, <2>3, <2>4, HistoryStays
<1>2. CASE Next
  BY <1>2, FailuresKeep, PersistKeeps, MarkFailedKeeps, PersistFailsKeeps, StageKeeps, SetUpKeeps,
     FinishKeeps, ScreenKeeps, ReturnKeeps, CreateHeaderKeeps DEF Next, Job
<1> QED BY <1>1, <1>2

\* The inductive invariant holds of every execution of the job.
THEOREM JobInvariant == Spec => []JobInv
  BY JobInit, JobStep, PTL DEF Spec

\* Every variable keeps its type, the load inside the job included; no schedule yields
\* more runs than it has entries.
THEOREM TypeCorrect == Spec => []TypeOK
<1>1. JobInv => TypeOK
  BY DEF JobInv
<1> QED BY <1>1, JobInvariant, PTL

\* Exit code 0 means a complete history: a finalized run for every entry, with the
\* status the job reported for it.
THEOREM ExitZeroIsHonest == Spec => []ExitZeroMeansRecorded
<1>1. JobInv => ExitZeroMeansRecorded
  BY DEF JobInv
<1> QED BY <1>1, JobInvariant, PTL

-----------------------------------------------------------------------------
(* The status of a run.                                                    *)

\* The verdict on a run follows from what happened in it.
LEMMA VerdictFollows ==
  ASSUME JobInv, stage = "persist"
  PROVE  /\ FinalStatus = "success" =>
             /\ NotLoaded = {} /\ BadVerdict = {} /\ ~raised
             /\ phase = "done" => Len(items) = N
             /\ Stored = Judgement("signal")
         /\ FinalStatus = "partial" =>
             /\ NotLoaded \cup BadVerdict # {} /\ ~raised
             /\ Stored = Judgement("signal")
         /\ FinalStatus = "failed" =>
             Stored = {} /\ (raised \/ Judgement("signal") = {})
<1>0. raised \in BOOLEAN
  BY Types DEF JobInv
<1>1. CASE raised
  <2>1. /\ Stored = {} /\ Results = {} /\ Rejected = {}
    BY <1>1 DEF Stored, Results, Rejected, Emitted
  <2>2. FinalStatus = "failed"
    BY <1>1, <2>1 DEF FinalStatus, QualityStatus, ScreenerStatus
  <2> QED BY <1>1, <2>1, <2>2
<1>2. CASE ~raised
  <2>1. /\ Stored = Judgement("signal") /\ Results = Stored \cup Judgement("unstorable")
        /\ Rejected = Judgement("invalid") \cup Judgement("unstorable")
        /\ ComputeFailures = Judgement("raises") \cup Judgement("invalid")
    BY <1>2 DEF Stored, Results, Rejected, ComputeFailures, Emitted
  <2>2. BadVerdict = ComputeFailures \cup Rejected
    BY <2>1 DEF BadVerdict, Judgement
  <2>3. failures = NotLoaded /\ reports.fatal \subseteq NotLoaded
        /\ (phase = "done" => Len(items) = N)
    <3>1. CASE phase = "done"
      BY <3>1, SameWords DEF JobInv, LoadProofs!LoadInv, LoadProofs!Ends, NotLoaded, LoadProofs!Rows
    <3>2. CASE phase = "new"
      <4>1. items = <<>> /\ failures = {} /\ reports.fatal = {}
        BY <3>2 DEF JobInv, LoadProofs!LoadInv, LoadProofs!Ends, LoadProofs!NoReports
      <4> QED BY <3>2, <4>1 DEF NotLoaded
    <3> QED BY <1>2, <3>1, <3>2 DEF JobInv, ScreenerCameToItsEnd
  <2>4. ScreenerStatus = IF NotLoaded # {} \/ ComputeFailures # {} THEN "partial" ELSE "success"
    BY <1>2, <2>3 DEF ScreenerStatus
  <2>5. CASE Rejected # {}
    BY <1>2, <2>1, <2>2, <2>5 DEF FinalStatus
  <2>6. CASE Rejected = {}
    <3>1. FinalStatus = QualityStatus
      BY <2>6 DEF FinalStatus
    <3>2. CASE reports.fatal = {}
      BY <1>2, <2>1, <2>2, <2>3, <2>4, <2>6, <3>1, <3>2 DEF QualityStatus
    <3>3. CASE reports.fatal # {}
      <4>1. NotLoaded # {} /\ ScreenerStatus = "partial"
        BY <2>3, <2>4, <3>3
      <4>2. FinalStatus = IF reports.usable = {} /\ Results = {} THEN "failed" ELSE "partial"
        BY <3>1, <3>3, <4>1 DEF QualityStatus
      <4>3. Results = {} => Stored = {}
        BY <2>1
      <4> QED BY <1>2, <2>1, <4>1, <4>2, <4>3
    <3> QED BY <3>2, <3>3
  <2> QED BY <2>5, <2>6
<1> QED BY <1>0, <1>1, <1>2

\* What StatusTruthful says of run r.
TruthfulStep(r) ==
    /\ Stamped(r, "success") =>
        /\ runs[r].status = "running"
        /\ NotLoaded = {} /\ BadVerdict = {} /\ ~raised
        /\ phase = "done" => Len(items) = N
        /\ runs'[r].rows = Judgement("signal")
    /\ Stamped(r, "partial") =>
        /\ runs[r].status = "running"
        /\ NotLoaded \cup BadVerdict # {} /\ ~raised
        /\ runs'[r].rows = Judgement("signal")
    /\ Stamped(r, "failed") => NothingStored(r) \/ Overruled(r)
    /\ r \in DOMAIN runs =>
        /\ runs'[r].status = "running" => runs'[r].rows = {}
        /\ runs[r].status # "running" => runs'[r].rows = runs[r].rows

\* What a failed persist leaves behind: the run untouched, or its verdict, committed
\* although the caller was told that it was not.
JudgedAtMark ==
    stage = "mark" =>
        \/ runs[run] = [status |-> "running", rows |-> {}]
        \/ runs[run] = [status |-> FinalStatus, rows |-> Stored]

\* A failed persist, and nothing else, leads to the failure stamp.
LEMMA MarkStep == JobInv /\ JudgedAtMark /\ [Next]_vars => JudgedAtMark'
<1> SUFFICES ASSUME JobInv, JudgedAtMark, [Next]_vars PROVE JudgedAtMark'
  OBVIOUS
<1>1. ASSUME UNCHANGED <<loadVars, verdict, raised>>
      PROVE  FinalStatus' = FinalStatus /\ Stored' = Stored
  <2>1. /\ Stored' = Stored /\ Results' = Results /\ Rejected' = Rejected
        /\ ComputeFailures' = ComputeFailures
    BY <1>1 DEF Stored, Results, Rejected, ComputeFailures, Emitted, Judgement
  <2>2. failures' = failures /\ reports' = reports
    BY <1>1 DEF loadVars
  <2>3. ScreenerStatus' = ScreenerStatus
    BY <1>1, <2>1, <2>2 DEF ScreenerStatus
  <2>4. QualityStatus' = QualityStatus
    BY <2>1, <2>2, <2>3 DEF QualityStatus
  <2> QED BY <2>1, <2>4 DEF FinalStatus
<1>2. CASE PersistFails
  <2>1. stage = "persist" /\ run # 0 /\ run' = run /\ FinalStatus' = FinalStatus /\ Stored' = Stored
    BY <1>1, <1>2 DEF PersistFails
  <2>2. CASE runs' = runs
    <3>0. run \in 1..Len(runs) /\ DOMAIN runs = 1..Len(runs) /\ runs[run] \in RunRow
      BY <2>1, Types, Counts DEF JobInv
    <3>1. runs[run].status = "running" /\ runs[run].rows = {}
      BY <2>1, <3>0 DEF JobInv, OpenRunsAreEmpty
    <3>2. runs[run] = [status |-> "running", rows |-> {}]
      BY <3>0, <3>1 DEF RunRow
    <3> QED BY <2>1, <2>2, <3>2 DEF JudgedAtMark
  <2>3. CASE WriteOutcome(run)
    <3>1. runs'[run] = [status |-> FinalStatus, rows |-> Stored]
      BY <2>1, <2>3, Written DEF JobInv
    <3> QED BY <2>1, <3>1 DEF JudgedAtMark
  <2> QED BY <1>2, <2>2, <2>3 DEF PersistFails
<1>3. CASE UNCHANGED vars
  <2>1. UNCHANGED <<loadVars, run, runs, verdict, raised, stage>>
    BY <1>3 DEF vars, jobVars
  <2> QED BY <1>1, <2>1 DEF JudgedAtMark
<1>4. CASE Pull \/ Pool \/ RaiseInLoop \/ Over
  BY <1>3, <1>4 DEF Pull, Pool, PoolThread, RaiseInLoop, Over, JudgedAtMark, jobVars
<1>5. CASE \/ Refuse \/ SetupFails \/ ServiceFails \/ Start \/ SetUp \/ Finish \/ Return \/ MarkFailed
           \/ ReturnEventDriven \/ Raise \/ PersistNothing \/ Persist \/ CreateHeader \/ Kill
  <2>1. CASE \/ Refuse \/ Start \/ SetUp \/ Finish \/ Return \/ ReturnEventDriven \/ Raise
             \/ CreateHeader \/ Kill
    <3>1. stage' # "mark"
      BY <2>1 DEF Refuse, Start, SetUp, Finish, Return, ReturnEventDriven, Raise, CreateHeader, Kill
    <3> QED BY <3>1 DEF JudgedAtMark
  <2>2. CASE SetupFails \/ ServiceFails \/ PersistNothing \/ Persist \/ MarkFailed
    <3>1. stage' # "mark"
      BY <2>2 DEF SetupFails, ServiceFails, PersistNothing, Persist, MarkFailed, Report
    <3> QED BY <3>1 DEF JudgedAtMark
  <2> QED BY <1>5, <2>1, <2>2
<1> QED BY <1>2, <1>3, <1>4, <1>5 DEF Next, Job

\* A run whose row is not written is not judged.
LEMMA UntouchedRun ==
  ASSUME JobInv, NEW r, r \in DOMAIN runs => runs'[r] = runs[r]
  PROVE  TruthfulStep(r)
  BY DEF TruthfulStep, Stamped, JobInv, OpenRunsAreEmpty

\* The run whose outcome is written gets the status it deserves.
LEMMA JudgedRun ==
  ASSUME JobInv, stage = "persist", run # 0, WriteOutcome(run), NEW r
  PROVE  TruthfulStep(r)
<1>1. /\ DOMAIN runs = 1..Len(runs) /\ run \in 1..Len(runs)
      /\ \A q \in 1..Len(runs) : q # run => runs'[q] = runs[q]
      /\ runs'[run] = [status |-> FinalStatus, rows |-> Stored]
  BY Written, Counts DEF JobInv
<1>2. CASE r # run
  BY <1>1, <1>2, UntouchedRun
<1>3. CASE r = run
  <2>1. runs'[r].status = FinalStatus /\ runs'[r].rows = Stored
    BY <1>1, <1>3
  <2>2. runs[r].status = "running"
    BY <1>3 DEF JobInv, OpenRunsAreEmpty
  <2>3. FinalStatus # "running"
    BY FinalStatusType
  <2> QED BY <2>1, <2>2, <2>3, VerdictFollows DEF TruthfulStep, Stamped, NothingStored
<1> QED BY <1>2, <1>3

\* The run stamped FAILED keeps the rows it has: none, unless its verdict was committed.
LEMMA MarkedRun ==
  ASSUME JobInv, JudgedAtMark, MarkFailed, NEW r
  PROVE  TruthfulStep(r)
<1>1. runs' = runs \/ runs' = [runs EXCEPT ![run].status = "failed"]
  BY DEF MarkFailed
<1>2. CASE r \in DOMAIN runs /\ r = run /\ runs' = [runs EXCEPT ![run].status = "failed"]
  <2>1. runs[r] \in RunRow
    BY <1>2, Counts DEF JobInv
  <2>2. runs'[r] = [runs[r] EXCEPT !.status = "failed"]
    BY <1>2
  <2>3. runs'[r].status = "failed" /\ runs'[r].rows = runs[r].rows
    BY <2>1, <2>2 DEF RunRow
  <2>4. /\ stage = "mark"
        /\ outcomes' = Append(outcomes, [fatal |-> TRUE, run |-> r, status |-> "failed"])
    BY <1>2 DEF MarkFailed, Report, IsFatal
  <2>5. CASE runs[r] = [status |-> "running", rows |-> {}]
    <3>1. NothingStored(r)
      BY <2>3, <2>4, <2>5 DEF NothingStored
    <3> QED BY <2>3, <2>5, <3>1 DEF TruthfulStep, Stamped
  <2>6. CASE runs[r] = [status |-> FinalStatus, rows |-> Stored]
    <3>1. Overruled(r)
      BY <1>2, <2>3, <2>4, <2>6 DEF Overruled
    <3> QED BY <2>3, <3>1 DEF TruthfulStep, Stamped
  <2> QED BY <1>2, <2>4, <2>5, <2>6 DEF JudgedAtMark
<1>3. CASE ~(r \in DOMAIN runs /\ r = run /\ runs' = [runs EXCEPT ![run].status = "failed"])
  <2>1. r \in DOMAIN runs => runs'[r] = runs[r]
    BY <1>1, <1>3
  <2> QED BY <2>1, UntouchedRun
<1> QED BY <1>2, <1>3

\* A run's stored status tells what happened in that run, whatever it is written over;
\* FAILED stands above rows only after a commit whose acknowledgement was lost. Rows and
\* status appear together, and a finalized run keeps its rows.
THEOREM StatusIsTruthful == Spec => StatusTruthful
<1>1. ASSUME JobInv, JudgedAtMark, Next, NEW r \in 1..E PROVE TruthfulStep(r)
  <2>1. CASE Persist
    BY <1>1, <2>1, JudgedRun DEF Persist
  <2>2. CASE PersistFails
    <3>1. CASE WriteOutcome(run)
      BY <1>1, <2>2, <3>1, JudgedRun DEF PersistFails
    <3>2. CASE runs' = runs
      BY <1>1, <3>2, UntouchedRun
    <3> QED BY <2>2, <3>1, <3>2 DEF PersistFails
  <2>3. CASE MarkFailed
    BY <1>1, <2>3, MarkedRun
  <2>4. CASE CreateHeader
    <3>1. runs' = runs \/ runs' = Append(runs, [status |-> "running", rows |-> {}])
      BY <2>4 DEF CreateHeader
    <3>2. runs \in Seq(RunRow) /\ [status |-> "running", rows |-> {}] \in RunRow
          /\ DOMAIN runs = 1..Len(runs)
      BY <1>1, Types, Counts DEF JobInv, RunRow, RunStatus
    <3>3. r \in DOMAIN runs => runs'[r] = runs[r]
      BY <3>1, <3>2, AppendProperties
    <3> QED BY <1>1, <3>3, UntouchedRun
  <2>5. CASE \/ Refuse \/ SetupFails \/ ServiceFails \/ Start \/ SetUp \/ Finish \/ Pull \/ Return
             \/ ReturnEventDriven \/ Raise \/ PersistNothing \/ Pool \/ RaiseInLoop \/ Kill \/ Over
    <3>1. runs' = runs
      BY <2>5 DEF Refuse, SetupFails, ServiceFails, Start, SetUp, Finish, Pull, Return,
                  ReturnEventDriven, Raise, PersistNothing, Pool, PoolThread, RaiseInLoop, Kill,
                  Over, vars, jobVars
    <3> QED BY <1>1, <3>1, UntouchedRun
  <2> QED BY <1>1, <2>1, <2>2, <2>3, <2>4, <2>5 DEF Next, Job
<1>2. JobInv /\ JudgedAtMark /\ [Next]_vars => [\A r \in 1..E : TruthfulStep(r)]_vars
  BY <1>1
<1>3. Spec => [][\A r \in 1..E : TruthfulStep(r)]_vars
  <2>1. Init => JudgedAtMark
    BY DEF Init, JudgedAtMark
  <2> QED BY <1>2, <2>1, MarkStep, JobInvariant, PTL DEF Spec
<1> QED BY <1>3 DEF StatusTruthful, TruthfulStep
=============================================================================
