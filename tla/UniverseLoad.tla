---------------------------- MODULE UniverseLoad ----------------------------
(***************************************************************************)
(* One load of a universe's candles (DailyDataLoader.iter_universe_history *)
(* in backend/daily_data_loader.py): a generator the screener pulls items  *)
(* from, fetching one row at a time with one worker, or through a thread   *)
(* pool that runs ahead of the screener by a window of rows, with a        *)
(* circuit breaker over consecutive failures.  What one fetch does inside  *)
(* get_daily_history (cache, pacing, retries) is its outcome here.         *)
(***************************************************************************)
EXTENDS Integers, FiniteSets, Sequences

CONSTANTS
    N,              \* the mapped rows of the universe
    K,              \* max_consecutive_failures, 0 for no breaker
    WorkerCounts,   \* the values of SCANNER_DHAN_FETCH_WORKERS
    Faults          \* what may go wrong: "failure", "quality", "abandon"

Rows == 1..N

ASSUME LoadAssumption ==
    /\ N \in Nat /\ K \in Nat
    /\ WorkerCounts \subseteq Nat \ {0}
    /\ Faults \subseteq {"failure", "quality", "abandon"}

VARIABLES
    workers,        \* fetch_workers
    phase,          \* the generator: new, open, closing, closed, done
    submitted,      \* the rows handed to the pool: 1..submitted
    fetch,          \* fetch[i]: the future of row i
    items,          \* what the screener has received
    streak,         \* consecutive_failures
    tripped,        \* the breaker is open
    reports,        \* last_data_quality_reports: the rows found fatal, and usable
    failures        \* last_failures: rows

vars == <<workers, phase, submitted, fetch, items, streak, tripped, reports, failures>>

\* get_daily_history returns a frame (that its quality check lets through or not) or
\* raises.
Outcomes == {"frame"} \cup (IF "quality" \in Faults THEN {"quarantined"} ELSE {})
                      \cup (IF "failure" \in Faults THEN {"failure"} ELSE {})

Window     == 2 * workers
Parallel   == workers > 1
NoReports  == [fatal |-> {}, usable |-> {}]
NewFetches == [i \in Rows |-> "idle"]
MinOf(a, b) == IF a < b THEN a ELSE b

Init ==
    /\ workers \in WorkerCounts
    /\ phase = "new" /\ submitted = 0 /\ fetch = NewFetches
    /\ items = <<>> /\ streak = 0 /\ tripped = FALSE
    /\ reports = NoReports /\ failures = {}

\* The first pull: the reports are reset, last_failures is not, and a parallel load
\* fills its window.
Open ==
    /\ phase = "new" /\ phase' = "open"
    /\ reports' = NoReports
    /\ submitted' = IF Parallel THEN MinOf(Window, N) ELSE 0
    /\ fetch' = [i \in Rows |-> IF i <= submitted' THEN "queued" ELSE "idle"]
    /\ UNCHANGED <<workers, items, streak, tripped, failures>>

-----------------------------------------------------------------------------
(* The thread pool.                                                        *)

InState(s) == {i \in Rows : fetch[i] = s}

\* A free thread takes the oldest future that was not cancelled.
StartFetch(i) ==
    /\ fetch[i] = "queued" /\ \A j \in InState("queued") : i <= j
    /\ Cardinality(InState("running")) < workers
    /\ fetch' = [fetch EXCEPT ![i] = "running"]
    /\ UNCHANGED <<workers, phase, submitted, items, streak, tripped, reports, failures>>

EndFetch(i) ==
    /\ fetch[i] = "running"
    /\ \E outcome \in Outcomes : fetch' = [fetch EXCEPT ![i] = outcome]
    /\ UNCHANGED <<workers, phase, submitted, items, streak, tripped, reports, failures>>

-----------------------------------------------------------------------------
(* The generator, on the screener's thread.                                *)

Head1 == Len(items) + 1

Yield(kind) == items' = Append(items, kind) /\ UNCHANGED <<workers, phase, reports, failures>>

CountedInTotal(kind) ==
    /\ streak' = IF kind = "failure" THEN streak + 1 ELSE streak
    /\ tripped' = (tripped \/ (K > 0 /\ streak' >= K))

\* A fetch that failed lengthens the streak and any other ends it; a skipped row does
\* neither.
Counted(kind) ==
    /\ streak' = CASE kind = "breaker" -> streak
                   [] kind = "failure" -> streak + 1
                   [] OTHER            -> 0
    /\ tripped' = (tripped \/ (K > 0 /\ streak' >= K))

\* _iter_history_sequential: the row is fetched in the pull, or skipped.
FetchNext ==
    /\ phase = "open" /\ ~Parallel /\ Head1 <= N
    /\ \E kind \in IF tripped THEN {"breaker"} ELSE Outcomes :
        /\ Yield(kind) /\ Counted(kind)
        /\ fetch' = [fetch EXCEPT ![Head1] = IF kind = "breaker" THEN "idle" ELSE kind]
    /\ UNCHANGED submitted

SubmitTwo == submitted' = IF tripped' THEN submitted ELSE MinOf(submitted + 2, N)

SubmitDespiteBreaker == submitted' = MinOf(submitted + 1, N)

SubmitMore == submitted' = IF tripped' THEN submitted ELSE MinOf(submitted + 1, N)

\* _iter_history_parallel: the oldest future is cancelled if the breaker is open and
\* it has not started, else waited for; then the next row is submitted.
TakeCancelled ==
    /\ phase = "open" /\ Parallel /\ Head1 <= submitted
    /\ tripped /\ fetch[Head1] = "queued"
    /\ Yield("breaker") /\ Counted("breaker")
    /\ fetch' = [fetch EXCEPT ![Head1] = "cancelled"]
    /\ UNCHANGED submitted

TakeResult ==
    /\ phase = "open" /\ Parallel /\ Head1 <= submitted
    /\ fetch[Head1] \in {"frame", "quarantined", "failure"}
    /\ Yield(fetch[Head1]) /\ Counted(fetch[Head1])
    /\ SubmitMore
    /\ fetch' = [i \in Rows |-> IF submitted < i /\ i <= submitted' THEN "queued" ELSE fetch[i]]

SkipOne ==
    /\ phase = "open" /\ Parallel
    /\ Len(items) = submitted /\ Head1 <= N
    /\ tripped
    /\ Yield("breaker") /\ Counted("breaker")
    /\ UNCHANGED <<submitted, fetch>>

\* The rows that were never submitted.
SkipRest ==
    /\ phase = "open" /\ Parallel
    /\ Len(items) >= submitted /\ Head1 <= N
    /\ tripped
    /\ Yield("breaker") /\ Counted("breaker")
    /\ UNCHANGED <<submitted, fetch>>

\* _remember: the end of the stream.
Remember ==
    /\ phase = "open" /\ Len(items) = N
    /\ phase' = "done"
    /\ failures' = {i \in Rows : items[i] # "frame"}
    /\ reports' = [fatal  |-> {i \in Rows : items[i] = "quarantined"},
                   usable |-> {i \in Rows : items[i] = "frame"}]
    /\ UNCHANGED <<workers, submitted, fetch, items, streak, tripped>>

\* The screener raises: the generator is closed, and leaving the pool's context waits
\* for every row it was handed.
Abandon ==
    /\ "abandon" \in Faults
    /\ phase = "open" /\ phase' = "closing"
    /\ UNCHANGED <<workers, submitted, fetch, items, streak, tripped, reports, failures>>

ClosedAtOnce ==
    /\ phase = "closing" /\ phase' = "closed"
    /\ UNCHANGED <<workers, submitted, fetch, items, streak, tripped, reports, failures>>

Closed ==
    /\ phase = "closing" /\ InState("queued") \cup InState("running") = {}
    /\ phase' = "closed"
    /\ UNCHANGED <<workers, submitted, fetch, items, streak, tripped, reports, failures>>

Pool     == \E i \in Rows : StartFetch(i) \/ EndFetch(i)
Generate == Open \/ FetchNext \/ TakeCancelled \/ TakeResult \/ SkipRest \/ Remember \/ Closed

Ended == phase \in {"done", "closed"} /\ UNCHANGED vars

Next == Pool \/ Generate \/ Abandon \/ Ended
Spec == Init /\ [][Next]_vars

\* Pool threads run, a fetch ends, and the screener pulls its next item.
FairSpec ==
    /\ Spec /\ WF_vars(Generate)
    /\ \A i \in Rows : WF_vars(StartFetch(i)) /\ WF_vars(EndFetch(i))

-----------------------------------------------------------------------------
(* Properties.                                                             *)

\* Every variable keeps its type; the pool runs at most its worker count, and at most
\* a window of rows waits for the screener.
TypeOK ==
    /\ workers \in WorkerCounts
    /\ phase \in {"new", "open", "closing", "closed", "done"}
    /\ submitted \in 0..N
    /\ fetch \in [Rows -> {"idle", "queued", "running", "cancelled"} \cup Outcomes]
    /\ items \in Seq({"breaker"} \cup Outcomes) /\ Len(items) <= N
    /\ streak \in 0..N /\ tripped \in BOOLEAN
    /\ reports.fatal \subseteq Rows /\ reports.usable \subseteq Rows /\ failures \subseteq Rows
    /\ Cardinality(InState("running")) <= workers
    /\ Parallel => submitted <= Len(items) + Window

Contract == INSTANCE LoadContract WITH
    slack <- IF Parallel THEN Window - 1 ELSE 0,
    over  <- phase \in {"closing", "closed", "done"}

\* A load with one worker and a load with a pool make the screener the same promise
\* ("keeping the sequential contract"): one item per row, in order, rows skipped only
\* after the failures that open the breaker, and last_failures complete at the end.
RefinesContract == Contract!Spec

\* The breaker bounds the traffic to the broker: no row more than a window beyond the
\* failure that opened it is ever requested, not even if the screener then stops.
BreakerBoundsTraffic ==
    \A p \in 1..Len(items) : Contract!TrippedAt(items, p) =>
        \A i \in Rows : i >= p + Window => fetch[i] \in {"idle", "cancelled"}

\* However a load ends, none of its fetches is left in the pool.
NoFetchOutlivesTheLoad ==
    phase \in {"closed", "done"} => InState("queued") \cup InState("running") = {}

\* A load whose fetches end comes to an end itself, complete or abandoned: the pool
\* and the generator never wait for each other for ever.
LoadEnds == <>(phase \in {"done", "closed"})
=============================================================================
