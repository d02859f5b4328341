--------------------------- MODULE ForwardReturns ---------------------------
(***************************************************************************)
(* The forward-return worker (backend/validation/service.py) and its       *)
(* receipts (signal_forward_returns): concurrent batches select the        *)
(* signals whose measurement is oldest, fetch candles with no transaction  *)
(* open, and write one receipt per horizon in one short transaction per    *)
(* signal.  A statement sees the committed rows and its own, and waits for *)
(* a row another transaction has written and not yet committed, as under   *)
(* PostgreSQL's READ COMMITTED; SQLite's single writer allows fewer        *)
(* behaviours.  Bars appear in calendar order and the frame a batch is     *)
(* served is complete up to the last one published.                        *)
(***************************************************************************)
EXTENDS Integers, FiniteSets, FiniteSetsExt, Sequences, Functions

CONSTANTS
    Workers,            \* concurrent runs of the job
    Signals,            \* scan_results.id, with a signal_date
    SignalDate,         \* SignalDate[s]: the day of the signal, a trading day
    HorizonsOf,         \* HorizonsOf[w]: the horizons of worker w, in its order
    LastDay,            \* the last calendar day of the model
    Trading,            \* the days the exchange trades
    MissingGrace,       \* MISSING_FUTURE_DATA_GRACE_DAYS (7)
    BenchmarkGrace,     \* BENCHMARK_RETRY_GRACE_DAYS (7)
    Limits,             \* the values of --limit
    Faults              \* what may go wrong in this instance

Days     == 1..LastDay
Horizons == UNION {Range(HorizonsOf[w]) : w \in Workers}
Keys     == Signals \X Horizons

ASSUME ForwardAssumption ==
    /\ Signals \subseteq Nat /\ Signals # {} /\ IsFiniteSet(Signals)
    /\ IsFiniteSet(Workers)
    /\ LastDay \in Nat /\ MissingGrace \in Nat /\ BenchmarkGrace \in Nat
    /\ Trading \subseteq Days
    /\ SignalDate \in [Signals -> Trading]
    /\ HorizonsOf \in [Workers -> Seq(Nat \ {0})]
    /\ Limits \subseteq Nat \ {0}
    /\ Faults \subseteq {"loader", "absent", "raise", "benchmark", "unconfigured",
                         "database", "crash"}

VARIABLES
    today,          \* the wall-clock day
    published,      \* every trading day up to this one has its bar
    rows,           \* the committed receipts
    uncommitted,    \* uncommitted[w]: the rows w's open transaction has written
    pc,             \* where each worker is
    batch           \* each worker's locals

vars == <<today, published, rows, uncommitted, pc, batch>>

\* A receipt; at is the rank of last_attempted_at among all receipts, and 0 (before
\* every attempt) stands for the signal's created_at.  benchOn is the exit day the
\* benchmark leg was measured to.
Terminal == {"COMPUTED", "INSUFFICIENT_DATA"}
Receipt  == [status : {"ABSENT", "PENDING"} \cup Terminal,
             entry : Days \cup {0}, exit : Days \cup {0}, computed : Days \cup {0},
             benchmark : {"none", "missing", "value"}, benchOn : Days \cup {0},
             retry : BOOLEAN, at : Nat]
Absent   == [status |-> "ABSENT", entry |-> 0, exit |-> 0, computed |-> 0,
             benchmark |-> "none", benchOn |-> 0, retry |-> FALSE, at |-> 0]
Pending  == [Absent EXCEPT !.status = "PENDING"]

Unresolved(r) == r.status = "PENDING" \/ r.retry

\* The locals of a batch: the signals chosen, the work items still to do (the first
\* is being done), the receipts the open transaction still has to write, what it has
\* tallied, and the receipts counted in the summary.  The first three are lists, kept
\* as sets of records with their place in the list.
Locals == [asOf |-> 0, chosen |-> {}, items |-> {}, writes |-> {},
           tally |-> {}, counted |-> {}]

First(list) == CHOOSE x \in list : \A y \in list : x.place <= y.place

\* The work item being done, and the statement of its transaction.
Doing(w)   == First(batch[w].items)
Current(w) == First(batch[w].writes)

Nothing == [k \in {} |-> Absent]

Init ==
    /\ today = Min({SignalDate[s] : s \in Signals})
    /\ published = today
    /\ rows = [k \in Keys |-> Absent]
    /\ uncommitted = [w \in Workers |-> Nothing]
    /\ pc = [w \in Workers |-> "idle"]
    /\ batch = [w \in Workers |-> Locals]

Goto(w, step) == pc' = [pc EXCEPT ![w] = step]

-----------------------------------------------------------------------------
(* The calendar and the vendor.                                            *)

NextDay ==
    /\ today < LastDay
    /\ today' = today + 1
    /\ UNCHANGED <<published, rows, uncommitted, pc, batch>>

Publish ==
    /\ published < today
    /\ published' = published + 1
    /\ UNCHANGED <<today, rows, uncommitted, pc, batch>>

-----------------------------------------------------------------------------
(* The statements of a transaction.                                        *)

\* What a statement of w reads: its own write, else the committed receipt.
Seen(w, k) == IF k \in DOMAIN uncommitted[w] THEN uncommitted[w][k] ELSE rows[k]

\* The other transactions that have written k and must end before w may write it.
Holders(w, k) == {v \in Workers \ {w} : k \in DOMAIN uncommitted[v]}

Write(w, k, r) ==
    uncommitted' = [uncommitted EXCEPT ![w] =
        [j \in DOMAIN @ \cup {k} |-> IF j = k THEN r ELSE @[j]]]

\* Ranks stand for attempt times: only their order is ever compared.
Ranked(receipts) ==
    LET times == {receipts[k].at : k \in Keys} \cup {0}
    IN  [k \in Keys |-> [receipts[k] EXCEPT
            !.at = Cardinality({t \in times : t < receipts[k].at})]]

\* Everything the transaction wrote was attempted just now.
Committed(w) ==
    LET newest == 1 + Max({rows[k].at : k \in Keys})
    IN  Ranked([k \in Keys |-> IF k \in DOMAIN uncommitted[w]
                               THEN [uncommitted[w][k] EXCEPT !.at = newest]
                               ELSE rows[k]])

-----------------------------------------------------------------------------
(* get_forward_return_work_items: the oldest unresolved signals.           *)

HasMissing(s, w) == \E h \in Range(HorizonsOf[w]) : rows[<<s, h>>].status = "ABSENT"
OpenHorizons(s, w) == {h \in Range(HorizonsOf[w]) : Unresolved(rows[<<s, h>>])}
NeedsWork(s, w) == HasMissing(s, w) \/ OpenHorizons(s, w) # {}

\* The effective attempt time: the oldest unresolved attempt, or the creation of
\* the signal when a horizon was never attempted.
Effective(s, w) ==
    IF HasMissing(s, w) THEN 0 ELSE Min({rows[<<s, h>>].at : h \in OpenHorizons(s, w)})

Before(s, t, w) ==
    \/ Effective(s, w) < Effective(t, w)
    \/ Effective(s, w) = Effective(t, w) /\
        (SignalDate[s] < SignalDate[t] \/ (SignalDate[s] = SignalDate[t] /\ s < t))

Choose(w, asOf, limit) ==
    LET eligible == {s \in Signals : NeedsWork(s, w)}
        Place(s) == Cardinality({t \in eligible : Before(t, s, w)})
    IN  /\ pc[w] = "idle" /\ asOf <= today
        /\ eligible # {}
        /\ batch' = [batch EXCEPT ![w] = [Locals EXCEPT !.asOf = asOf,
                        !.chosen = {[signal |-> s, place |-> Place(s)] :
                                        s \in {s \in eligible : Place(s) < limit}}]]
        /\ Goto(w, "select")
        /\ UNCHANGED <<today, published, rows, uncommitted>>

\* The second read of the selection: the horizons each chosen signal still needs
\* now, a signal another worker has finished in between being skipped.
Item(x, w) ==
    LET Stored(h) == rows[<<x.signal, h>>]
        horizons  == Range(HorizonsOf[w])
    IN  [signal |-> x.signal, place |-> x.place,
         stock  |-> {h \in horizons : Stored(h).status \in {"ABSENT", "PENDING"}},
         retry  |-> {h \in horizons : Stored(h).status \in Terminal /\ Stored(h).retry},
         facts  |-> [h \in horizons |-> Stored(h)]]

ReadRows(w) ==
    LET items == {Item(x, w) : x \in batch[w].chosen}
    IN  /\ pc[w] = "select"
        /\ batch' = [batch EXCEPT ![w].chosen = {}, ![w].items =
                        {x \in items : x.stock # {} \/ x.retry # {}}]
        /\ Goto(w, "measure")
        /\ UNCHANGED <<today, published, rows, uncommitted>>

BatchDone(w) ==
    /\ pc[w] = "measure" /\ batch[w].items = {}
    /\ Goto(w, "idle")
    /\ batch' = [batch EXCEPT ![w] = Locals]
    /\ UNCHANGED <<today, published, rows, uncommitted>>

-----------------------------------------------------------------------------
(* The measurement of one signal, with no transaction open.                *)

\* The candles a strict historical request is answered with.
Frame(s, asOf) == {d \in Trading : SignalDate[s] <= d /\ d <= asOf /\ d <= published}

BarFrom(frame, s, n) ==
    CHOOSE d \in frame : Cardinality({e \in frame : e <= d}) = n

\* The n-th bar of the frame after the signal's.
BarAfter(frame, s, n) ==
    CHOOSE d \in frame : d > SignalDate[s]
                         /\ Cardinality({e \in frame : e > SignalDate[s] /\ e <= d}) = n

\* compute_forward_return on a validated frame.
Measured(frame, s, h, asOf) ==
    IF frame = {} THEN Pending
    ELSE IF SignalDate[s] \notin frame
    THEN [Absent EXCEPT !.status = "INSUFFICIENT_DATA", !.computed = today]
    ELSE IF Cardinality({d \in frame : d > SignalDate[s]}) < h
    THEN IF Max(frame) + MissingGrace >= asOf THEN Pending
         ELSE [Absent EXCEPT !.status = "INSUFFICIENT_DATA", !.computed = today]
    ELSE [Absent EXCEPT !.status = "COMPUTED", !.computed = today,
                        !.entry = BarAfter(frame, s, 1), !.exit = BarAfter(frame, s, h)]

StampedPoint(s, h, asOf, outcome) ==
    IF outcome = "loader" \/ SignalDate[s] > asOf
    THEN [Pending EXCEPT !.computed = today]
    ELSE Measured(Frame(s, asOf), s, h, asOf)

\* _stock_points: a universe that does not load, a request that is not answered and
\* raw rows that do not validate leave the horizon pending ("loader"); a symbol that
\* is not in a universe that loaded ends it ("absent").
StockPoint(s, h, asOf, outcome) ==
    IF outcome = "loader" \/ SignalDate[s] > asOf THEN Pending
    ELSE IF outcome = "absent"
    THEN [Absent EXCEPT !.status = "INSUFFICIENT_DATA", !.computed = today]
    ELSE Measured(Frame(s, asOf), s, h, asOf)

BenchmarkToFrameEnd(r, s, asOf, outcome) ==
    LET frame == Frame(s, asOf)
    IN  IF r.status # "COMPUTED" THEN r
        ELSE IF outcome = "benchmark" \/ frame = {}
        THEN [r EXCEPT !.benchmark = "missing", !.retry = TRUE]
        ELSE [r EXCEPT !.benchmark = "value", !.benchOn = Max(frame), !.retry = FALSE]

\* _benchmark_for_point: the index over the stock's own dates, or a retry.  A
\* universe with no configured index wants none.
WithBenchmark(r, s, asOf, outcome) ==
    LET frame == Frame(s, asOf)
        found == outcome # "benchmark" /\ r.entry \in frame /\ r.exit \in frame
    IN  IF r.status # "COMPUTED" THEN r
        ELSE IF outcome = "unconfigured"
        THEN [r EXCEPT !.benchmark = "none", !.benchOn = 0, !.retry = FALSE]
        ELSE [r EXCEPT !.benchmark = IF found THEN "value" ELSE "missing",
                       !.benchOn   = IF found THEN r.exit ELSE 0,
                       !.retry     = ~found]

\* A benchmark-only retry gives up when the stock leg ended long ago.
Retried(r, s, asOf, outcome) ==
    LET again == WithBenchmark([r EXCEPT !.status = "COMPUTED"], s, asOf, outcome)
    IN  [again EXCEPT !.retry = @ /\ asOf - r.computed <= BenchmarkGrace]

\* The statements of a signal in the order of its worker's horizons, those of the
\* benchmark-only retries last.
PlaceOf(w, h) == CHOOSE i \in DOMAIN HorizonsOf[w] : HorizonsOf[w][i] = h

Measure(w, stock, index) ==
    LET item == Doing(w)
        asOf == batch[w].asOf
        s    == item.signal
        stockWrites ==
            {[kind |-> "stock", key |-> <<s, h>>, place |-> PlaceOf(w, h),
              row  |-> WithBenchmark(StockPoint(s, h, asOf, stock), s, asOf, index)] :
             h \in item.stock}
        retryWrites ==
            {[kind |-> "benchmark", key |-> <<s, h>>,
              place |-> Len(HorizonsOf[w]) + PlaceOf(w, h),
              row  |-> Retried(item.facts[h], s, asOf, index)] : h \in item.retry}
    IN  /\ pc[w] = "measure" /\ batch[w].items # {}
        /\ batch' = [batch EXCEPT ![w].writes = stockWrites \cup retryWrites,
                                  ![w].tally = {}]
        /\ Goto(w, "update")
        /\ UNCHANGED <<today, published, rows, uncommitted>>

\* The universe, the benchmark resolver or the calculation raises.
MeasureFails(w) ==
    /\ "raise" \in Faults
    /\ pc[w] = "measure" /\ batch[w].items # {}
    /\ Goto(w, "receipt")
    /\ UNCHANGED <<today, published, rows, uncommitted, batch>>

-----------------------------------------------------------------------------
(* upsert_forward_return and update_forward_return_benchmark.              *)

Writing(w, kind) == batch[w].writes # {} /\ Current(w).kind = kind

StatementCounts(w, r) ==
    /\ Goto(w, "update")
    /\ batch' = [batch EXCEPT
            ![w].writes  = @ \ {Current(w)},
            ![w].counted = IF r.status \in Terminal
                           THEN @ \cup {<<Current(w).key, r.status>>} ELSE @]

\* The statement is done: the durable receipt is tallied, the next one begins.
StatementDone(w, r) ==
    /\ Goto(w, "update")
    /\ batch' = [batch EXCEPT
            ![w].writes = @ \ {Current(w)},
            ![w].tally  = IF r.status \in Terminal
                          THEN @ \cup {<<Current(w).key, r.status>>} ELSE @]

UpdateAnyStatus(w) ==
    /\ pc[w] = "update" /\ Writing(w, "stock")
    /\ Seen(w, Current(w).key).status # "ABSENT"
    /\ Holders(w, Current(w).key) = {}
    /\ Write(w, Current(w).key, Current(w).row)
    /\ StatementDone(w, Current(w).row)
    /\ UNCHANGED <<today, published, rows>>

\* UPDATE ... WHERE status = 'PENDING': a row another transaction has written is
\* waited for, and read again.
UpdatePending(w) ==
    /\ pc[w] = "update" /\ Writing(w, "stock")
    /\ Seen(w, Current(w).key).status = "PENDING"
    /\ Holders(w, Current(w).key) = {}
    /\ Write(w, Current(w).key, Current(w).row)
    /\ StatementDone(w, Current(w).row)
    /\ UNCHANGED <<today, published, rows>>

UpdateNothing(w) ==
    /\ pc[w] = "update" /\ Writing(w, "stock")
    /\ Seen(w, Current(w).key).status # "PENDING"
    /\ Goto(w, "probe")
    /\ UNCHANGED <<today, published, rows, uncommitted, batch>>

\* SELECT the row the UPDATE did not touch: a terminal one is kept as it is.
Probe(w) ==
    LET found == Seen(w, Current(w).key)
    IN  /\ pc[w] = "probe"
        /\ IF found.status = "ABSENT" THEN Goto(w, "insert") /\ UNCHANGED batch
           ELSE StatementDone(w, found)
        /\ UNCHANGED <<today, published, rows, uncommitted>>

\* INSERT in a savepoint; the unique key waits for a concurrent insert to end.
Insert(w) ==
    /\ pc[w] = "insert"
    /\ Holders(w, Current(w).key) = {}
    /\ Seen(w, Current(w).key).status = "ABSENT"
    /\ Write(w, Current(w).key, Current(w).row)
    /\ StatementDone(w, Current(w).row)
    /\ UNCHANGED <<today, published, rows>>

\* IntegrityError: the conditional UPDATE again.
InsertConflicts(w) ==
    /\ pc[w] = "insert"
    /\ Holders(w, Current(w).key) = {}
    /\ Seen(w, Current(w).key).status # "ABSENT"
    /\ Goto(w, "rewrite")
    /\ UNCHANGED <<today, published, rows, uncommitted, batch>>

Rewrite(w) ==
    LET found == Seen(w, Current(w).key)
    IN  /\ pc[w] = "rewrite"
        /\ IF found.status = "PENDING"
           THEN /\ Holders(w, Current(w).key) = {}
                /\ Write(w, Current(w).key, Current(w).row)
                /\ StatementDone(w, Current(w).row)
           ELSE StatementDone(w, found) /\ UNCHANGED uncommitted
        /\ UNCHANGED <<today, published, rows>>

\* The benchmark of a computed receipt that still waits for one; no stock column.
UpdateBenchmark(w) ==
    LET found == Seen(w, Current(w).key)
        match == found.status = "COMPUTED" /\ found.retry /\ found.benchmark # "value"
    IN  /\ pc[w] = "update" /\ Writing(w, "benchmark")
        /\ IF match
           THEN /\ Holders(w, Current(w).key) = {}
                /\ Write(w, Current(w).key, [found EXCEPT
                        !.benchmark = Current(w).row.benchmark,
                        !.benchOn = Current(w).row.benchOn, !.retry = Current(w).row.retry])
           ELSE UNCHANGED uncommitted
        /\ batch' = [batch EXCEPT ![w].writes = @ \ {Current(w)}]
        /\ UNCHANGED <<today, published, rows, pc>>

\* The commit ends the signal, and only then is it counted.
Commit(w) ==
    /\ pc[w] = "update" /\ batch[w].writes = {}
    /\ rows' = Committed(w)
    /\ uncommitted' = [uncommitted EXCEPT ![w] = Nothing]
    /\ batch' = [batch EXCEPT ![w].items = @ \ {Doing(w)}, ![w].tally = {},
                              ![w].counted = @ \cup batch[w].tally]
    /\ Goto(w, "measure")
    /\ UNCHANGED <<today, published>>

\* A statement or the commit raises: the transaction is rolled back.
Rollback(w) ==
    /\ uncommitted' = [uncommitted EXCEPT ![w] = Nothing]
    /\ batch' = [batch EXCEPT ![w].writes = {}, ![w].tally = {}]
    /\ Goto(w, "receipt")
    /\ UNCHANGED <<today, published, rows>>

InTransaction == {"update", "probe", "insert", "rewrite"}

TransactionFails(w) == "database" \in Faults /\ pc[w] \in InTransaction /\ Rollback(w)

-----------------------------------------------------------------------------
(* _record_failed_attempt: the receipt of a signal that failed.            *)

Wanted(w) == {<<Doing(w).signal, h>> : h \in Doing(w).stock \cup Doing(w).retry}

\* SELECT the horizons that have a row; the others are inserted one by one.
StartReceipt(w) ==
    LET missing == {h \in Doing(w).stock \cup Doing(w).retry :
                        rows[<<Doing(w).signal, h>>].status = "ABSENT"}
    IN  /\ pc[w] = "receipt"
        /\ batch' = [batch EXCEPT ![w].writes =
                {[kind |-> "mark", key |-> <<Doing(w).signal, h>>, place |-> PlaceOf(w, h),
                  row |-> Pending] : h \in missing}]
        /\ Goto(w, "mark")
        /\ UNCHANGED <<today, published, rows, uncommitted>>

MarkInsert(w) ==
    /\ pc[w] = "mark" /\ Writing(w, "mark")
    /\ Holders(w, Current(w).key) = {}
    /\ IF Seen(w, Current(w).key).status = "ABSENT"
       THEN Write(w, Current(w).key, Pending)
       ELSE UNCHANGED uncommitted
    /\ batch' = [batch EXCEPT ![w].writes = @ \ {Current(w)}]
    /\ UNCHANGED <<today, published, rows, pc>>

\* One UPDATE stamps every wanted row that is still unresolved.
Stamped(w) == {k \in Wanted(w) : Unresolved(Seen(w, k))}

MarkMissingOnly(w) ==
    /\ pc[w] = "mark" /\ batch[w].writes = {}
    /\ Goto(w, "marked")
    /\ UNCHANGED <<today, published, rows, uncommitted, batch>>

MarkUpdate(w) ==
    /\ pc[w] = "mark" /\ batch[w].writes = {}
    /\ \A k \in Stamped(w) : Holders(w, k) = {}
    /\ uncommitted' = [uncommitted EXCEPT ![w] =
            [k \in DOMAIN @ \cup Stamped(w) |-> Seen(w, k)]]
    /\ Goto(w, "marked")
    /\ UNCHANGED <<today, published, rows, batch>>

MarkCommit(w) ==
    /\ pc[w] = "marked"
    /\ rows' = Committed(w)
    /\ uncommitted' = [uncommitted EXCEPT ![w] = Nothing]
    /\ batch' = [batch EXCEPT ![w].items = @ \ {Doing(w)}]
    /\ Goto(w, "measure")
    /\ UNCHANGED <<today, published>>

\* The batch stops: its summary is reported, its other signals are left.
BatchStops(w) ==
    /\ uncommitted' = [uncommitted EXCEPT ![w] = Nothing]
    /\ batch' = [batch EXCEPT ![w] = Locals]
    /\ Goto(w, "idle")
    /\ UNCHANGED <<today, published, rows>>

ReceiptFails(w) ==
    "database" \in Faults /\ pc[w] \in {"receipt", "mark", "marked"} /\ BatchStops(w)

-----------------------------------------------------------------------------
(* Deadlocks and crashes.                                                  *)

\* The rows the next statement of w has to wait for.
Blocking(w) ==
    CASE pc[w] = "update" /\ batch[w].writes # {}
             /\ Unresolved(Seen(w, Current(w).key)) -> {Current(w).key}
      [] pc[w] = "insert" -> {Current(w).key}
      [] pc[w] = "rewrite" /\ Seen(w, Current(w).key).status = "PENDING"
             -> {Current(w).key}
      [] pc[w] = "mark" -> IF batch[w].writes = {} THEN Stamped(w) ELSE {Current(w).key}
      [] OTHER -> {}

WaitsFor(w, v) == v # w /\ Blocking(w) \cap DOMAIN uncommitted[v] # {}
\* A cycle of two transactions.
Deadlocked(w)  == \E v \in Workers : WaitsFor(w, v) /\ WaitsFor(v, w)

\* The database breaks the cycle by failing one of its transactions.
DeadlockVictim(w) ==
    /\ Deadlocked(w)
    /\ IF pc[w] \in InTransaction THEN Rollback(w) ELSE BatchStops(w)

Kill(w) == "crash" \in Faults /\ pc[w] # "idle" /\ BatchStops(w)

StartBatch(w) == \E asOf \in Days, limit \in Limits : Choose(w, asOf, limit)

Progress(w) ==
    \/ ReadRows(w) \/ BatchDone(w) \/ MeasureFails(w)
    \/ \E stock \in {"frame"} \cup (Faults \cap {"loader", "absent"}),
          index \in {"frame"} \cup (Faults \cap {"benchmark", "unconfigured"}) : Measure(w, stock, index)
    \/ UpdatePending(w) \/ UpdateNothing(w) \/ Probe(w) \/ Insert(w) \/ InsertConflicts(w)
    \/ Rewrite(w) \/ UpdateBenchmark(w) \/ Commit(w) \/ TransactionFails(w)
    \/ StartReceipt(w) \/ MarkInsert(w) \/ MarkUpdate(w) \/ MarkCommit(w)
    \/ ReceiptFails(w) \/ DeadlockVictim(w)

Next ==
    \/ NextDay \/ Publish
    \/ \E w \in Workers : StartBatch(w) \/ Progress(w) \/ Kill(w)

Spec     == Init /\ [][Next]_vars
\* The scheduler starts the job again and again, and a started job runs.
FairSpec == Spec /\ \A w \in Workers : WF_vars(StartBatch(w)) /\ WF_vars(Progress(w))

-----------------------------------------------------------------------------
(* Properties.                                                             *)

\* Every variable keeps its type, and the dates of a receipt agree with its status:
\* computed_at is set exactly by a terminal one, the prices' dates by a computed one.
TypeOK ==
    /\ today \in Days /\ published \in Days
    /\ rows \in [Keys -> Receipt]
    /\ \A k \in Keys : /\ rows[k].status \in Terminal <=> rows[k].computed # 0
                       /\ rows[k].status = "COMPUTED" <=> rows[k].exit # 0
    /\ \A w \in Workers : /\ DOMAIN uncommitted[w] \subseteq Keys
                          /\ \A k \in DOMAIN uncommitted[w] : uncommitted[w][k] \in Receipt
    /\ pc \in [Workers -> InTransaction \cup
                    {"idle", "select", "measure", "receipt", "mark", "marked"}]

\* A completed measurement is a fact: whatever concurrent batches, retries, failures
\* and replays do, the dates and the time of a terminal receipt never change, and a
\* benchmark once measured stays (upsert_forward_return's conditional statements).
TerminalImmutable ==
    [][\A k \in Keys : rows[k].status \in Terminal =>
        /\ rows'[k].status = rows[k].status
        /\ rows'[k].entry = rows[k].entry /\ rows'[k].exit = rows[k].exit
        /\ rows'[k].computed = rows[k].computed
        /\ rows[k].benchmark = "value" =>
                rows'[k].benchmark = "value" /\ rows'[k].benchOn = rows[k].benchOn]_vars

\* A benchmark is attached only to a computed stock leg, over that leg's own dates,
\* and a retry is pending only while the benchmark is missing.
BenchmarkAligned ==
    \A k \in Keys :
        /\ rows[k].benchmark = "value" =>
                rows[k].status = "COMPUTED" /\ rows[k].benchOn = rows[k].exit /\ ~rows[k].retry
        /\ rows[k].retry => rows[k].status = "COMPUTED" /\ rows[k].benchmark = "missing"

\* A computed receipt measures the requested horizon: its exit is the h-th trading
\* day after the signal and was observable when it was written, whatever day the
\* batch was replayed for and however late the bars were published.
ExitIsTheHorizon ==
    \A k \in Keys : rows[k].status = "COMPUTED" =>
        /\ Cardinality({d \in Trading : SignalDate[k[1]] < d /\ d <= rows[k].exit}) = k[2]
        /\ rows[k].exit <= rows[k].computed
        /\ rows[k].entry \in Trading /\ rows[k].exit \in Trading

\* The summary of a batch, however it ends, counts only receipts that are durable
\* with the status counted.
CountedIsDurable ==
    \A w \in Workers : \A c \in batch[w].counted : rows[c[1]].status = c[2]

\* No signal starves: one that needs work is taken up again and again, even when
\* another signal fails in every batch (oldest attempt first, attempt receipts).
NoStarvation ==
    \A s \in Signals : []<>(\/ \E w \in Workers : ~NeedsWork(s, w)
                            \/ \E w \in Workers : /\ pc[w] = "measure"
                                                  /\ batch[w].items # {}
                                                  /\ Doing(w).signal = s)
=============================================================================
