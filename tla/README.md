# Formal model of the Streamlit Scanner App

The application downloads daily candles of Indian equities into a parquet cache,
repairs that cache, runs screeners over a universe of symbols, stores every scan
with its provenance, measures how the shortlisted signals did later, and
ingests, extracts and scores IPO prospectuses. This directory holds the TLA+
models of its stateful parts, the TLC configurations that check them on small
instances, and proofs that TLAPS checks for every value of the constants.

`PROJECT.json` is the index: components, runs, mutants, the map from each
definition to the source lines it stands for, hazards, findings and theorems.

## 1. The system

### Components

| Component | State it keeps | Operations | What must be right |
|---|---|---|---|
| Candle cache (`backend/candle_cache.py`, `daily_data_loader.py`, `data_quality/cache_repair.py`) | per symbol: one parquet, the `.firstbar`, `.checked` and `.repaired` sidecars, a thread lock and a file lock | `get_daily_history` (read or download), `ensure_daily_history` (prefetch top-up), `repair_symbol` | no download or repair is lost, a repair never throws away more rows than its budget against the file it replaces, a sidecar never claims what is not so |
| Universe load (`daily_data_loader.py`) | the pool, its submission window, the failure streak, `last_failures` | `iter_history`, sequential and parallel | frames in universe order, the breaker stops traffic after K failures in a row, the queue is bounded, an abandoned load leaves nothing running |
| Request pacing (`_RequestPacer`) | the next free request slot | `wait_turn` | requests leave in reserved slots |
| Screener framework (`scanner_framework.py`, `screeners/`) | the report of one scan | `run_screener`, the screener's loop | one bad symbol costs one row |
| Scan service and provenance (`scanning/service.py`, `storage/repository.py`) | a run header, its result rows, AI evaluations and final status | `run_scan`, `create_scan_run`, `save_scan_results`, `finish_scan_run` | rows and status appear together; the status tells the truth; a failure is stamped |
| Daily scan job (`jobs/run_daily_scan.py`) | the outcomes of its entries, a loader for each | job loop, exit code | exit 0 only if every entry is stored; one entry's failures never leak into the next |
| Validation (`validation/`, `storage/repository.py`) | one row per signal and horizon, attempt receipts | select, measure, store, benchmark-only retry, receipt | terminal facts never change, benchmark and stock are measured between the same days, no signal is starved |
| Scan comparison and history | read only | latest two finalized runs | compares like with like |
| Scoring and the result contract (`scoring/`, `scanning/result_contract.py`) | none | score, rank and admit the rows of a run | no score sees a candle after the run's day; what is stored satisfies the contract |
| IPO screener (`backend/ipo/`) | issues, documents, the content-addressed PDF cache, manual profiles, proposals, subscriptions, enrichment, scores and verdicts | ingest, download, propose, approve/reject, submit, evaluate, the pipeline job | a document's bytes, hash and row agree; a proposal becomes evidence once, with every figure on the page it cites; an evaluation fits the inputs it was computed from; no filing is passed over |
| IPO extraction AI, fundamentals, technical, sixty-seven AI | signed verdict caches, proposals | ask, validate, cache | a cached verdict is reused only for the same evidence |
| AI runtime and validation (`ai_*`) | budget counters, cache envelopes | run a model in a locked-down session | limits hold, evidence binding |
| PDF containment (`ipo_pdf_worker.py`, `ipo_pdf_runtime.py`) | a spawned worker | parse under a budget | a hostile PDF kills the worker only |
| Universe management and health | the resolved universe, a health baseline | load, compare with baseline | a shrunken universe is noticed |
| Screener catalog, indicators (`indicators.py`, `technical/patterns.py`, `screeners/`) | none | arithmetic on a frame | what was found on a frame is not taken back by later candles |
| Notifications | none | post after the scan, never raise | the outcome of a scan does not depend on them |
| Authentication, roles, configuration | `user_roles`, `app_config` | assign, revoke, override | the last admin stays; an outage of the role table elevates nobody |
| Audit log, observability, health, security helpers | append-only log | record, redact | - |
| Streamlit app, pages, charts | session state | render, start scans | - |
| Deployment runtime and migrations | database schema | `ensure_database_schema` once per process | - |

### How they interact

The daily job or the page calls `run_scan`, which commits a RUNNING header, runs
the screener over the generator of `iter_history` (whose pool threads call the
cache of each symbol), and then stores rows, AI evaluations and the final status
in one transaction. `iter_history` publishes its failure report only when it
comes to its end, and `run_scan` reads it afterwards. The repair job and the
prefetch job share the parquet files and locks of the cache with running scans.
The forward-return job reads stored results, asks the same loader for frames,
and writes one transaction per signal; several jobs may run at once. The IPO
job composes ingest, download, enrichment, extraction and evaluation, and the
admin page reviews proposals at the same time. The AI screeners ask their agents
for a verdict on a stock, which several processes keep in one directory of JSON
files. Every page rerun asks the role table who its visitor is.

### What is hard

- Requests to the vendor happen outside the write lock: what was read before
  is stale when it is written (download, repair, benchmark retry, evaluation).
- Two files, or a file and a database row, cannot be updated together.
- A pool runs ahead of the generator that consumes it, and the breaker lives in
  the consumer.
- A commit may succeed although its acknowledgement is lost; a process may be
  killed anywhere.
- Two jobs with different horizon lists insert the rows of one signal in
  different orders.
- A work queue ordered by last attempt must not be blocked by what always fails.
- A stored answer (an evaluation, an AI verdict, a score) is handed out again: it
  must still be the answer to what is asked, although files, keys, days and
  candles have changed since.
- A web page is untrusted but useful: it may move an optional factor and nothing else.
- A listing is paged through while it grows, and its watermark is shared by
  categories that fail separately.

## 2. Modules

| Module | Models | State | Actions |
|---|---|---|---|
| `CandleRows` | the pure decisions on one symbol's frame: coverage, overlay, first-bar evidence, validation, repair plan, drop budget | none | none |
| `CandleCache` | every operation on one symbol's files by any number of clients | `vendor since now file firstbar checked repaired lock pc op` | one per step between two points at which another client or a crash can intervene: plan, fetch, acquire, read under the lock, publish (the atomic rename), each sidecar, release |
| `CacheContract` | the promise: a file changes only by overlaying a download on the file of that moment, or by replacing exactly the file a repair inspected, within the drop budget | `file decision` | `Decide Drop ApplyDownload ApplyRepair` |
| `UniverseLoad` | `_iter_history_parallel` / sequential with the breaker | `workers phase submitted fetch items streak tripped failures` | consumer steps of the generator and thread steps of the pool |
| `LoadContract` | a load as one observer sees it: items in order, cut off after K consecutive failures, the report complete when it ends | `items phase failures` | `Deliver Complete Abandon` |
| `ScanRun` | `run_scan`, the screener, and the daily job's loop over entries; `INSTANCE UniverseLoad` is its loader | job, database and screener variables plus the loader's | refuse, set up, header, pull, raise, persist, stamp failed, finish, kill |
| `ForwardReturns` | the whole forward-return pass by several concurrent workers, statement by statement | committed rows, per-worker uncommitted writes, locals | select, measure, each SQL statement, commit, rollback, deadlock victim, receipts, kill |
| `IpoEvidence` | the evidence of one IPO issue: filings, the PDF cache, extraction proposals, manual and approved revisions, under concurrent jobs, administrators and agents | `row files proposals revisions terms job crossed` | register, relist, delete, decay of a file; per client one step per transaction, hash, fetch, agent answer or flush; reject |
| `ReviewLedger` | the promise of the review: one pending proposal per document, no two alike, one decision each, revision and terms at the same instant as the approval, revisions only appended | `proposals revisions terms` | `Propose Approve Reject Enter Orphan` |
| `Common` | the value `None` of what is not there; the elements at some places of a series | none | none |
| `IpoVerdict` | the IPO verdict as a function of its inputs: ratios, bands and factors, hard caution flags, score, recommendation, fingerprint | none | none |
| `IpoScoring` | rescores of one issue by concurrent callers while its rows change | the issue's rows, `webReading`, `evals`, `rescore` | each read of the snapshot, comparison, store; edits, submissions, official readings, the collector's check and its write, signals, days |
| `IpoIntake` | the filings job and the screener job: listings, paging, windows, ingestion of a category, stages, exit codes | `listed issueRows documents intake lastExit owed` | SEBI lists, a page, a category fails or is ingested, the stages of the screener job, a kill |
| `IpoCitations` | how a drafted figure is resolved on a page, what submission and approval demand of the receipts, confidence grades, price band | `paper verified queue band revisions` | propose, submit, new content, band edit, approve, reject, automatic approval |
| `AgentVerdicts` | one call of each of the three AI agents on one stock and the files that keep verdicts | `page verdicts call candles model signingKey` | look up, a tool fetches, the model answers, save; new day, new candles, restart with another key or model |
| `Access` | entry and role of every rerun, role changes by concurrent administrators, one runtime setting, audit rows | `roleTable authEnv rerun roleTx auditRows override liveSetting` | rerun with the table readable or not, deny, read, lock, write, audit, store and apply a setting, redeploy |
| `Fractions`, `Indicators` | exact fractions; the indicators and chart patterns on a frame | none | none |
| `Signals` | the chart screeners on the window of candles each run loads, and the AI screeners' gates | `rows report` | the first load; a later day's load, with a new candle at the end and the oldest ones gone; each with its report |
| `RunHistory` | ranking and admission of a run's rows, comparison of two runs, metrics of measured signals, health of a universe file | `quotes scans measured observations` | scan, screener raises, measure, next market day, check of a universe file |

`MC*` modules only hold the values TLC needs. Eight modules hold theorems and extend
what they are about: `CandleCache_proofs`, `IpoEvidence_proofs`,
`UniverseLoad_proofs`, `ScanRun_proofs`, `ForwardReturns_proofs`, `IpoScoring_proofs`,
`IpoIntake_proofs` and `Services_proofs` (about `Access`, `AgentVerdicts`,
`IpoCitations`, `RunHistory` and `Signals`). Definitions such as `AcquireHeld` and
`OutageAsMissing`, each before the real one, are the bugs a mutant of
`PROJECT.json` puts in its place: they show that a property can fail.

### Correspondence worth knowing

- `pc[c]` in `CandleCache` names the point of the function reached; `op[c]` holds
  the function's locals. `lock` is `cache_write_lock`: a thread lock and a file
  lock that the operating system frees when its holder dies, so `Kill` frees it.
- The vendor publishes a trading day's bar on that day or at any later time, also
  behind days it has already published (a backfill, the reason why the `.firstbar`
  evidence expires). `since` is the day a bar appeared. `heard` of the evidence and
  `owed` of a reader are history that only properties read: the day of the vendor's
  answer, and the bars that the evidence can no longer excuse when it is read.
- A parquet is published by writing a temporary file and renaming it, hence one
  step; `WriteFails` is the failure before the rename.
- `TransactionsCurrent` is about what a client does under the lock, against the
  file as it is then.
- In `UniverseLoad` one consumer step runs from one wait to the next (take the
  oldest result, count it, refill the window, yield); a pool step takes a queued
  row or ends a fetch. `Abandon` is the generator's `finally`.
- In `ForwardReturns` a worker's statements write to `uncommitted[w]`; another
  worker sees committed rows only (READ COMMITTED) and waits on the unique key
  of an uncommitted insert. `Commit` ranks attempt times by commit order.
  The lists the code walks through (chosen signals, work items, statements) are sets
  of records with their `place`, and `First` takes the next one: the order is the
  code's, and the proofs need no induction over a list.
- In `IpoEvidence` `job[c]` holds what a client has read and let go of: `seen` is
  the detached document row, `got` the digest to record. Operations share the
  steps the code shares: `Hash` and `Unlink` are `_verified_cache_result`, `Cite`
  the lookup of citations, `Compare` the second look at the document, before the
  transaction's last statement (`Queue`, `Enter`, `Attest`).
- `row[d].content` is one value for `content_sha256`, `file_path`,
  `downloaded_at` and `parse_status`: a CHECK lets them change only together.
- `update_document` is two steps, load and flush, because its UPDATE names only
  the columns that differ from what was loaded. `crossed` remembers the pairs of
  source and digest that such a flush put together.
- `MCServices` puts the seven services of the second half of the table into one
  run. `focus` chooses at the start which one moves; they share no state in these
  models, so nothing is lost by not interleaving them, and each starts in all of
  its own initial states.
- In `IpoScoring` the snapshot of `load_ipo_factor_inputs_snapshot` is several
  statements under READ COMMITTED, so `Read*` are steps of their own. A store that
  meets the unique constraint hands back the row it met. `rescore[r].official` is
  what the official rows alone would have shown; only a property reads it.
- In `IpoIntake` a fingerprint is the tuple it digests; `owed` remembers the
  filings of categories that failed and only `RerunRecovers` reads it.
- In `IpoCitations` a page is made of spans, each with what the extractor's
  patterns find in it; `means` of a printed figure says what it really is. The code
  never sees it: that is what makes `EvidenceIsPrinted` more than its guards.
- In `AgentVerdicts` `Slot` is the eight-digit digest in a file name, and the run
  makes it constant, so that every two contexts collide. `seen` of a verdict is what
  its conversation was shown, kept for the properties.
- In `Access` a role change is cut at the points where another transaction can
  come between: read, lock, write and commit, audit. `rerun[s].full` is the role a
  readable table would have granted; nothing but the property reads it.
- In `Signals` a run loads the candles from `today - HistoryDays` on (`Since` is
  `_slice_to_range`), so the frame slides; the pattern detectors see its last
  `lookback` candles (`Recent`).
- In `IpoCitations` `ReceiptsStand` is what submission and approval both ask;
  `Approvable` adds what only approval asks, that the cap is not `UnderTheFloor`.
- In `RunHistory` a whole run is one step: `ScanRun` cuts it, `ForwardReturns` cuts
  the measurement, and neither needs to be repeated for what is read afterwards.
- In `ScanRun` each `session_scope` is one step with three outcomes: committed,
  rolled back, committed but reported as failed.

## 3. Runs

| Run | Question | Bounds and why they suffice |
|---|---|---|
| `cache_downloads` | can two overlapping downloads or top-ups lose, garble or misdate each other's data? | 2 interchangeable clients (symmetry), horizon 3 days, the third a holiday; evidence that expires after 1 day, so that a backfill can come within its life and after it; faults empty, garbled date, unsolicited row; disk new, unreadable or empty |
| `cache_repair` | can a repair undo a concurrent top-up, drop too much, or leave a receipt that describes another file? | one repairing and one prefetching client on three dirty disks (unreadable bytes, a row without a date, two bars of one day); the vendor answers truthfully or not at all; fair locked steps |
| `cache_hole` | is a strict hit complete? It is not: violation, see Findings | the same module, no repair |
| `load_universe` | order, failure report, breaker, window, shutdown | 7 rows, threshold 2, 1-3 workers: the window of two rows per worker is smaller than the universe |
| `scan_job` | two entries, each with its own loader: exit code, status, rows appearing with it, RUNNING headers | 2 entries, 2 rows, breaker at 1, 1-2 workers, every fault (refusal, setup, raise in the loop, service, rollback, lost acknowledgement, kill) |
| `forward_receipts` | two workers with differently ordered horizons on one signal | 1 signal, 2 horizons, 3 days, all faults, crash |
| `forward_queue` | is every signal attempted again and again although one always fails? | 2 signals, limit 1, 2 days: the batch is smaller than the queue |
| `ipo_provenance` | can a row end up with bytes its URL never served? | 1 document id (given out again after a deletion), 2 sources that serve different bytes, 2 kinds, 2 downloading clients of which one also corrects, damage of a cached file |
| `ipo_review` | can a revision stand on uncited or foreign bytes, a pending proposal lose its document, or a decision be torn or taken twice? | 1 document whose file the server replaces, 2 clients that download, extract and approve, one also enters by hand; 2 proposals, 2 revisions |
| `services` | does each service around the scans answer for the inputs, evidence and days it names? See below | see below |
| `official_shadowed` | does the late-demand flag answer as if the web collector had never run? It does not: violation | scoring alone, as in `services` |
| `rerun_recovers` | does the next successful default run recover a failed category? It does not: violation | intake alone, 4 moves |

`StatusTruthful` judges every stamp on a run, whatever it is written over: SUCCESS and
PARTIAL only over RUNNING and with what the run computed; FAILED where nothing of the
run is stored (`NothingStored`), or else over the verdict of a commit whose
acknowledgement was lost (`Overruled`), the one case in which `finish_scan_run`
writes FAILED over rows that stay.

`HitEndsComplete` excuses a missing bar before the first cached candle only while the code
does: until `RecheckDays` after the evidence was recorded, plus the days between the
vendor's answer and the record. A hit that hides a bar for longer would violate it.

Two documents would only meet in the shared cache file, which `ipo_provenance`
already has two sources for; every rule of the review is per document. With one
cited and one uncited file, an approval that read one and wrote the other would
show. The proofs do not depend on these bounds.

What `services` asks, and of what:

| Property | Says | Instance |
|---|---|---|
| `AnswerFitsInputs` | the evaluation a rescore hands back is the one its own inputs call for, also when it says "unchanged" or met another's row | 2 rescorers, 3 states of the issue (dates near and past the close), 2 extractions, readings below and above the threshold, leaps of 1 and 6 days over the age limits |
| `WebEvidenceIsAdvisory` | without the web the same hard flags, and a score that differs by the optional weights at most | as above, plus grey-market and litigation signals of both trust levels |
| `JudgedOnce` | one row per fingerprint | as above |
| `AdminRemains` | concurrent demotions leave an administrator | 2 sessions, 3 addresses, 3 deployments |
| `OutageNeverElevates` | an unreadable role table grants nobody more than a readable one | as above |
| `VerdictStandsOnItsEvidence`, `ServedForTheCachedPage` | a verdict handed out is about the requested candles, model and page | 2 calls, 2 contexts whose names collide, 2 models, 2 attempts, pages that expire every day |
| `NothingRepaints` | a gap and its fill, a broken swing, a closed week and a year's pivots stay while all they rest on is in the window; a divergence and the past trend stay while the first candle does | windows of 12 days over 15, from three histories, six shapes of the next candle, leaps of 1 and 4 days, so that candles, weeks of 2 days and years of 4 drop out; detectors of 1 to 6 candles |
| `CleanRunMissesNothing` | exit 0 leaves no filing of the window unstored and no chosen issue without its prospectus | 3 filings of 2 categories, two of which share an address; pages of one row, at most two pages; late dating by one day |
| `EvidenceIsPrinted` | an approved figure is on its page as that field of that year, company and unit; nothing but a floor above its cap refuses a pending proposal while its document has the same bytes | a prospectus of two pages in two contents, 15 readings of it, most of them wrong, queues left by earlier releases |
| `HistoryIsHonest` | scores ignore later candles, comparisons are like with like, signals count once, regressions are real | 3 symbols, 5 frames, 3 market days, 2 runs; 3 checks among 7 universe files |

Moves are bounded by `MaxMoves`, `MaxAccess`, `MaxAgent`, `MaxIntake`, `MaxQueue`,
`MaxScans`, `MaxChecks` and `LastRunDay`: each is enough for a change to come between the
two reads, two attempts, two runs or two observations its property is about. The
mutants named in `PROJECT.json` all fail within them.

Deadlock is checked in the load and scan runs. It is off in the cache,
forward-return, IPO and services runs because there clients, workers and the
calendar may stop for good.

### Bounds

`Horizon` (days), `LastDay`, `N` (rows), `Entries`, and the finite sets of bars,
clients and workers bound every variable. No counter runs beyond them: days stop
at the horizon, each repair asks for a finite plan, attempt ranks are re-ranked
at each commit so that they stay below the number of signals and horizons.

### Fairness

- `CandleCache!FairSpec`: weak fairness of each client's steps *under the lock*.
  They are local disk work; requests, user actions and the vendor are not fair.
- `UniverseLoad!FairSpec`: the generator's steps, a pool thread starting a queued
  fetch, and the end of a fetch. The last is not guaranteed by the code: a
  request without a timeout can block a scan for ever, which no property covers.
- `ScanRun!FairSpec`: the job's own steps and the pool, as above.
- `IpoEvidence` and the services state none: their properties are about what may
  never happen.
- `ForwardReturns!FairSpec`: the scheduler starts a batch again and again and a
  started batch goes on. A crash is never forced nor excluded.

## 4. Proofs

`CandleCache_proofs` proves, for every number of clients, every horizon, every
set of bars and every fault set, from `CandleAssumption` and `CacheAssumption`:

- `TypeCorrect`: `Spec => []TypeOK`.
- `TransactionsStayCurrent`: `Spec => []TransactionsCurrent`. The inductive
  invariant is `LockDiscipline` (a client is between acquire and release exactly
  if it holds the lock) together with `FrameCurrent` (what a client is about to
  publish was made from the file that is on disk now). `FrameCurrent` alone is
  not inductive: another client's publication would break it if it could be
  under the lock too.
- `BudgetHolds`, `MarkerDescribes`: the action properties `BudgetHoldsAtPublication`
  and `MarkerDescribesFile`, from the invariant above.
- `CacheImplementsContract`: `Spec` implements `CacheContract` under the mapping
  that shows a decision only while its owner holds the lock.
- `EvidenceStaysTrue`: `Spec => []EarliestEvidenceTrue`. Backfilled bars make the
  evidence outdated, so what stays true is about the day of the answer: what lies before
  the first candle named was published on that day or later (`NoneBefore`). The inductive
  part also says what each client in flight has heard, and that no bar a reader is owed
  lies before the candle that the evidence it has read names.
- `HitEnds` (`HitEndsComplete`): a served hit lacks no bar it owes before its first
  candle, nor one after its last but in the tolerated tail.

`IpoEvidence_proofs` proves, for any documents, sources, clients, files, drafts and
bounds, from `EvidenceAssumption`:

- `TypeCorrect`: `Spec => []TypeOK`. `TypeOK` contains `JobOK`, what each step of
  an operation presupposes (a client that writes evidence holds a digest it has
  seen verified; an approval holds its own proposal's draft and digest); it is
  inductive as it stands.
- `ProvenanceIsHonest`: `ProvenanceHonest`, and `EvidenceIsHonest`: `RevisionsHonest`.
  Neither is inductive: a client writes from the row it detached earlier. `HonestInv`
  adds that every detached row was honest when it was read, that a digest about to be
  recorded is one its source served, and that behind `Cite` the citations are on
  the pages of the digest the client holds. Honesty never goes away (`crossed`
  only grows), so another client's step cannot disturb what this one holds; the
  compare-and-set and `Compare` carry it over to the row.
- `QueueIsDecidable`: `PendingHasDocument`, from the guard of the deletion and
  the foreign key at the insertion.
- `ImplementsLedger`: `Spec` implements `ReviewLedger`. Submission, manual entry
  and approval take effect at their last transaction; all else stutters.

`UniverseLoad_proofs` proves, for any number of rows, any threshold and any worker
counts, from `LoadAssumption`, with the inductive invariant `LoadInv`:

- `TypeCorrect`, `FetchesEndWithTheLoad` (`NoFetchOutlivesTheLoad`) and
  `BreakerStopsTraffic` (`BreakerBoundsTraffic`). The bound on the traffic is not
  inductive: it needs to know where the breaker opened. `StreakIsTheTail` says that
  the streak counts the failures at the end of what was received, so that
  `BreakerIsItsHistory` holds (the breaker is open exactly when K failures in a row
  were received), and `SubmissionsStop` that what was submitted at that point is all
  that ever is, with one thread as with a pool.
- `LoadImplementsContract`: the pool and the sequential loop implement `LoadContract`.

`ScanRun_proofs` proves, for any schedule, from `JobAssumption`, with `JobInv`:

- `TypeCorrect`, `ExitZeroIsHonest` (`ExitZeroMeansRecorded`) and `StatusIsTruthful`
  (`StatusTruthful`). `EntriesInTurn` bounds the runs by the entries, `RecordedSoFar`
  says that while no entry was fatal the history has exactly the runs of the entries
  done, and `OpenRunsAreEmpty` that a run has no rows before its outcome is written.
  The load inside the job keeps `LoadInv`: `LoadProofs == INSTANCE UniverseLoad_proofs`,
  and the lemmas `Same...` show that the two instances of `UniverseLoad` are one.

`ForwardReturns_proofs` proves, for any number of workers and signals, any calendar,
lists of horizons and grace days, from `ForwardAssumption`, with `ForwardInv`:

- `TypeCorrect`; `BenchmarksAreAligned` (`BenchmarkAligned`) and `ExitsAreTheHorizon`
  (`ExitIsTheHorizon`). Both are about committed receipts, which come from a
  transaction, which got them from a measurement made with no transaction open: so
  `Good` is required of committed, uncommitted and not yet executed receipts alike. A
  benchmark-only retry is the difficult case: it carries a benchmark for the dates of a
  receipt read long before, and is applied to the receipt that is there now.
  `ItemOK` and `StatementOK` say that this is still the same stock leg.
- `TerminalReceiptsAreFacts`: the action property `TerminalImmutable`. `Transactions`
  says that no two open transactions have written the same key and that what each has
  written extends what is committed under it; a commit then extends the table
  (`CommitKeeps`), and extension is transitive, whatever the order of commits.
- `CountsAreDurable` (`CountedIsDurable`): what is tallied is what the transaction sees,
  and only its commit makes it counted.
- The arithmetic: `Least` (a set of numbers that is not empty has a least one) comes
  from the well-foundedness of `<`; `NthIsThere` and `BarIsThere` conclude that frames
  long enough have an h-th bar, and that it is h trading days after the signal.

`Services_proofs` about `Access`, for any sessions, people, environments and settings,
from `AccessAssumption`, with `AccessInv`:

- `OutageIsNoPromotion` (`OutageNeverElevates`): whoever the fallback lets in as a viewer
  the table would have let in as at least that, since rows only add to who is let in.
- `AnAdminRemains` (`AdminRemains`): `GuardedByLocks` is the strengthening. Past its
  guard a change holds the rows of all that were administrators then, so that no other
  change can take one of them away before it writes.

`IpoScoring_proofs`, for any rescorers, issue states, extractions, signals and demand
readings, from `ScoringAssumption`, with `ScoringInv` and `EvidenceInv`:

- `AnswersFit` (`AnswerFitsInputs`) and `NothingIsJudgedTwice` (`JudgedOnce`). Every row is
  the verdict on some inputs with its fingerprint (`StoredVerdicts`). That the row met
  or found answers the caller's inputs is the lemma `FingerprintDeterminesVerdict`: what the
  fingerprint leaves out (when a signal was seen, untrusted litigation) no band, flag or
  recommendation depends on.
- `ScoringTypeCorrect` (`ScoringTypeOK`, a part of `ServicesTypeOK`): every factor and every score
  stored is a percentage and nothing is recommended on missing evidence or against a
  hard flag. That is a fact about the arithmetic, for every extraction: `VerdictInRange`
  goes from the bands (`TablesAreTables`, `BandInTable`) over the sub-scores and their
  rounded mean (`MeanInRange`) to the weighted sum (`ScoreIsSum`).
- `WebIsAdvisory` (`WebEvidenceIsAdvisory`): `EvidenceInv` says that what a rescorer holds
  has the shape the writers gave it, in particular that the collector corroborates no
  grey-market reading (`collect_enrichment_signals`). Then the flags of the inputs with
  and without the web agree one by one (`FlagsWithoutWeb`), and the scores differ by two
  terms of the sum (`ScoreWithoutWeb`).
- Sums: `Total` is a fold over a set, defined by recursion on subsets. `SubsetsFollow` is
  the induction over the subsets of a finite set, stated for a set of subsets instead of
  a predicate, so that it can be cited; it gives that the recursion has a solution
  (`SumExists`), that a sum does not depend on the order (`TotalSplits`) and its bounds.

`IpoIntake_proofs`, for any listings, hand-entered issues, page size, windows, budgets and
jobs, from `IntakeAssumption`, with `IntakeInv`:

- `NothingIsMissed` (`CleanRunMissesNothing`). A page is a slice of a list that grows at
  its head while it is read. `PagedPast` says that what is due in the category being read
  is fetched or has a `Place` on a page still to come; a listing only ever moves a filing
  to a later place (`PlacesGrow`), so what slips from one page to the next is met again,
  and a page with a date below the bound has everything due ahead of its end
  (`FetchPageKept`). `Scanned` and `Downloaded` say what the categories and issues already
  done with have stored, unless the exit code is 1.
- That an ingested category is stored whole is `CategoryIngested`: filing by filing
  (`FilingIngested`), without a conflict, what is stored stays stored under its company,
  because a document belongs to the issue with its company's key (`DocsSound`) and no two
  issues have one key (`RowsSound`).
- `IntakeTypeCorrect` (`IntakeTypeOK`, a part of `ServicesTypeOK`).
- `ArrangedLists`: sorting a finite set by an order lists each member at the place that
  the number of those ahead of it says; `PageHolds` is what follows for the pages.
- `NumbersFollow` is induction over the natural numbers, stated for a set of numbers
  instead of a predicate; `FoldExists` and `IngestedInTurn` use it to unfold the fold over
  a sequence that `Ingested` is.

`Services_proofs` about `AgentVerdicts`, for any calls, models and candles, from
`AgentAssumption`, with `AgentInv`:

- `VerdictsStand` (`VerdictStandsOnItsEvidence`) and `ServedOnTheCachedPage`
  (`ServedForTheCachedPage`). `Slot` is arbitrary, so names may collide in any way; the
  receipts of a call are what its conversation saw in this attempt (`CallOK`), and every file
  holds a verdict of the kind it is named after (`FileOK`).

`Services_proofs` about `IpoCitations`, for any papers, drafts, prices and queues of
earlier releases, from `CitationAssumption`, with `CitationInv`:

- `QueueStaysApprovable` (`QueueIsApprovable`, a conjunct of `EvidenceIsPrinted`): the
  receipts of a pending proposal stand whenever the document has the bytes it was
  drafted from, and it is approvable unless its cap is under the floor.
- `ApprovedFiguresAreFound` (`ApprovedIsSupported`): a figure that an approval has turned
  into evidence is found by the search on the page it cites, in the content it was read
  from. The content of the document may be replaced at any time; so `PendingSupported`
  speaks of the content a proposal carries with it, and `Extraction` of the one the agent
  was shown. A proposal of an earlier release has another schema and is never approved
  (`ApprovableIsSupported`).
- The other conjunct of `EvidenceIsPrinted`, that what the search finds is what the page
  says (`ApprovedIsPrinted`), is a fact about patterns and pages and does not hold for all
  papers: a page may print anything. It stays with TLC, for the papers of the run.
- `CitationTypeCorrect` (`CitationTypeOK`, a part of `ServicesTypeOK`).

`Services_proofs` about `RunHistory`, for any screeners, frames, candles, delays, horizons,
weights and universe files, from `HistoryAssumption`, `RowsAssumption`, `PartsAssumption` and
`ProvenanceAssumption`, with `HistoryInv` and `ValuesOK`:

- `HistoryStaysHonest` (`HistoryIsHonest`), one conjunct at a time:
  - `ScoresAreOfTheirDay`: the candles that are read are those up to the day of the run, and
    a new candle is of a later day (`LaterCandlesAreNotRead`); `CacheOK` and the snapshot
    date of `RunsOK` carry that through the days. How a score is computed from the candles
    plays no part (`ScoresOfWhatIsRead`), which is why the theorem holds for all of them.
  - `ChangesCompareLikeWithLike`: of any two runs (`LikeWithLike`).
  - `SignalsCountOnce`: of the measurements of one signal exactly one is of the latest run
    and first in it (`OneIsKept`), so those kept and the signals are as many
    (`KeptOncePerSignal`). It needs one measurement per result and horizon, which
    `MeasurementsOK` keeps while pending ones are replaced.
  - `RegressionsAreReal`: `ObservationsOK` ties each stored health to its file; the baseline
    is then the last file that could be read (`Detected`). That a shortened list of names
    invents no new one is `KeptNames`, about the smallest names of a set (`NthPlace`).
- `HistoryTablesHold` (`TablesOK`, a part of `HistoryTypeOK`).
- `StoredRowsHold` (`ValuesOK`): the stored results satisfy the contract and are scored
  between 0 and 100 or not at all. The argument follows a row from its emission:
  - Fractions. `GcdIs` shows that the recursion of `Gcd` finds the greatest common divisor
    (`EuclidsStep`), so `Frac` divides without remainder and what it returns is worth what
    it was given (`FracIs`). `Within(x, k, lo, hi)` says that x lies between k times lo and
    k times hi, and is kept by sums, multiples and shares (`AddWithin`, `TimesWithin`,
    `OverWithin`).
  - Each part is a percentage: the ranks between the lowest and the highest of the run by
    `PercentOfTheWay`, where there is such a lowest and highest (`ExtremesAre`); volatility
    and decay because `PartsAssumption` says so, of figures that `LiquidityIs`, `RiskIs` and
    `FreshnessIs` show to be what they are applied to.
  - `FinalScoreIs`: the weighted sum lies between 0 and 100 times the weight so far, so its
    share of the weights of the known parts lies between 0 and 100.
  - `SortedRows`: the better score first, else the screener's order, is a strict order
    (`TiesBroken`), so every row has its own place (`PlacesAre`), and none is lost or doubled.
- `HistoryTypeCorrect` (`HistoryTypeOK`): the panels of a dashboard agree.
  - The sums over buckets, months and sectors are the number of the records they are made
    of, whatever the labels (`GroupsAddUp`: each record is in the group of its label and in
    no other).
  - `ReturnsAre`: the measured returns stand in order, each at its place, so the worst is the
    first and the best the last. Mean and median lie between them (`MeanIsBetween`,
    `MedianIsBetween`), again by `Within`.
  - `FoldIs` is what makes this possible: a fold over a finite set is defined, whatever is
    joined and in whatever order, and `PartByPart` is the induction over the subsets of a
    finite set, stated for a set of subsets.

`Services_proofs` about `Signals`, for any candles, calendar, opinions of the agents and
parameters of the screeners (windows, factors, thresholds), from `SignalAssumption`:

- `SignalsNeverRepaint` (`NothingRepaints`). `SignalInv` keeps the rows in the order of
  their days, so the window of one run is that of the run before without its oldest
  candles and with new ones behind (`Slides`, `LoadsSlide`, `CandlesSlide`,
  `RecentSlides`). Then one lemma per kind of finding, each with its own reason:
  - A pivot is one only when the candles on its right are there, so the pivots of the
    earlier window are those of the later one, moved, that are still seen and end within
    the earlier (`PivotsSlide`). So a gap or a broken swing keeps the first candle that
    fills or breaks it (`FirstShifts`, `GapsSlide`, `BreaksSlide`, `PatternsSlide`).
  - A day's period never goes back: new periods come behind the old ones, of which only
    the last can get more candles, and of those still whole in the window the first keeps
    all of its candles (`PartSlides`, `PeriodKept`, `PeriodsSlide`).
  - The relative strength, the Heikin-Ashi candles and the SuperTrend line are seeded with
    the first candle. They move when it leaves the window; while it stays, what they say
    of a candle depends on the candles up to it (`EwmStays`, `RsiStays`, `MomentumStays`,
    `HeikinAshiStays`, `SupertrendStays`). The recursive series are shown to satisfy
    their recursion (`AveragesAre`, `OpensAre`, `BandsAre`), and two of them to agree,
    position by position (`PositionByPosition`). No new pivot comes before an old one, so
    a divergence keeps the nearest earlier pivot it was found with (`DivergencesStay`).
- `SignalTypeCorrect` (`SignalTypeOK`, a part of `ServicesTypeOK`).

`Services_proofs` about `MCServices`, the services side by side:

- `ServicesTypeCorrect` (`ServicesTypeOK`). `EachServiceIsItself` shows that what each of the
  seven does among the others is a behaviour of its own specification, from which its own
  theorem follows.

The assumptions on constants are those of the code: positive horizons and limits, at
least one signal, model and set of candles, worker counts of at least one, finite sets
of workers and signals, listings of the three categories with a company, hand-entered
issues that no company key has claimed, queues of earlier releases with at most one pending
proposal, a candle cache with a date for every candle, histories of rows with growing dates,
and windows of at least one candle. Of a row that a screener emits `RowsAssumption` asks that
it has the columns the application adds or reads, each empty or of its kind; of the
logarithm, the volatility and the decay, which are parameters, `PartsAssumption` asks that
the first is a number on the positive amounts that can be traded and the others are between
0 and 100 on positive closes and on ages, as the code clamps them. Weights are natural numbers. TLC evaluates all of them
on the run `services`.

Only model-checked:

- `LockReleased`, `LoadEnds`, `NoStarvation`, `RunningIsReported`: liveness under fairness
  is out of the prover's reach.
- What the recursive series of `Indicators` are numerically, on every frame: the proofs use
  that they satisfy their recursion, not their values.
- `ApprovedIsPrinted` of `IpoCitations`, a conjunct of `EvidenceIsPrinted`.
- That logarithm, volatility and decay have the ranges `PartsAssumption` asks for: they are
  floating-point functions of the libraries, and the run gives them as small tables.

Every other invariant and every other action property of the passing runs is the statement
of a theorem, and of `EvidenceIsPrinted` its second conjunct is.

## 5. Findings

- `cache_hole`: `get_daily_history` compares only the ends of the cached frame
  with the request; two narrow downloads with a gap between them make a later
  strict request over both a hit although the documentation promises complete
  coverage. Production callers ask for long windows that end near today, which
  is why `ForwardReturns` may assume a frame complete up to its end.
- `official_shadowed`: the scoring reads the latest demand row of any confidence.
  A web reading with a later `captured_at` hides an official one, the hard flag
  discards it, and answers as if no demand evidence were there. The architecture
  note says it answers identically whether or not the scrape ran.
- `rerun_recovers`: the default window of the filings job starts a week before the
  newest filing of *all* categories. If one category fails while another stores
  newer filings, the next default run may start after what the failed one missed,
  and it exits 0. The documentation says to rerun the same command.

Observations, which no run of this project repeats:

- The pool goes on starting queued fetches after the breaker has tripped, until the
  consumer's next pull (`daily_data_loader.py:1546`); the docstring at line 1503 says
  they are cancelled. `BreakerBoundsTraffic` shows how far this can go.
- A run in which every symbol failed to load is stored PARTIAL
  (`scanning/service.py:232`), documented as "usable rows but some symbols failed",
  and the job exits 0.
- `update_document` invalidates the cached digest only if it saw one
  (`ipo/repository.py:364`). A download that commits between the load and the flush
  of a correction stays beside the new URL, where the documentation says it cannot
  attach. `ProvenanceHonest` shows that nothing else can attach foreign bytes.
- The comment of `load_ipo_factor_inputs_snapshot` promises "the same immutable
  snapshot"; its statements see different instants under READ COMMITTED. What is
  handed back still fits what was read (`AnswerFitsInputs`).
- The docstring of `_persist_result_and_finish` (`scanning/service.py:670-673`) says that
  after a failed persist no result rows were committed, and that callers, logs and history
  then agree. When the commit went through and only its acknowledgement was lost, rows and
  verdict are stored and FAILED is written over the verdict: history then shows a failed
  run with rows. `StatusTruthful` shows that FAILED is stamped over rows in no other case.
- `submit_extraction_proposal` promises a queue that "can never hold a proposal that would
  be impossible to approve" (`ipo/repository.py:1968-1970`), and does not look at the floor
  of the price band. A proposal whose cap is below it waits until an administrator
  corrects the band or rejects it. `EvidenceIsPrinted` shows that nothing else refuses it.
- A fundamental verdict is filed under the date of the page that is in the cache when it is
  stored (`fundamental_agent.py:1234`). After a parallel call has replaced the page since
  the model read it, the verdict is served for the newer page; `ServedForTheCachedPage`
  excepts these (`mixed`).
- While `.firstbar` evidence lives, a hit may lack bars that the vendor has backfilled, as
  its comment says (`daily_data_loader.py:573`); `HitEndsComplete` bounds how long.
- Relative strength, Heikin-Ashi candles and SuperTrend start at the first candle loaded,
  which moves with every run (`run_daily_scan.py:206`): a divergence or a past trend may be
  another one the day after. `NothingRepaints` claims them only while that candle stays.
- No MEDIUM-confidence proposal can enter the review queue, since its submission
  demands complete receipts (`ipo/repository.py:1788`); `docs/operations.md:230` speaks
  of MEDIUM proposals that wait for review.
- A role change whose target got another role after it was read is not guarded as
  the last administrator's (`admin/roles_service.py:144`); `AdminRemains` excepts it.
- With inputs that change and change back, a rescore meets the older row of its
  fingerprint and hands it back, but the latest evaluation stays the newer one.

## 6. Abstractions

- Bars are a small set of records; a price and a volume only. The vendor publishes the bar
  of a day at any time from that day on and may quote another one later, but takes none
  back: a published day stays published. The run `cache_repair` has the fault "empty" only;
  its undated and duplicate rows come from the file at the start and its impossible volume
  from the bars. The suspicious overnight gap, `dry_run`, cleanup of stale temporary files
  and the retry of a rename on Windows are left out.
- A direct call reads the parquet's footer and its sidecars in one step.
- In `ForwardReturns` a frame is complete up to the last published bar,
  `computed_at` is the day, and deadlocks are between two workers.
- In `ScanRun` schema, configuration and registry failures are one action
  (`Refuse`); scoring, AI evaluations, notifications, log events and the
  universe-health warning never change an outcome in the code and are left out.
  The verdict on a row is chosen when the row is delivered.

- In `IpoEvidence` a payload is a value; its page citations are a relation
  between digests and payloads (`Cites`), and a damaged file never supports a
  citation. `Fetch` publishes a complete file or nothing (`os.replace`). The
  cheap history check before extraction is left out, since `force_extract` may
  override it. A refused price term, a failed audit write and every other
  exception are `Abort`. Automatic approval is `approve_extraction_proposal`
  with another reviewer. A transaction's reads and its last write are separate
  steps (READ COMMITTED) where the code compares before it writes. The CHECK constraint
  `ck_ipo_extraction_proposals_pending_document` is a second guard behind the one modelled.

- In `IpoScoring` and `IpoVerdict` a day is the unit of time, money is in one unit
  and growth in whole percent: every band edge is whole. Texts, explanations and the
  hash function are left out (a fingerprint is the tuple it digests).
  The list of source documents in the snapshot (`repository.py:943`) and the errors of a
  store whose document or issue was deleted or renamed meanwhile (2455-2472) are left out:
  such a rescore stores nothing and answers nothing. `WithoutWeb` of
  `WebEvidenceIsAdvisory` takes the web reading away; that an official one would come to
  light under it is what `official_shadowed` is about.
- In `Access` a capability check, a role change and a setting are what an
  administrator can do; the identity provider is trusted to name the visitor.
- In `AgentVerdicts` what a model answers is any answer of the right shape about what
  it was shown, or none that parses; time is the day.
- In `Indicators` prices are small integers and every series exact fractions, where
  the code has floats; windows come as parameters. The optional TA-Lib forms are left
  out.
  A candle once loaded is loaded again with the same figures while it is in the window:
  vendor corrections and the partial candle of a day that is still open are left out.
- In `IpoCitations` a regular expression is the set of marks it finds in a span.
- In `IpoIntake` a run takes its issues by id; the code's order (open date, name, id) only
  decides which of them the enrichment budget reaches. The options `--skip-download` and
  `--skip-enrich` of the screener job are left out: with them, exit 0 promises less.
- In `RunHistory` there is one universe and a candle, once cached, is never taken
  back; logarithm, volatility and decay are parameters of the right shape. Scores and
  returns are exact, where the code rounds them (`quantize`), and a screener's row holds
  whole numbers in the columns that scoring reads.

## 7. Plan

Done: 1. candle cache with proofs; 2. forward returns; 3. universe load;
4. scan run and daily job; 5. IPO evidence and review with proofs; 6. IPO verdicts
and scoring; 7. IPO intake; 8. citations; 9. AI verdicts; 10. access; 11. indicators
and chart screeners; 12. run history, comparison, metrics and universe health.

Proofs done: candle cache, IPO evidence, universe load, scan run, forward returns,
access, IPO scoring, AI verdicts, IPO intake, citations, run history with the stored scores
and the dashboards, chart screeners, and the shape of all services together.

What is left: the printed half of `EvidenceIsPrinted` has no theorem and cannot have one
for all papers. Rounding (the code quantizes percentages, the model has exact fractions) and
the floating-point functions behind `PartsAssumption` are the next step down.

## 8. Not modelled

- Streamlit rendering, charts, notification texts, HTML and PDF parsing, prompts,
  redaction and logging: computation or I/O without state that other parts depend on.
- Request pacing: what could go wrong is that departures bunch up in real time, which
  depends on the sleeps of threads and not on an order of steps.
- The candle repair job: a sequential loop over `CandleCache`'s repair of one symbol.
- The counters of tool calls and tokens, which live inside one agent session.
- Schema bootstrap and migrations: they run once before anything else does.

Components with status `not_modelled` in `PROJECT.json` carry the same reasons.

## Running

    tlc -workers 2 -config MCCandleCacheRepair.cfg MCCandleCache
    tlc -workers 2 -config MCServices.cfg MCServices
    tlapm CandleCache_proofs.tla

and in the same way for every other run of `PROJECT.json` and module of theorems.
