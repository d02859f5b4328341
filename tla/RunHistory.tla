----------------------------- MODULE RunHistory ------------------------------
(***************************************************************************)
(* What the application tells about its stored runs.  When a screener has  *)
(* run, backend/scoring ranks its rows with the candles already cached and *)
(* scanning/result_contract.py admits the rows that can be stored.  Later, *)
(* scanning/comparison.py sets two runs against each other,                *)
(* validation/metrics.py summarizes the returns of the signals, and        *)
(* data_quality/universe_health.py compares a universe file with how it    *)
(* was last seen.                                                          *)
(*                                                                         *)
(* A run is one step (ScanRun interleaves it), and so is the measurement   *)
(* of one signal (ForwardReturns).  Scores and returns are exact           *)
(* fractions, not rounded; a cached candle is never taken back             *)
(* (CandleRepair).                                                         *)
(***************************************************************************)
EXTENDS Fractions, FiniteSets, FiniteSetsExt

CONSTANTS Screeners, Symbols,
          SecurityIds,      \* the symbols the universe file maps
          FirstQuotes,      \* the candles cached at first, [Symbols -> sequence]
          NextQuotes,       \* a day's candles, [Symbols -> [open, close, volume] or None]
          Delays,           \* days from a snapshot date to the run
          Emissions,        \* the frames a screener may emit, sequences of rows
          PartWeights,          \* of the parts of a score
          LiquidityWindow, RiskWindow,
          LogScale(_),      \* log1p, of a positive amount
          Steadiness(_),    \* 0 to 100, of a sequence of closes
          Decay(_),         \* 0 to 100, of an age in days
          MonthOf(_), SectorOf, Horizons,
          GraceDays,        \* MISSING_FUTURE_DATA_GRACE_DAYS
          UniverseFiles,    \* [state, rows]: a row is [name, mapped], 0 for no name
          MaxNames,         \* MAX_REPORTED_SYMBOLS
          LastMarketDay, MaxScans, MaxChecks   \* bounds

ASSUME HistoryAssumption ==
    /\ SecurityIds \subseteq Symbols /\ Delays \subseteq Nat
    /\ IsFiniteSet(Symbols) /\ IsFiniteSet(Horizons) /\ Horizons \subseteq Nat \ {0}
    /\ MaxNames \in Nat /\ LastMarketDay \in Nat /\ MaxScans \in Nat /\ MaxChecks \in Nat
    /\ \A s \in Symbols :
        /\ FirstQuotes[s] \in Seq(ToSet(FirstQuotes[s]))
        /\ \A i \in DOMAIN FirstQuotes[s] : FirstQuotes[s][i].day \in 0..LastMarketDay
    /\ \A frame \in Emissions : frame \in Seq(ToSet(frame))
    /\ \A file \in UniverseFiles :
        /\ file.state \in {"valid", "missing", "unreadable"}
        /\ file.rows \in Seq([name : Nat, mapped : BOOLEAN])
    /\ None \notin Int \cup [from : Nat, to : Nat, newly : SUBSET Nat]
    /\ None \notin [status : {"valid"}, unmapped : Nat, names : SUBSET Nat,
                    truncated : BOOLEAN, complete : BOOLEAN]

\* The candles that reach the cache, their closes, and what is traded in a day.
Cacheable ==
    UNION {ToSet(FirstQuotes[s]) \cup ({q[s] : q \in NextQuotes} \ {None}) : s \in Symbols}
CachedCloses == {q.close : q \in Cacheable} \ {None}
TradedAmounts ==
    {q.close * q.volume : q \in {c \in Cacheable : c.close # None /\ c.volume # None}}

\* A column of a row may be empty; a provenance is a record or missing.
EmittedRow(row) ==
    /\ {"symbol", "score", "provenance"} \subseteq DOMAIN row
    /\ row.provenance # None =>
        /\ {"source", "rules", "indicators", "dated"} = DOMAIN row.provenance
        /\ row.provenance.rules \cup row.provenance.indicators \subseteq STRING
    /\ row.symbol \in Symbols \cup {None}
    /\ {row.confidence, row.upside, row.distance} \subseteq Int \cup {None}
    /\ row.signal \in Nat \cup {None}

ASSUME RowsAssumption ==
    /\ \A q \in Cacheable :
        /\ q.open \in Int
        /\ {q.close, q.volume} \subseteq Int \cup {None}
    /\ \A frame \in Emissions : \A i \in DOMAIN frame : EmittedRow(frame[i])

VARIABLES
    marketDay,
    quotes,         \* the candle cache, oldest candle first
    scans,          \* scan_runs with their scan_results, in order of id
    measured,       \* signal_forward_returns, one per result and horizon
    observations    \* universe_health_snapshots of one universe

HistoryVars == <<marketDay, quotes, scans, measured, observations>>

-----------------------------------------------------------------------------
(* Scoring: four parts between 0 and 100, each None where it has no data.  *)

Parts == {"technical", "liquidity", "risk", "freshness"}
Neutral == Int2Frac(50)
PercentOf(x, y) == Frac(100 * x[1] * y[2], x[2] * y[1])

\* Each known value between the lowest and the highest of the run.
CrossSectional(values) ==
    LET present == Range(values) \ {None}
        low  == CHOOSE x \in present : \A y \in present : AtMost(x, y)
        high == CHOOSE x \in present : \A y \in present : AtMost(y, x)
    IN [i \in DOMAIN values |->
            CASE values[i] = None                             -> None
              [] values[i] # None /\ AtMost(high, low)        -> Neutral
              [] values[i] # None /\ Less(low, high)          ->
                    PercentOf(Minus(values[i], low), Minus(high, low))]

\* The first figure a row has: confidence, room to rise, closeness to a level.
TechnicalRaw(row) ==
    CASE row.confidence # None                          -> Int2Frac(row.confidence)
      [] row.confidence = None /\ row.upside # None     -> Int2Frac(row.upside)
      [] row.confidence = None /\ row.upside = None /\ row.distance # None
                                                        -> Int2Frac(-row.distance)
      [] OTHER                                          -> None

ReadWhatIsCached(symbol, snapshot) ==
    IF symbol \in SecurityIds THEN quotes[symbol] ELSE <<>>

\* A later candle is not evidence of the day the run is about.
ReadCachedCandles(symbol, snapshot) ==
    IF symbol \in SecurityIds
    THEN PickedFrom(quotes[symbol],
                    {i \in DOMAIN quotes[symbol] : quotes[symbol][i].day <= snapshot})
    ELSE <<>>

Priced(series) == PickedFrom(series, {i \in DOMAIN series : series[i].close # None})
LastOf(series, n) == SubSeq(series, Len(series) - n + 1, Len(series))

Turnover(traded) == FoldLeft(+, 0, traded)

LiquidityRaw(series) ==
    LET window == LastOf(Priced(series), LiquidityWindow)
        traded == [i \in DOMAIN window |-> window[i].close * window[i].volume]
    IN IF \/ Len(Priced(series)) < LiquidityWindow
          \/ \E i \in DOMAIN window : window[i].volume = None
          \/ Turnover(traded) <= 0
       THEN None
       ELSE LogScale(Mean(AsFracs(traded)))

RiskScore(series) ==
    LET window == LastOf(Priced(series), RiskWindow)
    IN IF Len(Priced(series)) < RiskWindow \/ \E i \in DOMAIN window : window[i].close <= 0
       THEN None
       ELSE Steadiness([i \in DOMAIN window |-> window[i].close])

FreshnessScore(row, snapshot) ==
    IF row.signal = None THEN None
    ELSE Decay(IF snapshot > row.signal THEN snapshot - row.signal ELSE 0)

\* What the logarithm, the volatility and the decay are of.
ASSUME PartsAssumption ==
    /\ PartWeights \in [Parts -> Nat]
    /\ LiquidityWindow \in Nat \ {0} /\ RiskWindow \in Nat \ {0}
    /\ \A traded \in [1..LiquidityWindow -> TradedAmounts] :
        Turnover(traded) <= 0 \/ IsFraction(LogScale(Mean(AsFracs(traded))))
    /\ \A closes \in [1..RiskWindow -> {c \in CachedCloses : c > 0}] :
        Percentage(Steadiness(closes))
    /\ \A age \in 0..LastMarketDay : Percentage(Decay(age))

ComponentFrames(frame, snapshot) ==
    LET series(i) == ReadCachedCandles(frame[i].symbol, snapshot)
    IN [technical |-> CrossSectional([i \in DOMAIN frame |-> TechnicalRaw(frame[i])]),
        liquidity |-> CrossSectional([i \in DOMAIN frame |-> LiquidityRaw(series(i))]),
        risk      |-> [i \in DOMAIN frame |-> RiskScore(series(i))],
        freshness |-> [i \in DOMAIN frame |-> FreshnessScore(frame[i], snapshot)]]

\* _score_one_row: the weights of what is missing go to the other parts.
FinalScore(parts, i) ==
    LET known == {c \in Parts : parts[c][i] # None /\ PartWeights[c] > 0}
    IN IF known = {} THEN None
       ELSE Over(FoldSet(LAMBDA c, sum : Add(sum, Times(parts[c][i], Int2Frac(PartWeights[c]))),
                         Int2Frac(0), known),
                 MapThenSumSet(LAMBDA c : PartWeights[c], known))

\* Best first, no score last, else in the screener's order.
SortByFinalScore(frame) ==
    LET better(x, y) == x # None /\ (y = None \/ Less(y, x))
        ahead(i, j)  == \/ better(frame[i].score, frame[j].score)
                        \/ i < j /\ ~better(frame[j].score, frame[i].score)
        place(i)     == 1 + Cardinality({j \in DOMAIN frame : ahead(j, i)})
    IN [k \in DOMAIN frame |-> frame[CHOOSE i \in DOMAIN frame : place(i) = k]]

WithScore(row, score) == [row EXCEPT !.score = score]

ScoreCandidates(frame, snapshot) ==
    LET parts == ComponentFrames(frame, snapshot)
    IN SortByFinalScore([i \in DOMAIN frame |-> WithScore(frame[i], FinalScore(parts, i))])

WithNullFinalScore(frame) == [i \in DOMAIN frame |-> WithScore(frame[i], None)]

-----------------------------------------------------------------------------
(* The result contract, and the runs.                                      *)

SignalSources == {"deterministic", "ai", "hybrid"}

SatisfiesContract(row) ==
    /\ row.symbol # None
    /\ row.provenance # None
    /\ row.provenance.source \in SignalSources
    /\ row.provenance.rules # {} /\ "" \notin row.provenance.rules
    /\ row.provenance.indicators # {}

ASSUME ProvenanceAssumption ==
    None \notin [source : SignalSources, rules : SUBSET STRING, indicators : SUBSET STRING,
                 dated : Int]

NormalizeScreenerRow(row, snapshot) ==
    IF row.provenance.dated = None THEN [row EXCEPT !.provenance.dated = snapshot] ELSE row

ResultRows(frame, snapshot) ==
    LET kept == PickedFrom(frame, {i \in DOMAIN frame : SatisfiesContract(frame[i])})
    IN [i \in DOMAIN kept |-> NormalizeScreenerRow(kept[i], snapshot)]

Finalized == {"success", "partial"}

ScoredSafely(frame, snapshot, outcome) ==
    IF outcome = "unscored" THEN WithNullFinalScore(frame) ELSE ScoreCandidates(frame, snapshot)

RunStatus(frame, stored, outcome) ==
    CASE Len(stored) < Len(frame) /\ stored = <<>> -> "failed"
      [] Len(stored) < Len(frame) /\ stored # <<>> -> "partial"
      [] Len(stored) = Len(frame)                  -> IF outcome = "lossy" THEN "partial" ELSE "success"

\* run_scan of a snapshot date that is not in the future; symbols may fail to load, and
\* a failing scorer leaves the rows without a score.
Scan(screener, frame, snapshot, outcome) ==
    LET stored == ResultRows(ScoredSafely(frame, snapshot, outcome), snapshot)
    IN /\ Len(scans) < MaxScans
       /\ scans' = Append(scans, [screener |-> screener, snapshot |-> snapshot,
                                  status |-> RunStatus(frame, stored, outcome), rows |-> stored,
                                  emitted |-> frame, scored |-> outcome # "unscored"])
       /\ UNCHANGED <<marketDay, quotes, measured, observations>>

ScreenerRaises(screener, snapshot) ==
    /\ Len(scans) < MaxScans
    /\ scans' = Append(scans, [screener |-> screener, snapshot |-> snapshot, status |-> "failed",
                               rows |-> <<>>, emitted |-> <<>>, scored |-> FALSE])
    /\ UNCHANGED <<marketDay, quotes, measured, observations>>

\* The next day's candles reach the cache.
NextMarketDay ==
    /\ marketDay < LastMarketDay
    /\ marketDay' = marketDay + 1
    /\ \E q \in NextQuotes :
        quotes' = [s \in Symbols |->
            IF q[s] = None THEN quotes[s]
            ELSE Append(quotes[s], [day |-> marketDay', open |-> q[s].open,
                                    close |-> q[s].close, volume |-> q[s].volume])]
    /\ UNCHANGED <<scans, measured, observations>>

-----------------------------------------------------------------------------
(* get_latest_finalized_scan_runs and build_scan_comparison.               *)

FinalizedRuns(screener) ==
    {k \in DOMAIN scans : scans[k].screener = screener /\ scans[k].status \in Finalized}

Latest(runs) == Max(runs)

\* A symbol twice in a run is shown as its last row.
ResultIndex(k) ==
    [s \in {row.symbol : row \in Range(scans[k].rows)} |->
        scans[k].rows[Max({i \in DOMAIN scans[k].rows : scans[k].rows[i].symbol = s})]]

ResultScore(row) ==
    CASE row.score # None                           -> [source |-> "final_score", value |-> row.score]
      [] row.score = None /\ row.confidence # None  ->
            [source |-> "confidence", value |-> Int2Frac(row.confidence)]
      [] OTHER                                      -> [source |-> "none", value |-> None]

BothScored(new, old) == new.value # None /\ old.value # None

\* ScoreDelta: only between scores of the same kind.
Comparable(new, old) == BothScored(new, old) /\ new.source = old.source

ScanComparison(latest, previous) ==
    LET new == ResultIndex(latest)
        old == ResultIndex(previous)
        both == DOMAIN new \cap DOMAIN old
        moved == {s \in both : Comparable(ResultScore(new[s]), ResultScore(old[s]))}
        risen(s) == Less(ResultScore(old[s]).value, ResultScore(new[s]).value)
        fallen(s) == Less(ResultScore(new[s]).value, ResultScore(old[s]).value)
    IN [newToday |-> DOMAIN new \ DOMAIN old, repeated |-> both,
        dropped |-> DOMAIN old \ DOMAIN new,
        improved |-> {s \in moved : risen(s)}, degraded |-> {s \in moved : fallen(s)}]

-----------------------------------------------------------------------------
(* Measuring a signal, and the validation dashboard.                       *)

NoReturn(status) == [status |-> status, pct |-> None]

\* From the open after the signal to the close of the horizon.
ForwardReturn(symbol, signal, horizon) ==
    LET bars  == Priced(quotes[symbol])
        later == PickedFrom(bars, {i \in DOMAIN bars : bars[i].day > signal})
    IN IF \A i \in DOMAIN bars : bars[i].day # signal THEN NoReturn("insufficient_data")
       ELSE IF Len(later) < horizon
            THEN NoReturn(IF Last(bars).day + GraceDays >= marketDay THEN "pending"
                          ELSE "insufficient_data")
       ELSE IF later[1].open <= 0 THEN NoReturn("insufficient_data")
       ELSE [status |-> "computed",
             pct |-> Frac(100 * (later[horizon].close - later[1].open), later[1].open)]

Measurement(k, i, horizon) ==
    LET row == scans[k].rows[i]
        found == ForwardReturn(row.symbol, row.signal, horizon)
    IN [run |-> k, result |-> i, screener |-> scans[k].screener, symbol |-> row.symbol,
        signal |-> row.signal, horizon |-> horizon, status |-> found.status, pct |-> found.pct]

\* Every horizon of the signal that is not settled.
Measure(k, i) ==
    LET pending == {m \in measured : m.run = k /\ m.result = i /\ m.status = "pending"}
        settled == {m \in measured \ pending : m.run = k /\ m.result = i}
        open == Horizons \ {m.horizon : m \in settled}
    IN /\ scans[k].rows[i].signal # None /\ open # {}
       /\ measured' = (measured \ pending) \cup {Measurement(k, i, h) : h \in open}
       /\ UNCHANGED <<marketDay, quotes, scans, observations>>

MetricRecords == {m \in measured : scans[m.run].status \in Finalized}

SameSignal(x, y) ==
    /\ x.screener = y.screener /\ x.symbol = y.symbol
    /\ x.signal = y.signal /\ x.horizon = y.horizon

EveryRun(records) == records

\* A signal that several runs found counts once, as the latest of them measured it.
DedupeLatestRun(records) ==
    {x \in records : \A y \in {z \in records : SameSignal(x, z)} :
        y.run < x.run \/ (y.run = x.run /\ x.result <= y.result)}

Measured(records) == {m \in records : m.status = "computed"}
EarlierResult(x, y) == x.run < y.run \/ (x.run = y.run /\ x.result < y.result)
LowerReturn(x, y) ==
    Less(x.pct, y.pct) \/ (AtMost(x.pct, y.pct) /\ EarlierResult(x, y))
InOrder(records) ==      \* of their returns
    [n \in 1..Cardinality(records) |->
        CHOOSE x \in records : Cardinality({y \in records : LowerReturn(y, x)}) = n - 1]
Returns(records) == LET sorted == InOrder(Measured(records))
                    IN [i \in DOMAIN sorted |-> sorted[i].pct]

Average(returns) == IF returns = <<>> THEN None ELSE Mean(returns)
Median(returns) ==
    LET n == Len(returns)
    IN CASE n = 0                  -> None
         [] n % 2 = 1              -> returns[(n + 1) \div 2]
         [] n > 0 /\ n % 2 = 0     -> Over(Add(returns[n \div 2], returns[n \div 2 + 1]), 2)
HitRate(returns) ==
    IF returns = <<>> THEN None
    ELSE Frac(100 * Len(SelectSeq(returns, LAMBDA r : r[1] > 0)), Len(returns))

BestSignal(returns) == IF returns = <<>> THEN None ELSE Last(returns)
WorstSignal(returns) == IF returns = <<>> THEN None ELSE Head(returns)

Summary(records, returns) ==
    [total |-> Cardinality(records), computed |-> Len(returns),
     pending |-> Cardinality({m \in records : m.status = "pending"}),
     insufficient |-> Cardinality({m \in records : m.status = "insufficient_data"}),
     hitRate |-> HitRate(returns), average |-> Average(returns), median |-> Median(returns),
     best |-> BestSignal(returns), worst |-> WorstSignal(returns)]

MetricRow(records) == Summary(records, Returns(records))

BucketLabels == {"<= -10", "-10 to 0", "0 to 10", "10 to 20", ">= 20"}
ReturnBucketLabel(pct) ==
    CASE AtMost(pct, Int2Frac(-10))                              -> "<= -10"
      [] Less(Int2Frac(-10), pct) /\ Less(pct, Int2Frac(0))      -> "-10 to 0"
      [] AtMost(Int2Frac(0), pct) /\ Less(pct, Int2Frac(10))     -> "0 to 10"
      [] AtMost(Int2Frac(10), pct) /\ Less(pct, Int2Frac(20))    -> "10 to 20"
      [] OTHER                                                   -> ">= 20"

ReturnDistribution(records) ==
    [b \in BucketLabels |->
        Cardinality({m \in Measured(records) : ReturnBucketLabel(m.pct) = b})]
SignalCountOverTime(records) ==
    [p \in {MonthOf(m.signal) : m \in records} |->
        MetricRow({m \in records : MonthOf(m.signal) = p})]
SectorForRecord(m) == IF m.symbol \in DOMAIN SectorOf THEN SectorOf[m.symbol] ELSE "Unknown"
SectorConcentration(records) ==
    [s \in {SectorForRecord(m) : m \in records} |->
        MetricRow({m \in records : SectorForRecord(m) = s})]

MetricRecordsForFilters(screener, horizon) ==
    DedupeLatestRun({m \in MetricRecords : m.screener = screener /\ m.horizon = horizon})

\* Every panel is made of the same records, read once.
DashboardOf(records) ==
    [row |-> MetricRow(records), distribution |-> ReturnDistribution(records),
     overTime |-> SignalCountOverTime(records), sectors |-> SectorConcentration(records)]

ValidationDashboard(screener, horizon) == DashboardOf(MetricRecordsForFilters(screener, horizon))

-----------------------------------------------------------------------------
(* Universe health.                                                        *)

UnmappedRows(file) == {i \in DOMAIN file.rows : ~file.rows[i].mapped}
UnmappedNames(file) == {file.rows[i].name : i \in UnmappedRows(file)} \ {0}

\* An unmapped row without a name, or more names than are kept, is an incomplete list.
CollectUniverseHealth(file) ==
    LET names == UnmappedNames(file)
        truncated == Cardinality(names) > MaxNames
    IN IF file.state # "valid"
       THEN [status |-> file.state, unmapped |-> 0, names |-> {}, truncated |-> FALSE,
             complete |-> FALSE]
       ELSE [status |-> "valid", unmapped |-> Cardinality(UnmappedRows(file)),
             names |-> {x \in names : Cardinality({y \in names : y < x}) < MaxNames},
             truncated |-> truncated,
             complete |-> ~truncated /\ \A i \in UnmappedRows(file) : file.rows[i].name # 0]

LatestOfAnyStatus(seen) == IF seen = <<>> THEN None ELSE Last(seen).health

\* get_latest_universe_health_snapshots: an unreadable file is no baseline.
LatestBaseline(seen) ==
    LET valid == {i \in DOMAIN seen : seen[i].health.status = "valid"}
    IN IF valid = {} THEN None ELSE seen[Max(valid)].health

DetectMappingRegression(health, baseline) ==
    IF \/ health.status # "valid" \/ baseline = None
       \/ baseline # None /\ health.unmapped <= baseline.unmapped
    THEN None
    ELSE [from |-> baseline.unmapped, to |-> health.unmapped,
          newly |-> IF health.complete /\ baseline.complete /\ ~baseline.truncated
                    THEN health.names \ baseline.names ELSE {}]

\* The baseline is read before the observation is appended.
Recorded(file, health) ==
    Append(observations,
        [health |-> health, file |-> file,
         regression |-> DetectMappingRegression(health, LatestBaseline(observations))])

CheckUniverseHealth(file) ==
    /\ Len(observations) < MaxChecks
    /\ observations' = Recorded(file, CollectUniverseHealth(file))
    /\ UNCHANGED <<marketDay, quotes, scans, measured>>

-----------------------------------------------------------------------------
HistoryInit ==
    /\ quotes = FirstQuotes
    /\ marketDay = Max({0} \cup UNION {{q.day : q \in Range(quotes[s])} : s \in Symbols})
    /\ scans = <<>> /\ measured = {} /\ observations = <<>>

Snapshots == {marketDay - delay : delay \in Delays}

HistoryNext ==
    \/ NextMarketDay
    \/ \E s \in Screeners, frame \in Emissions, snapshot \in Snapshots,
          outcome \in {"complete", "lossy", "unscored"} : Scan(s, frame, snapshot, outcome)
    \/ \E s \in Screeners, snapshot \in Snapshots : ScreenerRaises(s, snapshot)
    \/ \E k \in DOMAIN scans : \E i \in DOMAIN scans[k].rows : Measure(k, i)

UniverseHealthNext == \E file \in UniverseFiles : CheckUniverseHealth(file)

HistorySpec == HistoryInit /\ [][HistoryNext \/ UniverseHealthNext]_HistoryVars

-----------------------------------------------------------------------------
(* The rows of the tables.                                                 *)

ScanRunRow(run) ==
    /\ run.screener \in Screeners
    /\ run.status \in Finalized \cup {"failed"}
    /\ run.status = "failed" => run.rows = <<>>
    /\ run.snapshot <= marketDay

\* A signal date may be missing, a symbol and a provenance with its date may not.
ScanResultRow(row) ==
    /\ SatisfiesContract(row) /\ row.provenance.dated # None
    /\ row.score # None => Percentage(row.score)

UniverseHealthSnapshot(health) ==
    /\ health.status \in {"valid", "missing", "unreadable"}
    /\ health.status # "valid" => health.unmapped = 0 /\ ~health.complete
    /\ health.complete => ~health.truncated
    /\ Cardinality(health.names) <= Min({MaxNames, health.unmapped})

ForwardReturnRow(m) ==
    /\ m.run \in DOMAIN scans /\ m.result \in DOMAIN scans[m.run].rows
    /\ m.horizon \in Horizons
    /\ m.status \in {"computed", "pending", "insufficient_data"}

\* One measurement of a result at a horizon.
TablesOK ==
    /\ \A k \in DOMAIN scans : ScanRunRow(scans[k])
    /\ \A i \in DOMAIN observations : UniverseHealthSnapshot(observations[i].health)
    /\ \A m \in measured : ForwardReturnRow(m)
    /\ \A x, y \in measured :
        x.run = y.run /\ x.result = y.result /\ x.horizon = y.horizon => x = y

SumOf(f) == MapThenSumSet(LAMBDA x : f[x], DOMAIN f)
Totals(f) == MapThenSumSet(LAMBDA x : f[x].total, DOMAIN f)

PanelsAgree(d) ==
    /\ d.row.computed = SumOf(d.distribution)
    /\ d.row.total = Totals(d.overTime)
    /\ d.row.total = Totals(d.sectors)
    /\ d.row.computed > 0 =>
        \A x \in {d.row.average, d.row.median} : AtMost(d.row.worst, x) /\ AtMost(x, d.row.best)

\* The shape of the stored rows and of a dashboard: every stored result satisfies the
\* contract and is scored between 0 and 100, a measurement belongs to a result of a run,
\* and the panels of a dashboard tell the same story.
HistoryTypeOK ==
    /\ TablesOK
    /\ \A k \in DOMAIN scans : \A row \in Range(scans[k].rows) : ScanResultRow(row)
    /\ \A s \in Screeners, h \in Horizons :
        \A d \in {ValidationDashboard(s, h)} : PanelsAgree(d)

\* A run's ranking is what the same rows get today, whatever candles came since:
\* no score looks past the day its run is about.
ScoresAreOfTheirDay ==
    \A k \in DOMAIN scans :
        scans[k].scored =>
            scans[k].rows = ResultRows(ScoreCandidates(scans[k].emitted, scans[k].snapshot),
                                       scans[k].snapshot)

\* A symbol is called improved or degraded on two scores of the same kind.
ChangesCompareLikeWithLike ==
    \A s \in Screeners : Cardinality(FinalizedRuns(s)) > 1 =>
        LET latest == Latest(FinalizedRuns(s))
            previous == Latest(FinalizedRuns(s) \ {latest})
            c == ScanComparison(latest, previous)
        IN \A x \in c.improved \cup c.degraded :
            (ResultIndex(latest)[x].score = None) = (ResultIndex(previous)[x].score = None)

SignalsOf(screener, horizon) ==
    {<<m.symbol, m.signal>> :
        m \in {x \in MetricRecords : x.screener = screener /\ x.horizon = horizon}}

\* However often a screener is run again, the dashboard counts a signal once at each
\* horizon.
SignalsCountOnce ==
    \A s \in Screeners, h \in Horizons :
        ValidationDashboard(s, h).row.total = Cardinality(SignalsOf(s, h))

\* A mapping regression is reported just when fewer rows are mapped than when the file
\* could last be read, and a symbol it names had a mapping then or was not listed.
RegressionsAreReal ==
    \A i \in DOMAIN observations :
        LET now == observations[i]
            before == {j \in 1..(i - 1) : observations[j].file.state = "valid"}
            last == observations[Max(before)].file
        IN /\ now.file.state # "valid" \/ before = {} => now.regression = None
           /\ now.file.state = "valid" /\ before # {} =>
                /\ (now.regression # None) <=>
                        Cardinality(UnmappedRows(now.file)) > Cardinality(UnmappedRows(last))
                /\ now.regression # None =>
                        now.regression.newly \subseteq UnmappedNames(now.file) \ UnmappedNames(last)

\* What the application tells about its runs afterwards is so: no score has seen a
\* later candle, a comparison sets like against like, no signal weighs twice in the
\* metrics, and a regression of the universe is neither invented nor missed.
HistoryIsHonest ==
    /\ ScoresAreOfTheirDay
    /\ ChangesCompareLikeWithLike
    /\ SignalsCountOnce
    /\ RegressionsAreReal
=============================================================================
