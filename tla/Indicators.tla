------------------------------ MODULE Indicators ------------------------------
(***************************************************************************)
(* The price arithmetic of the screeners (backend/indicators.py, in the    *)
(* pure pandas form the container installs) and the chart patterns of the  *)
(* technical gate (backend/technical/patterns.py).                         *)
(*                                                                         *)
(* A frame is a sequence of daily candles, oldest first, with one candle   *)
(* per day; a pivot, a gap or a break is named by the positions of the     *)
(* candles that make it.  Series and Rolling give a series of fractions    *)
(* with None for NaN.                                                      *)
(***************************************************************************)
EXTENDS Fractions, FiniteSets, FiniteSetsExt

CONSTANTS WeekDays, YearDays   \* the calendar: days of a week, of a year

-----------------------------------------------------------------------------
(* A row that misses a price is no candle.                                 *)
PrepareOhlc(rows) == PickedFrom(rows, {i \in DOMAIN rows : rows[i].close # None})

(* The sequence as long as s that has At(i) at i.                          *)
Series(s, At(_)) == SubSeq([i \in DOMAIN s |-> At(i)], 1, Len(s))

Mapped(s, Op(_)) == Series(s, LAMBDA i : Op(s[i]))

Column(f, name) == Series(f, LAMBDA i : f[i][name])
Closes(f) == AsFracs(Column(f, "close"))

Rolling(s, n, Op(_)) ==
    LET At(i) == LET w == SubSeq(s, i - n + 1, i)
                 IN  IF i >= n /\ Known(w) THEN Op(w) ELSE None
    IN  Series(s, At)

Shifted(s, n) == Series(s, LAMBDA i : IF i > n THEN s[i - n] ELSE None)

Both(s, t, Op(_, _)) ==
    Series(s, LAMBDA i : IF None \in {s[i], t[i]} THEN None ELSE Op(s[i], t[i]))

Averages(s, weight, first) ==
    LET e[i \in DOMAIN s] ==
            CASE i < first -> None
              [] i = first -> s[i]
              [] OTHER -> Add(Times(weight, s[i]), Times(Minus(Int2Frac(1), weight), e[i - 1]))
    IN  e

(* ewm(adjust=False): it starts at the first number of the series, and     *)
(* says nothing before it has seen n of them.                              *)
Ewm(s, weight, n) ==
    LET first == Min({i \in DOMAIN s : s[i] # None} \cup {Len(s) + 1})
        e == Averages(s, weight, first)
    IN  Series(s, LAMBDA i : IF i < first + n - 1 THEN None ELSE e[i])

Ema(s, n) == Ewm(s, Frac(2, n + 1), n)
Sma(s, n) == Rolling(s, n, Mean)
Momentum(s, n) == Both(s, Shifted(s, n), Minus)

Rsi(s, n) ==
    LET moves == Momentum(s, 1)
        Average(Part(_)) == Ewm(Series(s, LAMBDA i :
            IF moves[i] = None THEN None ELSE Part(moves[i])), Frac(1, n), n)
        gains == Average(LAMBDA x : Larger(x, Int2Frac(0)))
        losses == Average(LAMBDA x : Larger(Minus(Int2Frac(0), x), Int2Frac(0)))
        Index(g, l) == IF l = Int2Frac(0) THEN None
                       ELSE Frac(100 * g[1] * l[2], g[1] * l[2] + l[1] * g[2])
    IN  Both(gains, losses, Index)

Stochastic(f, k, kSmoothing, dSmoothing) ==
    LET FastK(i) ==
            LET w == SubSeq(f, i - k + 1, i)
                low == Min(ToSet(Column(w, "low")))
                high == Max(ToSet(Column(w, "high")))
            IN  IF i < k \/ high = low THEN None
                ELSE Frac(100 * (f[i].close - low), high - low)
        slowK == Sma(Series(f, FastK), kSmoothing)
    IN  [k |-> slowK, d |-> Sma(slowK, dSmoothing)]

(* The bands are irrational: what the screeners ask is whether x lies below*)
(* the lower band, and above the upper one, with the deviation squared.    *)
Bollinger(s, n) ==
    LET Squared(x) == Times(x, x)
        Variance(w) == Mean(Series(w, LAMBDA i : Squared(Minus(w[i], Mean(w)))))
    IN  [middle |-> Sma(s, n), variance |-> Rolling(s, n, Variance)]

Below(basis, share) ==
    [basis |-> basis, lower |-> Series(basis, LAMBDA i :
        IF basis[i] = None THEN None ELSE Times(basis[i], Minus(Int2Frac(1), share)))]

Envelope(s, n, share, exponential) ==
    Below(IF exponential THEN Ema(s, n) ELSE Sma(s, n), share)

-----------------------------------------------------------------------------
(* A pivot is stricter than its neighbours on both sides, and is one only  *)
(* when all of them are there.                                             *)
Extreme(s, i, left, right, Beyond(_, _)) ==
    \A j \in (i - left)..(i + right) :
        j \in DOMAIN s /\ j # i => Beyond(s[i], s[j])

PivotsOnSight(s, left, right, Beyond(_, _)) ==
    {i \in DOMAIN s : i > left /\ Extreme(s, i, left, right, Beyond)}

Pivots(s, left, right, Beyond(_, _)) ==
    {i \in DOMAIN s : i > left /\ i + right <= Len(s)
                      /\ Extreme(s, i, left, right, Beyond)}

Under(x, y) == x < y
Above(x, y) == x > y
PivotLowsOnSight(f, left, right) == PivotsOnSight(Column(f, "low"), left, right, Under)

PivotLows(f, left, right) == Pivots(Column(f, "low"), left, right, Under)
PivotHighs(f, left, right) == Pivots(Column(f, "high"), left, right, Above)

(* Pivot prices, cheapest first, fall into one level while they are within *)
(* the cluster's width of its first one.                                   *)
MajorLevels(f, left, right, width, minTouches) ==
    LET pivots == {[price |-> f[i].low, kind |-> "support", rank |-> i] :
                       i \in PivotLows(f, left, right)}
            \cup {[price |-> f[i].high, kind |-> "resistance", rank |-> Len(f) + i] :
                       i \in PivotHighs(f, left, right)}
        sorted == SetToSortSeq(pivots, LAMBDA p, q :
            p.price < q.price \/ (p.price = q.price /\ p.rank < q.rank))
        Joins(cluster, p) == LET anchor == Head(cluster).price
            IN  anchor > 0 /\ AtMost(Frac(p.price - anchor, anchor), width)
        Place(clusters, p) ==
            IF clusters # <<>> /\ Joins(Last(clusters), p)
            THEN [clusters EXCEPT ![Len(clusters)] = Append(@, p)]
            ELSE Append(clusters, <<p>>)
        Level(c) == [price |-> Mean(AsFracs(Column(c, "price"))),
                     touches |-> Len(c), kinds |-> ToSet(Column(c, "kind"))]
        clusters == FoldLeft(Place, <<>>, sorted)
    IN  {Level(clusters[i]) : i \in {j \in DOMAIN clusters : Len(clusters[j]) >= minTouches}}

-----------------------------------------------------------------------------
PeriodOf(f, days) == Series(f, LAMBDA i : f[i].day \div days)

Ascending(numbers) == PickedFrom([n \in numbers |-> n], numbers)

(* One candle per period that has one: first open, extremes, last close.   *)
Resampled(f, days) ==
    LET period == PeriodOf(f, days)
        Bar(p) == LET w == SubSeq(f, Min({i \in DOMAIN f : period[i] = p}),
                                     Max({i \in DOMAIN f : period[i] = p}))
            IN  [period |-> p, open |-> Head(w).open, close |-> Last(w).close,
                 high |-> Max(ToSet(Column(w, "high"))),
                 low |-> Min(ToSet(Column(w, "low")))]
        periods == Ascending(ToSet(period))
    IN  Series(periods, LAMBDA k : Bar(periods[k]))

ResampleToWeekly(f) == Resampled(f, WeekDays)

(* The pivot of a year comes from the year before it, if that one traded.  *)
CprOf(years) ==
    LET Pivot(b) == Frac(b.high + b.low + b.close, 3)
    IN  {[year |-> years[k].period, pivot |-> Pivot(years[k - 1]),
          prevHigh |-> years[k - 1].high] :
            k \in {j \in 2..Len(years) : years[j - 1].period = years[j].period - 1}}

YearlyCpr(f) == CprOf(Resampled(f, YearDays))

-----------------------------------------------------------------------------
(* A lower low in price against a higher low in momentum, on an oversold   *)
(* pivot: each is found with the nearest earlier pivot that shows it.      *)
Divergences(f, p, pivots, rsi, momentum) ==
    LET Prior(i) == {j \in pivots : i - p.barsBack <= j /\ j < i
                        /\ f[i].low < f[j].low /\ Less(momentum[j], momentum[i])}
    IN  {[at |-> i, prior |-> Max(Prior(i)), rsi |-> rsi[i], momentum |-> momentum[i]] :
            i \in {k \in pivots : AtMost(rsi[k], Int2Frac(p.oversold)) /\ Prior(k) # {}}}

Measurable(pivots, rsi, momentum) == {i \in pivots : None \notin {rsi[i], momentum[i]}}

KnoxvilleDivergences(f, p) ==
    LET rsi == Rsi(Closes(f), p.rsiPeriod)
        momentum == Momentum(Closes(f), p.momentumPeriod)
    IN  Divergences(f, p, Measurable(PivotLows(f, p.left, p.right), rsi, momentum),
                    rsi, momentum)

HeikinOpen(f, close) ==
    LET open[i \in DOMAIN f] == IF i = 1 THEN Frac(f[1].open + f[1].close, 2)
                                ELSE Over(Add(open[i - 1], close[i - 1]), 2)
    IN  open

HeikinAshi(f) ==
    LET close == Series(f, LAMBDA i :
            Frac(f[i].open + f[i].high + f[i].low + f[i].close, 4))
        open == HeikinOpen(f, close)
    IN  Series(f, LAMBDA i :
            [close |-> close[i],
             high |-> Larger(Int2Frac(f[i].high), Larger(open[i], close[i])),
             low |-> Smaller(Int2Frac(f[i].low), Smaller(open[i], close[i]))])

TrueRange(h) ==
    LET Distance(x, y) == Minus(Larger(x, y), Smaller(x, y))
    IN  Series(h, LAMBDA i :
            IF i = 1 THEN Minus(h[i].high, h[i].low)
            ELSE Larger(Minus(h[i].high, h[i].low),
                        Larger(Distance(h[i].high, h[i - 1].close),
                               Distance(h[i].low, h[i - 1].close))))

(* The line trails the price: below it (up) or above it (not up).          *)
Trailed(b, close, before, upper, lower) ==
    [upper |-> IF Less(upper, b.upper) \/ Less(b.upper, before) THEN upper ELSE b.upper,
     lower |-> IF Less(b.lower, lower) \/ Less(before, b.lower) THEN lower ELSE b.lower,
     up |-> IF b.up THEN ~Less(close, b.lower) ELSE Less(b.upper, close)]

LineOf(b) ==
    IF b = None THEN None ELSE [up |-> b.up, line |-> IF b.up THEN b.lower ELSE b.upper]

TrailingBands(h, width) ==
    LET Middle(i) == Over(Add(h[i].high, h[i].low), 2)
        Band(b, i, upper, lower) ==
            CASE width[i] = None -> None
              [] width[i] # None /\ b = None ->
                    [upper |-> upper, lower |-> lower, up |-> TRUE]
              [] OTHER -> Trailed(b, h[i].close, h[i - 1].close, upper, lower)
        bands[i \in DOMAIN h] == Band(IF i = 1 THEN None ELSE bands[i - 1], i,
                                      Add(Middle(i), width[i]), Minus(Middle(i), width[i]))
    IN  bands

TrailingLine(h, width) ==
    LET bands == TrailingBands(h, width) IN Series(h, LAMBDA i : LineOf(bands[i]))

Supertrend(h, n, factor) ==
    TrailingLine(h, Mapped(Ewm(TrueRange(h), Frac(1, n), n),
                           LAMBDA r : IF r = None THEN None ELSE Times(factor, r)))

-----------------------------------------------------------------------------
Recent(f, n) == IF n > 0 /\ Len(f) > n THEN SubSeq(f, Len(f) - n + 1, Len(f)) ELSE f

(* Three candles whose outer two do not overlap leave a gap, filled by the *)
(* first later candle that trades through all of it.                       *)
FairValueGaps(f, minGap) ==
    LET Gap(i, direction, bottom, top) ==
            LET fills == {j \in (i + 2)..Len(f) :
                    IF direction = "bullish" THEN f[j].low <= bottom ELSE f[j].high >= top}
            IN  [at |-> i, direction |-> direction, bottom |-> bottom, top |-> top,
                 filled |-> IF fills = {} THEN None ELSE Min(fills)]
        Between(i) ==
            CASE f[i + 1].low > f[i - 1].high ->
                    {Gap(i, "bullish", f[i - 1].high, f[i + 1].low)}
              [] ~(f[i + 1].low > f[i - 1].high) /\ f[i + 1].high < f[i - 1].low ->
                    {Gap(i, "bearish", f[i + 1].high, f[i - 1].low)}
              [] OTHER -> {}
        Wide(g) == AtMost(minGap, Frac(g.top - g.bottom, g.bottom))
    IN  {g \in UNION {Between(i) : i \in 2..(Len(f) - 1)} : Wide(g)}

(* The last two lows of nearly one price, confirmed by the first close     *)
(* above the highest high between them.                                    *)
SameLow(p, q, tolerance) ==
    LET lower == Smaller(<<p, 1>>, <<q, 1>>)[1]
    IN  lower > 0 /\ AtMost(Frac(p + q - 2 * lower, lower), tolerance)

Neckline(f, first, second) == Max({f[i].high : i \in first..second})

BottomBetween(f, first, second) ==
    LET breaks == {j \in (second + 1)..Len(f) : f[j].close > Neckline(f, first, second)}
    IN  [first |-> first, second |-> second, neckline |-> Neckline(f, first, second),
         confirmed |-> IF breaks = {} THEN None ELSE Min(breaks)]

LastTwoBottom(f, lows, tolerance) ==
    LET second == Max(lows)
        first == Max(lows \ {second})
    IN  IF Cardinality(lows) >= 2 /\ SameLow(f[first].low, f[second].low, tolerance)
        THEN BottomBetween(f, first, second)
        ELSE None

DoubleBottom(f, left, right, tolerance) ==
    LastTwoBottom(f, PivotLows(f, left, right), tolerance)

(* The first close through a pivot, once the pivot is one.                 *)
Breaks(f, left, right, direction) ==
    LET up == direction = "up"
        pivots == IF up THEN PivotHighs(f, left, right) ELSE PivotLows(f, left, right)
        Through(i) == {j \in (i + right + 1)..Len(f) :
            IF up THEN f[j].close > f[i].high ELSE f[j].close < f[i].low}
    IN  {[pivot |-> i, at |-> Min(Through(i)), direction |-> direction] :
            i \in {k \in pivots : Through(k) # {}}}

(* The last opposite candle before the latest break upwards: tapped again  *)
(* (mitigated) once a later candle trades back into it.                    *)
OrderBlock(f, origin, bos) ==
    [origin |-> origin, bos |-> bos, top |-> f[origin].high, bottom |-> f[origin].low,
     mitigated |-> \E j \in (bos + 1)..Len(f) : f[j].low <= f[origin].high]

BlockBefore(f, bos, reach) ==
    LET opposite == {k \in DOMAIN f : bos - reach < k /\ k < bos /\ f[k].close < f[k].open}
    IN  IF opposite = {} THEN None ELSE OrderBlock(f, Max(opposite), bos)

LatestBlock(f, breaks, reach) ==
    IF breaks = {} THEN None ELSE BlockBefore(f, Max(breaks), reach)

BullishOrderBlock(f, left, right) ==
    LatestBlock(f, {b.at : b \in Breaks(f, left, right, "up")}, left + right + 5)
=============================================================================
