------------------------------- MODULE Signals -------------------------------
(***************************************************************************)
(* One symbol seen by the chart screeners (screeners/*.py): every run loads*)
(* the candles of the last years, so the oldest leave as new ones arrive,  *)
(* and a scan reports the rows of every screener on the frame as it then   *)
(* stands.  The AI screeners add an answer of their agent, or its absence, *)
(* to a gate computed here.                                                *)
(***************************************************************************)
EXTENDS Indicators

CONSTANTS
    Histories,    \* what the loader may return first: sequences of rows
    HistoryDays,  \* a run loads the rows of so many days before its own
    Shapes,       \* the price rows that may follow
    DayLeaps,     \* days between one run and the next
    Opinions,      \* of the two agents; None: there is none
    P,            \* the screeners' coerced parameters
    LastRunDay

ASSUME SignalAssumption ==
    /\ None \notin Nat /\ {LastRunDay, HistoryDays} \subseteq Nat
    /\ {WeekDays, YearDays} \subseteq Nat \ {0}
    /\ {P.left, P.right, P.barsBack, P.lookback} \subseteq Nat
    /\ {P.rsiPeriod, P.momentumPeriod, P.atrPeriod} \subseteq Nat \ {0}
    /\ DayLeaps \subseteq Nat \ {0} /\ \A shape \in Shapes : "day" \in DOMAIN shape
    /\ \A h \in Histories :
        /\ h \in Seq(ToSet(h))
        /\ \A i \in DOMAIN h : h[i].day \in Nat
        /\ \A i, j \in DOMAIN h :
            i < j => h[i].day < h[j].day /\ h[j].day - h[i].day <= HistoryDays

VARIABLES
    rows,         \* the rows in the window of the last run, some without a price
    report        \* the result rows of the last scan

SignalVars == <<rows, report>>

Row(screener, rating) == [screener |-> screener, rating |-> rating]
BuyIf(screener, condition) == IF condition THEN {Row(screener, "BUY")} ELSE {}
Rated(screener, buys, sells) ==
    CASE buys -> {Row(screener, "BUY")}
      [] ~buys /\ sells -> {Row(screener, "SELL")}
      [] OTHER -> {}

Price(f) == Int2Frac(Last(f).close)
Raised(x, share) == Times(x, Add(Int2Frac(1), share))

-----------------------------------------------------------------------------
Bands(f) == Envelope(Closes(f), P.emaPeriod, P.percent, P.exponential)

EnvelopeRows(f, b) ==
    LET n == Len(f)
    IN  BuyIf("envelope", n > 0 /\ b.lower[n] # None
                          /\ Less(Int2Frac(0), b.basis[n]) /\ AtMost(Price(f), b.lower[n]))

(* Near its low of the year on any of the recent days, not only today.     *)
Week52LowRows(f) ==
    LET low == Rolling(AsFracs(Column(f, "low")), P.window, SmallestOf)
        recent == Max({1, Len(f) - P.recentWindow + 1})..Len(f)
    IN  BuyIf("week52_low", /\ Len(f) >= P.window
                            /\ \A i \in recent : low[i] # None
                            /\ \E i \in recent :
                                 AtMost(Closes(f)[i], Raised(low[i], P.proximity)))

Green(f, i) ==
    \/ f[i].close > f[i].open
    \/ f[i].close = f[i].open /\ i > 1 /\ f[i].open > f[i - 1].low

GreenCandlesRows(f) ==
    LET n == Len(f)
        run == {i \in DOMAIN f : n - i < P.maxRun /\ \A j \in i..n : Green(f, j)}
        low == Min({f[i].low : i \in run})
        high == Max({f[i].high : i \in run})
    IN  BuyIf("green_candles", run # {} /\ Less(P.gain, Frac(high - low, low)))

(* Three falling yearly pivots, and the weekly close back above last       *)
(* year's high for at most so many weeks.                                  *)
Falling(last, before, first) ==
    Less(last.pivot, before.pivot) /\ Less(before.pivot, first.pivot)

Reclaims(weekly, high) ==
    LET n == Len(weekly)
    IN  /\ n >= 2 /\ weekly[n] >= high
        /\ \E i \in Max({2, n - P.crossWeeks + 1})..n :
              weekly[i] >= high /\ weekly[i - 1] < high

CprYearlyRows(f) ==
    LET year == Last(f).day \div YearDays
    IN  BuyIf("cpr_yearly", f # <<>> /\ \E cpr \in {YearlyCpr(f)} :
            \E last, before, first \in cpr :
                /\ <<last.year, before.year, first.year>> = <<year, year - 1, year - 2>>
                /\ Falling(last, before, first)
                /\ Reclaims(Column(ResampleToWeekly(f), "close"), last.prevHigh))

(* A recent divergence near the lower band, or the price of the last one   *)
(* tested again, however old it is.                                        *)
EnvelopeKnoxvilleRows(f, b, divergences) ==
    LET n == Len(f)
        last == Max({d.at : d \in divergences})
        near == AtMost(Price(f), Raised(b.lower[n], P.proximity))
        retest == AtMost(Price(f), Raised(Int2Frac(f[last].low), P.retest))
    IN  BuyIf("envelope_knoxville_buy",
              /\ n > 0 /\ b.lower[n] # None /\ Less(Int2Frac(0), b.basis[n])
              /\ divergences # {}
              /\ (near /\ n - last <= P.recency) \/ retest)

-----------------------------------------------------------------------------
CrossedAbove(s, t, i) ==
    /\ i > 1 /\ None \notin {s[i], t[i], s[i - 1], t[i - 1]}
    /\ Less(t[i], s[i]) /\ AtMost(s[i - 1], t[i - 1])

(* The averages crossed within the last days, and still stand that way.    *)
Confirmed(f, s, t) ==
    LET crosses == {i \in DOMAIN f : CrossedAbove(s, t, i)}
    IN  /\ crosses # {}
        /\ Less(t[Len(f)], s[Len(f)])
        /\ Last(f).day - f[Max(crosses)].day <= P.confirmationDays

StochasticSwingRows(f, slow, fast, o) ==
    LET n == Len(f)
        known == n > P.smaPeriod /\ None \notin {slow[n], o.k[n], o.d[n], o.k[n - 1], o.d[n - 1]}
        Before(Beyond(_)) == Beyond(o.k[n - 1]) /\ Beyond(o.d[n - 1])
    IN  Rated("stochastic_swing",
              /\ known /\ Less(slow[n], Price(f))
              /\ CrossedAbove(o.k, o.d, n)
              /\ Before(LAMBDA x : Less(x, Int2Frac(P.stochOversold)))
              /\ Confirmed(f, fast, slow),
              /\ known /\ Less(Price(f), slow[n])
              /\ CrossedAbove(o.d, o.k, n)
              /\ Before(LAMBDA x : Less(Int2Frac(P.stochOverbought), x))
              /\ Confirmed(f, slow, fast))

HeikinAshiSupertrendRows(h, trend) ==
    LET n == Len(h)
        known == n > 1 /\ trend[n] # None /\ trend[n - 1] # None
    IN  Rated("heikin_ashi_supertrend",
              known /\ AtMost(h[n - 1].close, trend[n - 1].line)
                    /\ Less(trend[n].line, h[n].close),
              known /\ AtMost(trend[n - 1].line, h[n - 1].close)
                    /\ Less(h[n].close, trend[n].line))

(* x lies outside the band on the side of y when it is so many deviations  *)
(* away from the middle, compared in squares.                              *)
Deviates(away, variance, Than(_, _)) ==
    AtMost(Int2Frac(0), away)
        /\ Than(Times(P.deviations, Times(P.deviations, variance)), Times(away, away))

BollingerRows(f, b) ==
    LET n == Len(f)
        middle == b.middle[n]  variance == b.variance[n]
        known == n > 0 /\ middle # None
        buffered == Over(Times(Price(f), Int2Frac(P.proximity[2])), P.proximity[1] + P.proximity[2])
        low == Int2Frac(Last(f).low)  high == Int2Frac(Last(f).high)
    IN  BuyIf("bollinger_lower_band",
              known /\ Deviates(Minus(middle, buffered), variance, AtMost))
        \cup Rated("bollinger_band_reversal",
              known /\ Deviates(Minus(middle, low), variance, Less)
                    /\ Last(f).close > Last(f).open,
              known /\ Deviates(Minus(high, middle), variance, Less)
                    /\ Last(f).close < Last(f).open)

-----------------------------------------------------------------------------
(* The five reasons to ask the technical agent about a symbol.             *)
Gate(f, levels, gaps, double, block) ==
    LET close == Price(f)
        Levels(kind) == {l \in levels : kind \in l.kinds}
        Away(l) == Minus(Larger(close, l.price), Smaller(close, l.price))
        Nearer(l, m) == Less(Away(l), Away(m)) \/ (Away(l) = Away(m) /\ AtMost(l.price, m.price))
        Around(bottom, top) == /\ AtMost(Times(bottom, Minus(Int2Frac(1), P.tolerance)), close)
                               /\ AtMost(close, Raised(top, P.tolerance))
        Tapped(zone) == Around(Int2Frac(zone.bottom), Int2Frac(zone.top))
        before == {i \in DOMAIN f : i < Len(f) /\ i >= Len(f) - P.breakoutLookback}
    IN  {flag \in {"at_support", "fresh_breakout", "double_bottom", "bullish_fvg", "order_block"} :
          CASE flag = "at_support" -> \E l \in Levels("support") :
                  (\A m \in Levels("support") : Nearer(l, m)) /\ Around(l.price, l.price)
            [] flag = "fresh_breakout" -> \E l \in Levels("resistance") :
                  Less(l.price, close) /\ \E i \in before : Less(Int2Frac(f[i].close), l.price)
            [] flag = "double_bottom" -> double # None /\ double.confirmed # None
                  /\ Len(Recent(f, P.lookback)) - double.confirmed <= P.breakoutLookback
            [] flag = "bullish_fvg" -> \E g \in gaps :
                  g.direction = "bullish" /\ g.filled = None /\ Tapped(g)
            [] OTHER -> block # None /\ ~block.mitigated /\ Tapped(block)}

(* A candidate needs a level and a reason.  The agent's verdict decides;   *)
(* without one the reason shows by itself, but for a breakout alone.       *)
GateFlags(f, recent, levels) ==
    IF f = <<>> \/ levels = {} THEN {}
    ELSE Gate(f, levels, FairValueGaps(recent, P.minGap),
              DoubleBottom(recent, P.left, P.right, P.doubleTolerance),
              BullishOrderBlock(recent, P.left, P.right))

TechnicalRows(flags, answer) ==
    LET qualifies == \/ answer.pattern = "at_support"
                     \/ answer.pattern = "bullish_pattern" /\ answer.confirmed
    IN  IF answer = None
        THEN BuyIf("technical_gate_only", flags \ {"fresh_breakout"} # {})
        ELSE BuyIf("technical_analysis", flags # {} /\ qualifies)

(* Two thirds below the highest high, and a double away from it.           *)
SixtySevenRows(f, answer) ==
    LET ath == Max(ToSet(Column(f, "high")))
        fall == ath - Last(f).close
    IN  BuyIf("sixty_seven_ka_funda",
              /\ f # <<>> /\ answer # None /\ answer.approved
              /\ 100 * fall >= P.drawdown * ath
              /\ 100 * fall >= P.upside * Last(f).close)

CandleRows(f, closes, bands, heikin) ==
    UNION {EnvelopeRows(f, bands), Week52LowRows(f), GreenCandlesRows(f), CprYearlyRows(f),
           EnvelopeKnoxvilleRows(f, bands, KnoxvilleDivergences(f, P)),
           StochasticSwingRows(f, Sma(closes, P.smaPeriod), Ema(closes, P.shortPeriod),
                Stochastic(f, P.stochK, P.stochSmoothing, P.stochSignal)),
           HeikinAshiSupertrendRows(heikin, Supertrend(heikin, P.atrPeriod, P.multiplier)),
           BollingerRows(f, Bollinger(closes, P.bbPeriod))}

ChartRows(f) == CandleRows(f, Closes(f), Bands(f), HeikinAshi(f))

Flags(f) ==
    GateFlags(f, Recent(f, P.lookback),
              MajorLevels(f, P.left, P.right, P.cluster, P.minTouches))

-----------------------------------------------------------------------------
SignalInit == rows = <<>> /\ report = {}

(* A run loads the candles of the window that ends today, then computes on *)
(* them.                                                                   *)
FirstLoad == rows = <<>> /\ rows' \in Histories

Since(all, start) ==
    SubSeq(all, Min({i \in DOMAIN all : all[i].day >= start}), Len(all))

NextLoad ==
    /\ rows # <<>> /\ Last(rows).day < LastRunDay
    /\ \E shape \in Shapes, leap \in DayLeaps :
          LET today == Last(rows).day + leap
          IN  rows' = Since(Append(rows, [shape EXCEPT !.day = today]), today - HistoryDays)

Screened(f, charts, flags) ==
    \E opinion \in Opinions \cup {None} :
        report' = charts \cup TechnicalRows(flags, opinion) \cup SixtySevenRows(f, opinion)

Compute(f) == Screened(f, ChartRows(f), Flags(f))

Run == (FirstLoad \/ NextLoad) /\ Compute(PrepareOhlc(rows'))

SignalNext == Run

SignalSpec == SignalInit /\ [][SignalNext]_SignalVars

-----------------------------------------------------------------------------
SignalTypeOK ==
    /\ \A i \in 2..Len(rows) : rows[i - 1].day < rows[i].day
    /\ \A r \in report : r.rating \in {"BUY", "SELL"}

(* What was found, named by its days, and the first day it rests on.       *)
Finding(since, fact) == [since |-> since, fact |-> fact]

(* The patterns of the technical tools, which see the recent candles r.    *)
PatternFacts(r) ==
    LET gaps == FairValueGaps(r, P.minGap)
        breaks == Breaks(r, P.left, P.right, "up") \cup Breaks(r, P.left, P.right, "down")
    IN  {Finding(r[g.at - 1].day, <<"gap", r[g.at].day, g.bottom, g.top>>) : g \in gaps}
        \cup {Finding(r[g.at - 1].day, <<"filled", r[g.at].day, r[g.filled].day>>) :
                  g \in {h \in gaps : h.filled # None}}
        \cup {Finding(r[b.pivot - P.left].day,
                      <<"break", b.direction, r[b.pivot].day, r[b.at].day>>) : b \in breaks}

(* The weekly candles but the one still open, and the pivots of the years. *)
PeriodFacts(f) ==
    LET closed == {w \in ToSet(ResampleToWeekly(f)) : w.period < Last(f).day \div WeekDays}
    IN  {Finding(w.period * WeekDays, <<"week", w>>) : w \in closed}
        \cup {Finding((r.year - 1) * YearDays, <<"year", r>>) : r \in YearlyCpr(f)}

(* What rests on averages that start at the first candle of the frame.     *)
SeededFacts(f) ==
    LET trend == Supertrend(HeikinAshi(f), P.atrPeriod, P.multiplier)
    IN  {<<"divergence", d>> : d \in KnoxvilleDivergences(f, P)}
        \cup {<<"trend", i, trend[i]>> : i \in DOMAIN f}

RestingOn(g, findings) == {x \in findings : Head(g).day <= x.since}

(* A finding is never taken back by the candles that follow it, as long as *)
(* all it rests on is still seen: a gap keeps its edges and its fill and a *)
(* broken swing its break within the detectors' recent candles, a week that*)
(* closed its candle and a year its pivots within the history loaded.  A   *)
(* divergence and the past of the SuperTrend line rest on every candle     *)
(* before them, and stay as long as the first one does (indicators.py:     *)
(* pivots wait for the candles on their right before they count).          *)
NothingRepaints ==
    [][LET f == PrepareOhlc(rows)
           g == PrepareOhlc(rows')
           seen == Recent(g, P.lookback)
       IN  f # <<>> /\ g # <<>> =>
            /\ RestingOn(seen, PatternFacts(Recent(f, P.lookback))) \subseteq PatternFacts(seen)
            /\ RestingOn(g, PeriodFacts(f)) \subseteq PeriodFacts(g)
            /\ Head(f) = Head(g) => SeededFacts(f) \subseteq SeededFacts(g)]_rows
=============================================================================
