------------------------------ MODULE IpoVerdict ------------------------------
(***************************************************************************)
(* What the IPO screener concludes from one set of inputs: the ratio       *)
(* engine, the seven scored factors, the seven hard caution flags, the     *)
(* weighted score, the recommendation, and the fingerprint by which a      *)
(* later rescoring recognises inputs it has judged before.  Everything     *)
(* here is a function of the inputs; IpoScoring moves the inputs.          *)
(*                                                                         *)
(* An inputs record has the fields                                         *)
(*   issue        [status, close, price]   close, price may be None        *)
(*   profile      None or the latest verified extraction (see Profile)     *)
(*   subscription None or [at, qib, low]   low: LOW source confidence      *)
(*   enrichment   a set of [hash, type, value, usable, clean, trusted,     *)
(*                match, seen], each with a payload of one entry           *)
(*   asOf         a day number                                             *)
(* Money is in one unit already (to_inr is a scaling by a constant), and a *)
(* computed ratio is an integer number of 1/10000.                         *)
(***************************************************************************)
EXTENDS Common, Integers, Sequences, FiniteSets, TLC, SequencesExt, FiniteSetsExt

-----------------------------------------------------------------------------
(* Decimal arithmetic.                                                     *)

Abs(x) == IF x < 0 THEN -x ELSE x

Sign(x) == IF x < 0 THEN -1 ELSE 1

\* n / d to four places, halves away from zero (ROUND_HALF_UP).
Rounded(n, d) ==
    Sign(n) * Sign(d) * ((20000 * Abs(n) + Abs(d)) \div (2 * Abs(d)))

Computed(v) == [status |-> "computed", value |-> v]
Unavailable(s) == [status |-> s, value |-> None]

Ratio(n, d, positive) ==
    CASE d = 0 -> Unavailable("undefined")
      [] positive /\ d < 0 -> Unavailable("not_meaningful")
      [] OTHER -> Computed(Rounded(n, d))

Percent(n, d, positive) == Ratio(100 * n, d, positive)

\* Growth over two years in whole percent: every band edge and threshold it
\* is compared with is a whole number, so the fraction is left out.  Growth
\* above GrowthCap reads as GrowthCap.
GrowthCap == 300

Cagr(first, last) ==
    CASE first = 0 -> Unavailable("undefined")
      [] first < 0 \/ (first > 0 /\ last <= 0) -> Unavailable("not_meaningful")
      [] OTHER ->
            LET Reached(p) == (100 + p) * (100 + p) * first <= 10000 * last
            IN  Computed(10000 * (CHOOSE p \in -100..GrowthCap :
                    /\ Reached(p)
                    /\ p < GrowthCap => ~Reached(p + 1)))

-----------------------------------------------------------------------------
(* The ratio engine: each ratio is a computed value or the reason there is *)
(* none.                                                                   *)

GrowthRatios(p) ==
    IF p.consecutive
    THEN [revenue_cagr |-> Cagr(p.revenue[1], p.revenue[3]),
          pat_cagr |-> Cagr(p.pat[1], p.pat[3])]
    ELSE [n \in {"revenue_cagr", "pat_cagr"} |-> Unavailable("not_meaningful")]

StatementRatios(p) ==
    [ebitda_margin |-> Percent(p.ebitda, p.revenue[3], FALSE),
     pat_margin |-> Percent(p.pat[3], p.revenue[3], FALSE),
     roe |-> Percent(p.pat[3], p.netWorth, TRUE),
     debt_to_equity |-> Ratio(p.debt, p.netWorth, TRUE),
     net_debt_to_ebitda |-> Ratio(p.debt - p.cash, p.ebitda, TRUE),
     cfo_to_pat |-> Ratio(p.cfo, p.pat[3], FALSE),
     eps |-> Ratio(p.pat[3], p.shares, TRUE),
     book_value |-> Ratio(p.netWorth, p.shares, TRUE)]

\* Profit before tax, finance cost, assets, liabilities and the post-issue
\* shares are None in extractions made before they were collected.
LegacyRatios(p) ==
    LET ebit == p.pbt + p.finance IN
    [interest_coverage |->
        CASE None \in {p.pbt, p.finance} -> Unavailable("missing_inputs")
          [] None \notin {p.pbt, p.finance} /\ p.finance = 0 -> Unavailable("not_applicable")
          [] OTHER -> Ratio(ebit, p.finance, FALSE),
     roce |->
        IF None \in {p.pbt, p.finance, p.assets, p.liabilities}
        THEN Unavailable("missing_inputs")
        ELSE Percent(ebit, p.assets - p.liabilities, TRUE)]

\* A multiple of the issue price over earnings or book value per share.
PriceOver(price, perShare, shares) ==
    IF shares <= 0 \/ perShare <= 0 THEN Unavailable("not_meaningful")
    ELSE Ratio(price * shares, perShare, FALSE)

PriceRatios(p, price) ==
    LET ev == price * p.postShares + p.debt - p.cash
        Ev(d) == IF p.postShares = None THEN Unavailable("missing_inputs")
                                        ELSE Ratio(ev, d, TRUE)
    IN  CASE price = None -> [n \in {"price_to_earnings", "price_to_book",
                    "ev_to_ebitda", "ev_to_sales"} |-> Unavailable("missing_inputs")]
          [] price = 0 -> [n \in {"price_to_earnings", "price_to_book",
                    "ev_to_ebitda", "ev_to_sales"} |-> Unavailable("not_meaningful")]
          [] OTHER -> [price_to_earnings |-> PriceOver(price, p.pat[3], p.shares),
                       price_to_book |-> PriceOver(price, p.netWorth, p.shares),
                       ev_to_ebitda |-> Ev(p.ebitda),
                       ev_to_sales |-> Ev(p.revenue[3])]

CalculateIpoRatios(p, price) ==
    GrowthRatios(p) @@ StatementRatios(p) @@ LegacyRatios(p) @@ PriceRatios(p, price)

-----------------------------------------------------------------------------
(* Factor derivation.  A sub-score is None or an integer in 0..100; a      *)
(* factor is None or an integer number of hundredths.                      *)

\* A table of half-open intervals: edges fall, in hundredths; a value below
\* i of them has the score number i + 1.
Table(edges, scores) == [edges |-> edges, scores |-> scores]

GrowthBands == Table(<<2500, 1500, 800, 0>>, <<100, 75, 50, 25, 0>>)
ReturnBands == Table(<<2000, 1500, 1000, 500>>, <<100, 75, 50, 25, 0>>)
PremiumBands == Table(<<150, 120, 100, 80>>, <<10, 35, 60, 80, 100>>)
EbitdaMarginBands == Table(<<2500, 1800, 1200, 600>>, <<100, 75, 50, 25, 0>>)
PatMarginBands == Table(<<1500, 1000, 600, 200>>, <<100, 75, 50, 25, 0>>)
CfoToPatBands == Table(<<100, 80, 50, 20>>, <<100, 75, 50, 25, 0>>)
CoverageBands == Table(<<800, 500, 300, 150>>, <<100, 75, 50, 25, 0>>)
HoldingBands == Table(<<6000, 5000, 4000, 3000>>, <<100, 80, 60, 40, 20>>)
OfsBands == Table(<<75, 50, 25>>, <<10, 30, 60, 80>>)
QibBands == Table(<<5000, 2000, 1000, 300, 100>>, <<100, 85, 70, 55, 35, 0>>)
GmpBands == Table(<<4000, 2000, 1000, 0>>, <<100, 75, 60, 40, 0>>)

\* The band of n / d, d > 0.
Band(n, d, t) ==
    t.scores[1 + Cardinality({i \in DOMAIN t.edges : 100 * n < t.edges[i] * d})]

\* An undefined ratio is weak evidence, any other missing one is none.
RatioSubscore(receipt, t) ==
    CASE receipt.status = "computed" -> Band(receipt.value, 10000, t)
      [] receipt.status = "undefined" -> 0
      [] OTHER -> None

\* Twice the median of a non-empty sequence of integers.
TwiceMedian(s) ==
    LET t == SortSeq(s, LAMBDA x, y : x < y)
    IN  t[(Len(t) + 1) \div 2] + t[Len(t) \div 2 + 1]

\* The peers' positive values of one metric.
PeerValues(p, metric) ==
    LET Usable(peer) == peer[metric] # None /\ peer[metric] > 0
        rows == SelectSeq(p.peers, Usable)
    IN  [i \in DOMAIN rows |-> rows[i][metric]]

PremiumSubscore(receipt, peers) ==
    CASE receipt.status = "undefined" -> 0
      [] receipt.status = "computed" /\ peers # <<>> ->
            Band(2 * receipt.value, 10000 * TwiceMedian(peers), PremiumBands)
      [] OTHER -> None

\* The sum of the values of f on a finite set.
Total(f, set) == FoldSet(LAMBDA x, sum : f[x] + sum, 0, set)

\* Every core sub-score is needed; the optional ones count when there.
Factor(core, optional) ==
    LET scores == core \o optional
        used == {i \in DOMAIN scores : scores[i] # None}
        n == Cardinality(used)
    IN  IF None \in ToSet(core) THEN None
        ELSE (200 * Total(scores, used) + n) \div (2 * n)

PromoterQuality(p) ==
    LET offered == p.fresh + p.ofs
        ofsScore == CASE offered = 0 -> None
                      [] offered > 0 /\ p.ofs = 0 -> 100
                      [] offered > 0 /\ p.fresh = 0 -> 0
                      [] OTHER -> Band(p.ofs, offered, OfsBands)
    IN  Factor(<<Band(p.holding, 1, HoldingBands)>>, <<ofsScore>>)

QibSubscription(sub) ==
    IF sub = None \/ sub.qib = None THEN None
    ELSE 100 * Band(sub.qib, 100, QibBands)

GmpMaxAge == 5

Fresh(signal, asOf) == signal.seen >= asOf - GmpMaxAge

GmpSentiment(enrichment, asOf) ==
    LET Counts(s) == /\ s.type = "gmp" /\ s.usable /\ s.clean
                     /\ s.value # None /\ Fresh(s, asOf)
        readings == {<<s.hash, s.value>> : s \in {s \in enrichment : Counts(s)}}
        values == [i \in DOMAIN SetToSeq(readings) |-> SetToSeq(readings)[i][2]]
    IN  IF readings = {} THEN None ELSE 100 * Band(TwiceMedian(values), 2, GmpBands)

\* The seven factors of inputs whose profile is there: without one nothing
\* is scored at all.
DeriveScoreInput(x, r) ==
    LET Sub(name, t) == RatioSubscore(r[name], t)
        Premium(name, metric) ==
            PremiumSubscore(r[name], PeerValues(x.profile, metric))
    IN  [business_quality |-> Factor(<<Sub("ebitda_margin", EbitdaMarginBands),
                Sub("pat_margin", PatMarginBands), Sub("cfo_to_pat", CfoToPatBands)>>,
                <<Sub("interest_coverage", CoverageBands)>>),
         financial_growth |-> Factor(<<Sub("revenue_cagr", GrowthBands),
                Sub("pat_cagr", GrowthBands)>>, <<>>),
         return_ratios |-> Factor(<<Sub("roe", ReturnBands)>>,
                <<Sub("roce", ReturnBands)>>),
         valuation |-> Factor(<<Premium("price_to_earnings", "pe")>>,
                <<Premium("ev_to_ebitda", "evEbitda")>>),
         qib_subscription |-> QibSubscription(x.subscription),
         promoter_quality |-> PromoterQuality(x.profile),
         gmp_sentiment |-> GmpSentiment(x.enrichment, x.asOf)]

-----------------------------------------------------------------------------
(* The hard caution flags: triggered, not_triggered or not_evaluable.      *)

Triggered(b) == IF b THEN "triggered" ELSE "not_triggered"

EntirelyOfsWeakGrowth(x, r) ==
    LET p == x.profile  growth == r.revenue_cagr
    IN  Triggered(/\ p.fresh <= 0 /\ p.ofs # 0
                  /\ \/ growth.status = "undefined"
                     \/ growth.value # None /\ growth.value < 80000)

VeryExpensiveValuation(x, r) ==
    LET peers == PeerValues(x.profile, "pe")  pe == r.price_to_earnings
    IN  IF pe.status # "computed" \/ peers = <<>> THEN "not_evaluable"
        ELSE Triggered(2 * (2 * pe.value) > 3 * (10000 * TwiceMedian(peers)))

NearClose(issue, asOf) ==
    /\ issue.status \in {"open", "closed"}
    /\ issue.close # None
    /\ asOf >= issue.close - 1

WeakQibTrustingTheWeb(x) ==
    IF ~NearClose(x.issue, x.asOf) THEN "not_evaluable"
    ELSE Triggered(\/ x.subscription = None
                   \/ x.subscription.qib = None
                   \/ x.subscription.qib < 100)

\* A web reading counts as no reading: only an official one clears the flag.
WeakQibDemandNearClose(x) ==
    LET sub == IF x.subscription # None /\ x.subscription.low
               THEN None ELSE x.subscription
    IN  IF ~NearClose(x.issue, x.asOf) THEN "not_evaluable"
        ELSE Triggered(sub = None \/ sub.qib = None \/ sub.qib < 100)

NegativeCfoDespiteProfits(p) == Triggered(p.cfo < 0 /\ p.pat[3] > 0)

\* What the objects of the issue say of debt: the propositions they hold.
DebtPurpose(objects) ==
    LET said == objects \cap {"repays", "repays_not"}
    IN  CASE said = {"repays"} -> "affirmative"
          [] said = {"repays_not"} -> "negative"
          [] said = {"repays", "repays_not"} -> "ambiguous"
          [] said = {} /\ "mentions_debt" \in objects -> "ambiguous"
          [] OTHER -> "missing"

HighDebtWithoutReductionUse(p, r) ==
    LET limit == [debt_to_equity |-> 15000, net_debt_to_ebitda |-> 30000]
        known == {n \in DOMAIN limit : r[n].status = "computed"}
        breach == \E n \in known : r[n].value > limit[n]
    IN  IF known = {} THEN "not_evaluable"
        ELSE Triggered(breach /\ DebtPurpose(p.objects) # "affirmative")

\* Only corroborated official or approved-manual entries can trigger.
LitigationRedFlag(enrichment) ==
    LET entries == {s \in enrichment :
                        s.type = "litigation" /\ s.usable /\ s.clean}
        trusted == {s \in entries : s.trusted}
        matched == \E s \in trusted : s.match
        suspected == \E s \in entries \ trusted : s.match
    IN  CASE matched -> "triggered"
          [] ~matched /\ (suspected \/ trusted = {}) -> "not_evaluable"
          [] OTHER -> "not_triggered"

LossMakingNoPath(p) == Triggered(p.pat[3] < 0 /\ p.pat[3] <= p.pat[2])

EvaluateCautionFlags(x, r) ==
    [entirely_ofs_weak_growth |-> EntirelyOfsWeakGrowth(x, r),
     very_expensive_valuation |-> VeryExpensiveValuation(x, r),
     weak_qib_demand_near_close |-> WeakQibDemandNearClose(x),
     negative_cfo_despite_profits |-> NegativeCfoDespiteProfits(x.profile),
     high_debt_no_reduction_use |-> HighDebtWithoutReductionUse(x.profile, r),
     litigation_red_flag |-> LitigationRedFlag(x.enrichment),
     loss_making_no_path |-> LossMakingNoPath(x.profile)]

-----------------------------------------------------------------------------
(* Score, recommendation and fingerprint.                                  *)

Weights == [business_quality |-> 25, financial_growth |-> 20,
            return_ratios |-> 15, valuation |-> 15, qib_subscription |-> 10,
            promoter_quality |-> 10, gmp_sentiment |-> 5]

OptionalFactors == {"qib_subscription", "gmp_sentiment"}

CriticalFactors == DOMAIN Weights \ OptionalFactors

\* The sum, in hundredths, of the weighted factors, each rounded half up; a
\* missing factor contributes nothing.
ScoreIpo(factors) ==
    LET Contribution(f) == IF factors[f] = None THEN 0
                           ELSE (2 * factors[f] * Weights[f] + 100) \div 200
    IN  Total([f \in DOMAIN Weights |-> Contribution(f)], DOMAIN Weights)

BuildRecommendation(score, missing, triggered) ==
    LET gaps == missing \cap CriticalFactors # {}
        type == CASE gaps -> "insufficient"
                  [] ~gaps /\ (triggered # {} \/ score < 6500) -> "skip"
                  [] ~gaps /\ triggered = {} /\ score \in 6500..7999 -> "listing_gains"
                  [] OTHER -> "hold"
    IN  [type |-> type,
         recommended |-> type \in {"hold", "listing_gains"},
         confidence |-> IF gaps \/ OptionalFactors \subseteq missing THEN "low"
                        ELSE IF missing = {} THEN "high" ELSE "medium"]

IpoAnalysis(factors, flags, score) ==
    [factors |-> factors,
     score |-> score,
     flags |-> flags,
     recommendation |-> BuildRecommendation(score,
        {f \in DOMAIN factors : factors[f] = None},
        {f \in DOMAIN flags : flags[f] = "triggered"})]

AnalysisOf(x, ratios) ==
    LET factors == DeriveScoreInput(x, ratios)
    IN  IpoAnalysis(factors, EvaluateCautionFlags(x, ratios), ScoreIpo(factors))

Verdict(x) == AnalysisOf(x, CalculateIpoRatios(x.profile, x.issue.price))

FingerprintIgnoringAge(x) ==
    [issue |-> x.issue, profile |-> x.profile, subscription |-> x.subscription,
     enrichment |-> {[s EXCEPT !.seen = 0] : s \in {e \in x.enrichment : e.usable}},
     near_close |-> NearClose(x.issue, x.asOf)]

\* The facts the fingerprint hashes.  It leaves out when a signal was seen,
\* but not whether that is recent enough to count, and leaves out today's
\* date, but not whether the book is about to close.
InputsFingerprint(x) ==
    LET Fact(s) == [hash |-> s.hash, type |-> s.type, value |-> s.value,
                    clean |-> s.clean, trusted |-> s.trusted, match |-> s.match,
                    fresh |-> IF s.type = "gmp" THEN Fresh(s, x.asOf) ELSE None]
    IN  [issue |-> x.issue,
         profile |-> x.profile,
         ratios |-> CalculateIpoRatios(x.profile, x.issue.price),
         subscription |-> x.subscription,
         enrichment |-> {Fact(s) : s \in {e \in x.enrichment : e.usable}},
         near_close |-> NearClose(x.issue, x.asOf)]
=============================================================================
