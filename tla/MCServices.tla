------------------------------ MODULE MCServices ------------------------------
EXTENDS IpoScoring, Access, AgentVerdicts, Signals, IpoIntake, IpoCitations, RunHistory

CONSTANT Components    \* the components that move in the run

VARIABLE focus         \* the one that moves in the behaviour

-----------------------------------------------------------------------------
Strong == [revenue |-> <<100, 130, 180>>, pat |-> <<10, 14, 20>>,
    consecutive |-> TRUE, ebitda |-> 50, netWorth |-> 90, debt |-> 20, cash |-> 10,
    cfo |-> 25, shares |-> 10, pbt |-> 28, finance |-> 4, assets |-> 160,
    liabilities |-> 40, postShares |-> 12, holding |-> 65, fresh |-> 80, ofs |-> 20,
    peers |-> <<[pe |-> 70, evEbitda |-> 30], [pe |-> 60, evEbitda |-> None]>>,
    objects |-> {"repays"}]

Indebted == [Strong EXCEPT !.debt = 300, !.objects = {"repays", "repays_not"},
    !.pbt = None]

Failing == [Strong EXCEPT !.pat = <<10, -5, -8>>, !.cfo = -3, !.fresh = 0,
    !.revenue = <<100, 104, 108>>]

MCProfiles == {Strong, Failing}

Listed(status, close, price) ==
    [name |-> "n1", status |-> status, close |-> close, price |-> price]

MCIssueStates == {Listed("rhp_filed", None, 100), Listed("open", 3, 100),
    [Listed("open", 2, None) EXCEPT !.name = "n2"]}

Gmp(hash, value, usable) ==
    [hash |-> hash, type |-> "gmp", value |-> value, usable |-> usable,
     clean |-> TRUE, trusted |-> FALSE, match |-> FALSE]

Litigation(hash, trusted) ==
    [hash |-> hash, type |-> "litigation", value |-> None, usable |-> TRUE,
     clean |-> TRUE, trusted |-> trusted, match |-> TRUE]

MCWebSignals == {Gmp("g1", 45, TRUE), Litigation("l1", FALSE), Litigation("l2", TRUE)}

-----------------------------------------------------------------------------
(* Access: a session is named after its owner.                             *)
MCOwner == [s \in Sessions |-> s]

MCSeededRoles == [ann |-> "admin", bob |-> "admin", eve |-> "viewer"]

MCEnvironments ==
    {[admins |-> {"ann"}, allowed |-> {}, production |-> TRUE],
     [admins |-> {}, allowed |-> {"ann"}, production |-> TRUE],
     [admins |-> {}, allowed |-> {}, production |-> FALSE]}

-----------------------------------------------------------------------------
(* Agent verdicts: two candle contents whose file names collide.           *)
MCSlot(m, x) == 0

-----------------------------------------------------------------------------
(* Signals: the windows of the screeners scaled down, on prices 1 to 9.    *)
Bar(open, high, low, close) ==
    [day |-> 0, open |-> open, high |-> high, low |-> low, close |-> close]

MCShapes == {Bar(4, 4, 2, 2), Bar(2, 4, 2, 3), Bar(4, 5, 3, 3), Bar(3, 8, 3, 7),
             Bar(7, 8, 6, 7), Bar(2, 2, 2, None)}

Dated(bars, days) == [i \in DOMAIN bars |-> [bars[i] EXCEPT !.day = days[i]]]

MCHistories ==
    {Dated(<<Bar(8, 9, 8, 8), Bar(9, 9, 5, 9), Bar(4, 4, 3, 3), Bar(7, 8, 6, 7)>>,
           <<1, 10, 11, 12>>),
     Dated(<<Bar(8, 9, 7, 8), Bar(6, 6, 5, 6), Bar(3, 3, 2, 2)>>, <<4, 8, 12>>),
     Dated(<<Bar(2, 3, 2, 3), Bar(5, 6, 4, 4), Bar(3, 5, 3, 4)>>, <<10, 11, 12>>),
     Dated(<<Bar(9, 9, 9, 9), Bar(9, 9, 8, 8), Bar(8, 8, 4, 4), Bar(4, 6, 5, 6),
             Bar(6, 6, 3, 3), Bar(4, 4, 4, 4)>>, <<2, 3, 9, 10, 11, 12>>)}

MCOpinions == {[pattern |-> "at_support", confirmed |-> FALSE, approved |-> TRUE],
              [pattern |-> "bullish_pattern", confirmed |-> TRUE, approved |-> FALSE],
              [pattern |-> "none", confirmed |-> FALSE, approved |-> FALSE]}

MCParams ==
    [emaPeriod |-> 3, percent |-> <<1, 8>>, exponential |-> TRUE, proximity |-> <<1, 8>>,
     window |-> 4, recentWindow |-> 2, maxRun |-> 3, gain |-> <<1, 2>>, crossWeeks |-> 2,
     rsiPeriod |-> 2, momentumPeriod |-> 1, barsBack |-> 3, recency |-> 1,
     retest |-> <<0, 1>>, left |-> 1, right |-> 1, oversold |-> 40,
     smaPeriod |-> 2, shortPeriod |-> 1, stochK |-> 2, stochSmoothing |-> 1, stochSignal |-> 2,
     stochOversold |-> 60, stochOverbought |-> 40, confirmationDays |-> 1,
     atrPeriod |-> 2, multiplier |-> <<1, 2>>, bbPeriod |-> 3, deviations |-> <<1, 1>>,
     tolerance |-> <<1, 4>>, breakoutLookback |-> 2, lookback |-> 6,
     doubleTolerance |-> <<1, 4>>, minGap |-> <<1, 8>>, cluster |-> <<1, 4>>,
     minTouches |-> 1, drawdown |-> 67, upside |-> 100]

-----------------------------------------------------------------------------
(* Intake: three filings, one of which shares its address with another's.  *)
Filing(category, company, url) ==
    [category |-> category, company |-> company, url |-> url]

MCFilings == <<Filing("drhp", "a", "u1"), Filing("rhp", "b", "u2"), Filing("rhp", "b", "u1")>>

MCLegacy == {<<>>, <<[name |-> "a", key |-> None, status |-> "open"]>>}

Job(kind, from, scan, extract) ==
    [kind |-> kind, from |-> from, scan |-> scan, extract |-> extract,
     wanted |-> None, finished |-> FALSE]

MCJobs == {Job("filings", "default", TRUE, FALSE), Job("filings", "full", TRUE, FALSE),
           Job("screener", "default", TRUE, TRUE),
           [Job("screener", "default", FALSE, FALSE) EXCEPT !.wanted = {1}]}

-----------------------------------------------------------------------------
(* Citations: a prospectus of two pages, and what an agent may read in it. *)
Words(fields, marks) ==
    [fields |-> fields, figures |-> <<>>, years |-> {}, marks |-> marks, caps |-> {},
     names |-> {}, text |-> None, heading |-> FALSE, blank |-> FALSE]

Nothing == [Words({}, {}) EXCEPT !.blank = TRUE, !.heading = TRUE]
Heading == [Words({}, {}) EXCEPT !.heading = TRUE]
Fiscal(year) == [Words({}, {}) EXCEPT !.years = {year}]
Company(name) == [Words({}, {}) EXCEPT !.names = {name}]

Figure(value, field, of, year, unit) ==
    [digits |-> IF value < 0 THEN -value ELSE value, parens |-> value < 0,
     means |-> [field |-> field, of |-> of, year |-> year, unit |-> unit]]

With(span, figures) == [span EXCEPT !.figures = figures]
Lakhs == {"rupees", "lakh", "money in lakh"}

YearRow(field, values) ==
    <<Words({field}, {})>> \o
    [k \in 1..3 |-> With(Words({}, {}),
                         <<Figure(values[k], field, "issuer", 2022 + k, "lakh")>>)]

Statements(revenue) ==
    <<<<Words({}, Lakhs), Nothing, Nothing, Nothing>>,
      <<Heading, Fiscal(2023), Fiscal(2024), Fiscal(2025)>>,
      YearRow("revenue", <<100, 130, revenue>>),
      YearRow("pat", <<-10, 14, 20>>),
      <<Words({"cash"}, {}), With(Words({}, {}), <<Figure(30, "cash", "issuer", None, "lakh")>>)>>,
      <<Words({"cash", "cash_flow_from_operations"}, {}),
        With(Words({}, {}),
             <<Figure(25, "cash_flow_from_operations", "issuer", None, "lakh")>>)>>>>

PeerTable ==
    <<<<Heading, Words({"eps"}, {}), Words({"pe"}, {})>>,
      <<Company("acme"), With(Words({}, {}), <<Figure(5, "eps", "acme", None, None)>>),
        With(Words({}, {}), <<Figure(20, "pe", "acme", None, None)>>)>>>>

Narrative ==
    <<[Words({}, {}) EXCEPT !.text = "repay debt"],
      With(Words({"equity_shares"}, {"shares", "lakh"}),
           <<Figure(10, "equity_shares", "issuer", None, "lakh_shares")>>),
      With(Words({"equity_shares", "post_issue_equity_shares"}, {"shares", "lakh"}),
           <<Figure(12, "post_issue_equity_shares", "issuer", None, "lakh_shares")>>),
      With(Words({"eps"}, {}), <<Figure(2, "eps", "issuer", None, None)>>),
      With(Words({"fresh_issue_amount"}, Lakhs),
           <<Figure(80, "fresh_issue_amount", "issuer", None, "lakh")>>),
      [With(Words({}, {"rupees"}), <<Figure(95, "floor", "issuer", None, None),
                                     Figure(100, "price_band_high", "issuer", None, None)>>)
         EXCEPT !.caps = {100}],
      [With(Words({"revenue", "pat"}, Lakhs),
            <<Figure(180, "revenue", "issuer", 2025, "lakh"),
              Figure(20, "pat", "issuer", 2025, "lakh")>>) EXCEPT !.years = {2025}]>>

MCPapers == <<<<[tables |-> <<Statements(180)>>, lines |-> <<>>],
                [tables |-> <<PeerTable>>, lines |-> Narrative]>>,
              <<[tables |-> <<Statements(190)>>, lines |-> <<>>],
                [tables |-> <<PeerTable>>, lines |-> Narrative]>>>>

MCYearOf(day) == day \div 365
MCKeyOf(name) == name

Cited(value, p) == [value |-> value, page |-> p]
Period(k, field) == <<"period", k, field>>
Value(field) == <<"value", field>>

Reading ==
    [financialUnit |-> "lakh", issueUnit |-> "lakh", shareUnit |-> "lakh_shares",
     financialPage |-> 1, issuePage |-> 2, sharePage |-> 2,
     ends |-> [k \in 1..3 |-> 365 * (2022 + k) + 90],
     objects |-> "repay debt", objectsPage |-> 2,
     figures |->
        Period(1, "revenue") :> Cited(100, 1) @@ Period(2, "revenue") :> Cited(130, 1) @@
        Period(3, "revenue") :> Cited(180, 1) @@ Period(1, "pat") :> Cited(-10, 1) @@
        Period(2, "pat") :> Cited(14, 1) @@ Period(3, "pat") :> Cited(20, 1) @@
        Value("cash") :> Cited(30, 1) @@ Value("cash_flow_from_operations") :> Cited(25, 1) @@
        Value("equity_shares") :> Cited(10, 2) @@
        Value("post_issue_equity_shares") :> Cited(12, 2) @@ Value("eps") :> Cited(2, 2) @@
        Value("fresh_issue_amount") :> Cited(80, 2) @@ PriceBandHigh :> Cited(100, 2) @@
        <<"peer", "acme", "eps">> :> Cited(5, 2) @@ <<"peer", "acme", "pe">> :> Cited(20, 2)]

Misread(label, value, p) == [Reading EXCEPT !.figures[label] = Cited(value, p)]

WithoutBand ==
    [Reading EXCEPT !.figures = Restrict(@, DOMAIN @ \ {PriceBandHigh})]

MCDrafts ==
    {Reading, WithoutBand, [Reading EXCEPT !.financialUnit = "crore"],
     [Reading EXCEPT !.ends[3] = @ + 1], [Reading EXCEPT !.objects = "acquire"]}
    \cup {Misread(Period(3, "revenue"), 190, 1), Misread(Period(3, "pat"), 180, 2),
          Misread(Period(2, "revenue"), 100, 1), Misread(Period(1, "pat"), 10, 1),
          Misread(Value("cash"), 25, 1), Misread(Value("equity_shares"), 12, 2),
          Misread(Value("fresh_issue_amount"), 81, 2), Misread(PriceBandHigh, 95, 2),
          Misread(<<"peer", "acme", "eps">>, 20, 2), Misread(Value("eps"), 2, 3)}

OldProposal(draft, schema) ==
    [payload |-> [draft |-> draft, schema |-> schema,
                  facts |-> CitedFinancialFacts(draft, MCPapers[1], 1),
                  text |-> CitedTextEvidence(draft, MCPapers[1], 1)],
     sha |-> 1, confidence |-> "high", status |-> "pending"]

MCLegacyQueues ==
    {<<>>, <<OldProposal(WithoutBand, "v2")>>, <<OldProposal(Reading, "v2")>>,
     <<OldProposal(Reading, "v1")>>}

-----------------------------------------------------------------------------
(* History: two symbols of a universe; a third is not mapped.              *)
Quote(price, volume) == [open |-> 10, close |-> price, volume |-> volume]

MCNextQuotes ==
    {[tata |-> Quote(13, 9), infy |-> Quote(8, 4), new |-> None],
     [tata |-> Quote(8, None), infy |-> None, new |-> Quote(13, 9)],
     [tata |-> Quote(None, 1), infy |-> Quote(11, 1), new |-> Quote(9, 1)]}

MCFirstQuotes ==
    [s \in Symbols |->
        <<[day |-> 1, open |-> 10, close |-> 10, volume |-> IF s = "tata" THEN 3 ELSE 2],
          [day |-> 2, open |-> 10, close |-> 12, volume |-> 2]>>]

Emitted(symbol, signal, confidence, distance) ==
    [symbol |-> symbol, signal |-> signal, confidence |-> confidence, upside |-> None,
     distance |-> distance, score |-> None,
     provenance |-> [source |-> "ai", rules |-> {"rule"}, indicators |-> {"close"},
                     dated |-> None]]

MCEmissions ==
    {<<>>,
     <<Emitted("tata", 2, 7, None), Emitted("infy", 2, 5, None)>>,
     <<Emitted("infy", 2, 9, None), [Emitted("tata", 2, 6, None) EXCEPT !.provenance = None]>>,
     <<Emitted("infy", 2, None, 3), Emitted("infy", None, None, 1), Emitted("new", 3, 4, None)>>,
     <<[Emitted("tata", 1, None, None) EXCEPT !.upside = 20, !.provenance.source = "web"]>>}

MCSteadiness(closes) ==
    LET spread == Max(Range(closes)) - Min(Range(closes))
    IN Int2Frac(IF spread > 10 THEN 0 ELSE 100 - 10 * spread)
MCLogScale(x) == x
MCDecay(age) == Frac(100, age + 1)
MCMonthOf(day) == (day + 1) \div 2
MCSectorOf == [tata |-> "steel"]
MCWeights == [technical |-> 2, risk |-> 1, liquidity |-> 1, freshness |-> 0]

Listing3(mapped) == [i \in DOMAIN mapped |-> [name |-> mapped[i][1], mapped |-> mapped[i][2]]]
ValidFile(mapped) == [state |-> "valid", rows |-> Listing3(mapped)]

MCUniverseFiles ==
    {[state |-> "missing", rows |-> <<>>], [state |-> "unreadable", rows |-> <<>>],
     ValidFile(<<<<1, TRUE>>, <<2, TRUE>>, <<3, TRUE>>>>),
     ValidFile(<<<<1, TRUE>>, <<2, FALSE>>, <<3, TRUE>>>>),
     ValidFile(<<<<1, FALSE>>, <<2, FALSE>>, <<3, TRUE>>>>),
     ValidFile(<<<<1, FALSE>>, <<2, FALSE>>, <<3, FALSE>>>>),
     ValidFile(<<<<1, FALSE>>, <<0, FALSE>>, <<3, TRUE>>>>)}

-----------------------------------------------------------------------------
Init ==
    /\ focus \in Components
    /\ ScoringInit
    /\ AccessInit
    /\ AgentInit
    /\ SignalInit
    /\ IntakeInit
    /\ CitationInit
    /\ HistoryInit
    /\ focus # "agents" => page = None
    /\ focus # "scoring" => ipoProfile = None
    /\ focus # "intake" => issueRows = <<>> /\ \A f \in DOMAIN listed : listed[f] = None
    /\ focus # "citations" => queue = <<>>

Next ==
    /\ UNCHANGED focus
    /\ \/ /\ focus = "scoring" /\ ScoringNext
          /\ UNCHANGED <<AccessVars, AgentVars, SignalVars, IntakeVars,
                         CitationVars, HistoryVars>>
       \/ /\ focus = "access" /\ AccessNext
          /\ UNCHANGED <<ScoringVars, AgentVars, SignalVars, IntakeVars,
                         CitationVars, HistoryVars>>
       \/ /\ focus = "agents" /\ AgentNext
          /\ UNCHANGED <<ScoringVars, AccessVars, SignalVars, IntakeVars,
                         CitationVars, HistoryVars>>
       \/ /\ focus = "signals" /\ SignalNext
          /\ UNCHANGED <<ScoringVars, AccessVars, AgentVars, IntakeVars,
                         CitationVars, HistoryVars>>
       \/ /\ focus = "intake" /\ IntakeNext
          /\ UNCHANGED <<ScoringVars, AccessVars, AgentVars, SignalVars,
                         CitationVars, HistoryVars>>
       \/ /\ focus = "citations" /\ CitationNext
          /\ UNCHANGED <<ScoringVars, AccessVars, AgentVars, SignalVars,
                         IntakeVars, HistoryVars>>
       \/ /\ focus = "history" /\ HistoryNext
          /\ UNCHANGED <<ScoringVars, AccessVars, AgentVars, SignalVars,
                         IntakeVars, CitationVars>>
       \/ /\ focus = "universe health" /\ UniverseHealthNext
          /\ UNCHANGED <<ScoringVars, AccessVars, AgentVars, SignalVars,
                         IntakeVars, CitationVars>>

vars == <<focus, ScoringVars, AccessVars, AgentVars, SignalVars,
          IntakeVars, CitationVars, HistoryVars>>
Spec == Init /\ [][Next]_vars

-----------------------------------------------------------------------------
\* The shape of the state of every service: what the tables' constraints and the
\* checks of the writers leave possible (the invariants of that name say which).
ServicesTypeOK ==
    /\ ScoringTypeOK
    /\ AccessTypeOK
    /\ AgentTypeOK
    /\ SignalTypeOK
    /\ IntakeTypeOK
    /\ CitationTypeOK
    /\ HistoryTypeOK

Sym == Permutations(Rescorers) \cup Permutations(Calls)
=============================================================================
