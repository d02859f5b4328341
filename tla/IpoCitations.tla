---------------------------- MODULE IpoCitations -----------------------------
(***************************************************************************)
(* What makes an extraction proposal evidence: every figure the agent      *)
(* drafts cites a page, and ipo/agents/financial_extractor.py resolves it  *)
(* there, in one row or line that names the field, the fiscal period and   *)
(* the unit.  ipo/repository.py checks the receipts of that search twice   *)
(* more, when the proposal is queued and when it is approved.              *)
(*                                                                         *)
(* A page is its tables and its text lines, made of spans: what the        *)
(* patterns of the extractor find in a cell or line, and the figures       *)
(* printed in it, each with what it really means.  The operations are one  *)
(* step each; IpoEvidence interleaves their transactions, and models the   *)
(* bytes of the cached file.                                               *)
(***************************************************************************)
EXTENDS Common, Integers, Sequences, SequencesExt, FiniteSetsExt

CONSTANTS Papers,        \* Papers[v]: the pages of the document's v-th content
          Drafts,        \* what the agent may answer, shapes as in ProposalModel
          PeriodFields,  \* figures of a fiscal year: revenue, pat, ...
          ValueFields,   \* figures of the whole prospectus
          YearOf(_),     \* the year of a date, a day number
          KeyOf(_),      \* _company_key
          LegacyQueues,  \* queues an earlier release may have left
          Prices,        \* what an administrator may record as ends of the price band
          MaxQueue       \* bound on the proposals of a behaviour

ASSUME CitationAssumption ==
    /\ 1 \in DOMAIN Papers /\ MaxQueue \in Nat
    /\ \A rows \in LegacyQueues :
        /\ rows \in Seq(ToSet(rows))
        /\ \A i \in DOMAIN rows :
            /\ DOMAIN rows[i] = {"payload", "sha", "confidence", "status"}
            /\ rows[i].payload.schema \in {"v1", "v2"}
            /\ rows[i].status \in {"pending", "rejected"}
            /\ rows[i].confidence \in {"low", "medium", "high"}
            /\ rows[i].sha \in DOMAIN Papers
            /\ \A j \in DOMAIN rows \ {i} :
                /\ rows[i].status # "pending" \/ rows[j].status # "pending"
                /\ <<rows[i].sha, rows[i].payload>> # <<rows[j].sha, rows[j].payload>>

VARIABLES
    paper,       \* the content of the cached document, by its SHA-256
    verified,    \* the extraction between its check and its submission, or None
    queue,       \* ipo_extraction_proposals of the document
    band,        \* price_band_low and price_band_high of the issue
    revisions    \* the drafts approved into ipo_manual_extractions, with their SHA

CitationVars == <<paper, verified, queue, band, revisions>>

-----------------------------------------------------------------------------
(* The draft: figures by label, units, fiscal year ends, objects of the    *)
(* issue.                                                                  *)

AmountUnits == {"inr", "thousand", "lakh", "million", "crore"}
ShareUnits  == {"shares", "thousand_shares", "lakh_shares", "million_shares", "crore_shares"}
PeerMetrics == {"eps", "pe", "nav_book_value", "ronw", "ev_ebitda", "price_sales"}

FinancialAmountFields ==
    {"net_worth", "total_debt", "cash", "cash_flow_from_operations", "total_assets",
     "current_liabilities"}
IssueAmountFields == {"fresh_issue_amount", "ofs_amount"}
ShareCountFields  == {"equity_shares", "post_issue_equity_shares"}

PriceBandHigh == <<"price_band_high">>
Required == {<<"period", k, f>> : k \in 1..3, f \in PeriodFields}
            \cup {<<"value", f>> : f \in ValueFields}

Labels(d)   == DOMAIN d.figures
FieldOf(l)  == Last(l)
IsPeer(l)   == Head(l) = "peer"
Peers(d)    == {l[2] : l \in {m \in Labels(d) : IsPeer(m)}}
CitedPages(d) == {d.figures[l].page : l \in Labels(d)} \cup {d.objectsPage}
UnitPages(d)  == {d.financialPage, d.issuePage, d.sharePage}

WellShapedPeriods(d) ==
    \A k \in 1..2 : d.ends[k + 1] - d.ends[k] \in {365, 366}

ProposalModel(d) ==
    /\ Required \subseteq Labels(d)
    /\ \A p \in CitedPages(d) \cup UnitPages(d) : p >= 1
    /\ d.financialUnit \in AmountUnits /\ d.issueUnit \in AmountUnits
    /\ d.shareUnit \in ShareUnits
    /\ WellShapedPeriods(d)
    /\ Peers(d) # {}
    /\ \A l \in Labels(d) : IsPeer(l) => FieldOf(l) \in PeerMetrics
    /\ PriceBandHigh \in Labels(d) => d.figures[PriceBandHigh].value > 0
    /\ d.objects # None

FactUnit(d, l) ==
    CASE Head(l) = "period"                     -> d.financialUnit
      [] l \in {<<"value", f>> : f \in FinancialAmountFields} -> d.financialUnit
      [] l \in {<<"value", f>> : f \in IssueAmountFields}     -> d.issueUnit
      [] l \in {<<"value", f>> : f \in ShareCountFields}      -> d.shareUnit
      [] OTHER                                  -> None

FactPeriod(d, l) == IF Head(l) = "period" THEN d.ends[l[2]] ELSE None

-----------------------------------------------------------------------------
(* The spans of a page.                                                    *)

Joined(spans) ==
    [fields |-> UNION {s.fields : s \in spans}, years |-> UNION {s.years : s \in spans},
     marks |-> UNION {s.marks : s \in spans}, caps |-> UNION {s.caps : s \in spans},
     names |-> UNION {s.names : s \in spans}]

\* "cash" is not "cash flow from operations", nor "equity shares" the post-issue count.
MoreSpecific == [cash |-> "cash_flow_from_operations",
                 equity_shares |-> "post_issue_equity_shares"]
SemanticFields(span) ==
    {f \in span.fields : f \in DOMAIN MoreSpecific => MoreSpecific[f] \notin span.fields}

\* A figure in parentheses is negative.
Parsed(token) == IF token.parens THEN -token.digits ELSE token.digits
Tokens(span, value) == {i \in DOMAIN span.figures : Parsed(span.figures[i]) = value}

AnyRowWithTheField(l, span) ==
    CASE IsPeer(l)         -> l[2] \in span.names
      [] l = PriceBandHigh -> span.caps # {}
      [] OTHER             -> FieldOf(l) \in SemanticFields(span)

\* A row or line that names several fields binds none of its figures.
NamesField(l, span) ==
    CASE IsPeer(l)         -> l[2] \in span.names
      [] l = PriceBandHigh -> span.caps # {}
      [] OTHER             -> SemanticFields(span) = {FieldOf(l)}

NamesMetric(l, span, header) ==
    IsPeer(l) => {FieldOf(l)} \in {SemanticFields(span), SemanticFields(header)}

\* The band's floor is printed too: only a stated cap is one.
IsCap(l, value, span) == l = PriceBandHigh => value \in span.caps

ScaleOf == [thousand_shares |-> "thousand", lakh_shares |-> "lakh",
            million_shares |-> "million", crore_shares |-> "crore"]
Scales == Range(ScaleOf)
MoneyIn == [thousand |-> "money in thousand", lakh |-> "money in lakh",
            million |-> "money in million", crore |-> "money in crore"]

\* Marks of a text: "rupees", "shares", a scale, and the scale of its amounts.
ShowsAmountUnit(marks, unit) ==
    IF unit = "inr" THEN "rupees" \in marks /\ marks \cap Scales = {}
    ELSE unit \in marks /\ MoneyIn[unit] \in marks

ShowsUnit(marks, unit) ==
    CASE unit = None          -> TRUE
      [] unit \in AmountUnits -> ShowsAmountUnit(marks, unit)
      [] unit = "shares"      -> "shares" \in marks /\ marks \cap Scales = {}
      [] OTHER                -> /\ "shares" \in marks /\ ScaleOf[unit] \in marks
                                 /\ ~ShowsAmountUnit(marks, ScaleOf[unit])

-----------------------------------------------------------------------------
(* Tables: sequences of rows of cells, of which the first rows are header. *)

StartsData(row) ==
    LET later == {row[c] : c \in 2..Len(row)}
    IN /\ \E s \in later : s.figures # <<>> \/ s.years # {}
       /\ SemanticFields(Joined(Range(row))) # {} \/ ~row[1].heading

HeaderRows(table) ==
    {r \in DOMAIN table : \A q \in 1..r : ~StartsData(table[q])}

ColumnHeader(table, c) == Joined({table[r][c] : r \in {q \in HeaderRows(table) : c <= Len(table[q])}})

\* A header row of one cell, a caption, is about every column.
HeaderMarks(row, c) ==
    LET filled == {i \in DOMAIN row : ~row[i].blank}
    IN CASE Cardinality(filled) = 1                 -> UNION {row[i].marks : i \in filled}
         [] Cardinality(filled) # 1 /\ c <= Len(row) -> row[c].marks
         [] OTHER                                   -> {}

ValueMarks(table, r, c) ==
    UNION {HeaderMarks(table[q], c) : q \in HeaderRows(table)} \cup Joined(Range(table[r])).marks

CellBinds(d, l, table, r, c) ==
    LET value == d.figures[l].value
        row   == Joined(Range(table[r]))
    IN /\ NamesField(l, row)
       /\ Tokens(table[r][c], value) # {}
       /\ NamesMetric(l, table[r][c], ColumnHeader(table, c))
       /\ IsCap(l, value, row)
       /\ FactPeriod(d, l) # None => YearOf(FactPeriod(d, l)) \in ColumnHeader(table, c).years
       /\ ShowsUnit(ValueMarks(table, r, c), FactUnit(d, l))

\* The line before counts as context when no figure is printed in it.
LineMarks(lines, n) ==
    lines[n].marks \cup IF n > 1 /\ lines[n - 1].figures = <<>> THEN lines[n - 1].marks ELSE {}

LineBinds(d, l, lines, n) ==
    LET value == d.figures[l].value
    IN /\ NamesField(l, lines[n])
       /\ NamesMetric(l, lines[n], Joined({}))
       /\ Tokens(lines[n], value) # {}
       /\ IsCap(l, value, lines[n])
       /\ FactPeriod(d, l) # None => YearOf(FactPeriod(d, l)) \in lines[n].years
       /\ ShowsUnit(LineMarks(lines, n), FactUnit(d, l))

\* Places in reading order: the cells of the tables, then the text, as a last table.
TextTable(page) == Len(page.tables) + 1
Places(page) ==
    UNION {UNION {{<<t, r, c>> : c \in DOMAIN page.tables[t][r]} :
                  r \in DOMAIN page.tables[t]} : t \in DOMAIN page.tables}
    \cup {<<TextTable(page), n, 1>> : n \in DOMAIN page.lines}
SpanAt(page, x) ==
    IF x[1] = TextTable(page) THEN page.lines[x[2]] ELSE page.tables[x[1]][x[2]][x[3]]
Before(x, y) == \E i \in 1..3 : x[i] < y[i] /\ \A j \in 1..(i - 1) : x[j] = y[j]

Sources(d, l, page) ==
    {x \in Places(page) :
        IF x[1] = TextTable(page) THEN LineBinds(d, l, page.lines, x[2])
        ELSE CellBinds(d, l, page.tables[x[1]], x[2], x[3])}

First(places) == CHOOSE x \in places : \A y \in places \ {x} : Before(x, y)

MatchingTextSource(d, page) == {x \in Places(page) : SpanAt(page, x).text = d.objects}

-----------------------------------------------------------------------------
(* _verify_proposal, and the receipts of what it found.                    *)

CoreLabels == {<<"period", 3, f>> : f \in {"revenue", "ebitda", "pat"}}
              \cup {<<"value", f>> : f \in {"net_worth", "equity_shares", "eps"}}

Found(d, pages) == {l \in Labels(d) : Sources(d, l, pages[d.figures[l].page]) # {}}

InRange(d, pages) == CitedPages(d) \cup UnitPages(d) \subseteq DOMAIN pages

\* high, medium, or None where the code raises.
Confidence(missing, total) ==
    CASE missing = {} -> "high"
      [] missing # {} /\ 10 * (total - Cardinality(missing)) >= 9 * total
                      /\ missing \cap CoreLabels = {} -> "medium"
      [] OTHER -> None

VerifyProposal(d, pages) ==
    IF ~InRange(d, pages) \/ MatchingTextSource(d, pages[d.objectsPage]) = {} THEN None
    ELSE Confidence(Labels(d) \ Found(d, pages), Cardinality(Labels(d)))

FactAt(d, l, page, sha, place) ==
    LET span == SpanAt(page, place)
    IN [label |-> l, value |-> d.figures[l].value, unit |-> FactUnit(d, l),
        period |-> FactPeriod(d, l), sha |-> sha, page |-> d.figures[l].page,
        place |-> place, token |-> span.figures[Min(Tokens(span, d.figures[l].value))]]

Fact(d, l, page, sha) == FactAt(d, l, page, sha, First(Sources(d, l, page)))

CitedFinancialFacts(d, pages, sha) ==
    {Fact(d, l, pages[d.figures[l].page], sha) : l \in Found(d, pages)}

CitedTextEvidence(d, pages, sha) ==
    [sha |-> sha, page |-> d.objectsPage, text |-> d.objects,
     place |-> First(MatchingTextSource(d, pages[d.objectsPage]))]

\* verify_cited_receipts_against_pages: the same search must give the same receipts.
ReceiptsResolve(payload, pages, sha) ==
    LET d == payload.draft
    IN /\ ProposalModel(d) /\ InRange(d, pages)
       /\ Found(d, pages) = Labels(d)
       /\ payload.facts = CitedFinancialFacts(d, pages, sha)
       /\ MatchingTextSource(d, pages[d.objectsPage]) # {}
       /\ payload.text = CitedTextEvidence(d, pages, sha)

-----------------------------------------------------------------------------
(* The repository's own reading of a payload.                              *)

\* _expected_cited_facts for one label, and the complete binding of the facts to it.
ExpectedFact(d, f) ==
    /\ f.value = d.figures[f.label].value /\ f.page = d.figures[f.label].page
    /\ f.period = FactPeriod(d, f.label) /\ f.unit = FactUnit(d, f.label)
    /\ Parsed(f.token) = f.value

CitedFactBinding(payload, sha) ==
    /\ payload.schema \in {"v2", "v3"}
    /\ payload.schema = "v2" => PriceBandHigh \notin Labels(payload.draft)
    /\ {f.label : f \in payload.facts} = Labels(payload.draft)
    /\ Cardinality(payload.facts) = Cardinality(Labels(payload.draft))
    /\ \A f \in payload.facts : f.sha = sha /\ ExpectedFact(payload.draft, f)
    /\ payload.text.sha = sha /\ payload.text.page = payload.draft.objectsPage
    /\ payload.text.text = payload.draft.objects

NonNegative == {"revenue", "finance_cost", "total_debt", "cash", "equity_shares",
                "fresh_issue_amount", "ofs_amount", "promoter_holding_pre_issue",
                "promoter_holding_post_issue", "total_assets", "current_liabilities",
                "post_issue_equity_shares"}
Holdings == {"promoter_holding_pre_issue", "promoter_holding_post_issue"}

\* IpoManualExtractionData: what an administrator's own entry must satisfy too.
ManualPeriods(d) ==
    \A l \in {m \in Required : Head(m) = "period"} :
        FieldOf(l) \in NonNegative => d.figures[l].value >= 0

ManualPeers(d) ==
    \A l \in {m \in Labels(d) : IsPeer(m)} : KeyOf(l[2]) # None /\ FieldOf(l) \in PeerMetrics

ManualData(d) ==
    /\ ManualPeriods(d) /\ Peers(d) # {} /\ ManualPeers(d)
    /\ \A l \in Required :
        LET v == d.figures[l].value
        IN /\ FieldOf(l) \in NonNegative => v >= 0
           /\ FieldOf(l) \in ShareCountFields => v > 0
           /\ FieldOf(l) \in Holdings => v <= 100
    /\ \A k \in 1..2 : YearOf(d.ends[k + 1]) = YearOf(d.ends[k]) + 1
    /\ \A p \in Peers(d), q \in Peers(d) : KeyOf(p) = KeyOf(q) => p = q

-----------------------------------------------------------------------------
IsPending(i) == queue[i].status = "pending"
Fingerprint(p) == <<p.sha, p.payload>>

CitationInit ==
    /\ paper = 1 /\ verified = None /\ revisions = {}
    /\ queue \in LegacyQueues
    /\ band = [low |-> None, high |-> None]

\* propose_extraction up to parse_with_retry: an attempt that fails leaves nothing.
Propose(d) ==
    /\ verified = None /\ Len(queue) < MaxQueue
    /\ \A i \in DOMAIN queue : ~IsPending(i)
    /\ ProposalModel(d)
    /\ \E confidence \in {VerifyProposal(d, Papers[paper])} \ {None} :
        verified' = [draft |-> d, sha |-> paper, confidence |-> confidence]
    /\ UNCHANGED <<paper, queue, band, revisions>>

PayloadFromModel ==
    [draft |-> verified.draft, schema |-> "v3",
     facts |-> CitedFinancialFacts(verified.draft, Papers[verified.sha], verified.sha),
     text |-> CitedTextEvidence(verified.draft, Papers[verified.sha], verified.sha)]

SubmittableWithoutItsReceipts(payload) ==
    /\ ManualData(payload.draft)
    /\ verified.sha = paper
    /\ \A i \in DOMAIN queue :
        ~IsPending(i) /\ Fingerprint(queue[i]) # <<verified.sha, payload>>

Submittable(payload) ==
    /\ ManualData(payload.draft)
    /\ CitedFactBinding(payload, verified.sha)
    /\ verified.sha = paper
    /\ \A i \in DOMAIN queue :
        ~IsPending(i) /\ Fingerprint(queue[i]) # <<verified.sha, payload>>
    /\ ReceiptsResolve(payload, Papers[paper], verified.sha)

Queued(payload) ==
    IF Submittable(payload)
    THEN Append(queue, [payload |-> payload, sha |-> verified.sha,
                        confidence |-> verified.confidence, status |-> "pending"])
    ELSE queue

\* submit_extraction_proposal, which the extractor calls.
Submit ==
    /\ verified # None
    /\ verified' = None
    /\ queue' = Queued(PayloadFromModel)
    /\ UNCHANGED <<paper, band, revisions>>

\* The proposal's document is downloaded again with other bytes.
NewContent ==
    /\ \E v \in DOMAIN Papers \ {paper} : paper' = v
    /\ UNCHANGED <<verified, queue, band, revisions>>

\* update_issue by an administrator: both ends, and not upside down.
UpdateBand ==
    /\ \E low, high \in Prices \cup {None} :
        /\ low # None /\ high # None => low <= high
        /\ band' = [low |-> low, high |-> high]
    /\ UNCHANGED <<paper, verified, queue, revisions>>

CapOf(d) ==
    IF PriceBandHigh \in Labels(d) THEN d.figures[PriceBandHigh].value ELSE None

\* The floor of the issue is an administrator's, the cap is the draft's.
UnderTheFloor(d) == CapOf(d) # None /\ band.low # None /\ ~(band.low <= CapOf(d))

\* The bytes, the shape and the receipts are still what was submitted.
ReceiptsStand(p) ==
    /\ CitedFactBinding(p.payload, p.sha)
    /\ p.sha = paper
    /\ ManualData(p.payload.draft)
    /\ ReceiptsResolve(p.payload, Papers[paper], p.sha)

Approvable(p) == ReceiptsStand(p) /\ ~UnderTheFloor(p.payload.draft)

\* _proposal_payload_to_manual_data, of a payload that passes ManualData.
ManualRevision(p) == [draft |-> p.payload.draft, sha |-> p.sha]

ApproveUnderTheFloor(i) ==
    LET d == queue[i].payload.draft
    IN /\ IsPending(i) /\ ReceiptsStand(queue[i])
       /\ revisions' = revisions \cup {ManualRevision(queue[i])}
       /\ band' = IF CapOf(d) = None THEN band ELSE [band EXCEPT !.high = CapOf(d)]
       /\ queue' = [queue EXCEPT ![i].status = "approved"]
       /\ UNCHANGED <<paper, verified>>

\* approve_extraction_proposal: one revision, the cap price, and the decision together.
Approve(i) ==
    LET d == queue[i].payload.draft
    IN /\ IsPending(i) /\ Approvable(queue[i])
       /\ revisions' = revisions \cup {ManualRevision(queue[i])}
       /\ band' = IF CapOf(d) = None THEN band ELSE [band EXCEPT !.high = CapOf(d)]
       /\ queue' = [queue EXCEPT ![i].status = "approved"]
       /\ UNCHANGED <<paper, verified>>

\* auto_approve_ready_proposals, on each proposal it does not skip.
AutoApprove ==
    \E i \in DOMAIN queue : queue[i].confidence = "high" /\ Approve(i)

Reject(i) ==
    /\ IsPending(i)
    /\ queue' = [queue EXCEPT ![i].status = "rejected"]
    /\ UNCHANGED <<paper, verified, band, revisions>>

CitationNext ==
    \/ \E d \in Drafts : Propose(d)
    \/ Submit
    \/ NewContent
    \/ UpdateBand
    \/ \E i \in DOMAIN queue : Approve(i) \/ Reject(i)
    \/ AutoApprove

CitationSpec == CitationInit /\ [][CitationNext]_CitationVars

-----------------------------------------------------------------------------
\* An ipo_extraction_proposals row.
ProposalRow(i) ==
    /\ queue[i].status \in {"pending", "approved", "rejected"}
    /\ queue[i].confidence \in {"low", "medium", "high"}
    /\ queue[i].payload.schema \in {"v1", "v2", "v3"}
    /\ queue[i].sha \in DOMAIN Papers
    /\ queue[i].status = "approved" => ManualRevision(queue[i]) \in revisions
    /\ \A j \in DOMAIN queue \ {i} :
        /\ ~(IsPending(i) /\ IsPending(j))
        /\ Fingerprint(queue[i]) # Fingerprint(queue[j])

\* The shape of the queue and of the band: one pending proposal per document, no two
\* alike, and a cap that is not below the floor.
CitationTypeOK ==
    /\ paper \in DOMAIN Papers
    /\ verified = None \/ verified.confidence \in {"medium", "high"}
    /\ \A i \in DOMAIN queue : ProposalRow(i)
    /\ band.low # None /\ band.high # None => band.low <= band.high

(* What a token of a page really means is known to the model alone.        *)
Meant(d, l) == [field |-> FieldOf(l), of |-> IF IsPeer(l) THEN l[2] ELSE "issuer",
                year |-> IF FactPeriod(d, l) = None THEN None ELSE YearOf(FactPeriod(d, l)),
                unit |-> FactUnit(d, l)]

Printed(d, l, sha) ==
    \E x \in Places(Papers[sha][d.figures[l].page]) :
        \E t \in Range(SpanAt(Papers[sha][d.figures[l].page], x).figures) :
            Parsed(t) = d.figures[l].value /\ t.means = Meant(d, l)

\* An approved figure is printed on the page it cites, as that field of that year,
\* company and unit.
ApprovedIsPrinted == \A r \in revisions : \A l \in Labels(r.draft) : Printed(r.draft, l, r.sha)

\* The queue "can never hold a proposal that would be impossible to approve"
\* (submit_extraction_proposal), as far as the code keeps it: while the bytes of its
\* document are the same, nothing but a floor above its cap refuses a pending proposal
\* of this release.  The submission does not look at the floor.
QueueIsApprovable ==
    \A i \in DOMAIN queue :
        IsPending(i) /\ queue[i].sha = paper /\ queue[i].payload.schema = "v3"
            => IF UnderTheFloor(queue[i].payload.draft) THEN ReceiptsStand(queue[i])
                                                        ELSE Approvable(queue[i])

\* Whatever the agent answers and however the document changes meanwhile.
EvidenceIsPrinted == ApprovedIsPrinted /\ QueueIsApprovable
=============================================================================
