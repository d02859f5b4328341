------------------------------ MODULE IpoIntake -------------------------------
(***************************************************************************)
(* The two IPO jobs: scan_ipo_filings, which pages through SEBI's listings *)
(* of each category and stores what is new, and run_ipo_screener, which    *)
(* scans, downloads, enriches, extracts and rescores issue by issue.       *)
(*                                                                         *)
(* A page is read at a time while SEBI lists more; the filings of one      *)
(* category are stored in one transaction.  A title, its company key and   *)
(* its name are one value, a fingerprint is the tuple it digests, and the  *)
(* date filter sent to SEBI is not trusted, as in the code.                *)
(***************************************************************************)
EXTENDS Common, Integers, Sequences, SequencesExt, FiniteSetsExt

CONSTANTS Filings,         \* sequence of what SEBI may list: [category, company, url]
          Lateness,        \* by how many days a listing may be dated back
          Legacy,          \* tables of hand-entered issues a behaviour may begin with
          Overlap,         \* days a run reads again
          FirstWindow,     \* days an empty database reads
          PageSize,
          MaxPages,
          Budget,          \* issues one run may enrich
          Jobs,            \* [kind, from, wanted, finished, extract] of a run
          LastIntakeDay,
          MaxIntake        \* bound on listings, days, edits and runs together

Categories == <<"drhp", "rhp", "final_offer">>

StatusOf == [drhp |-> "drhp_filed", rhp |-> "rhp_filed", final_offer |-> "closed"]

StatusOrder == [drhp_filed |-> 0, rhp_filed |-> 1, open |-> 2, closed |-> 3, listed |-> 4]

Upcoming == {"drhp_filed", "rhp_filed", "open"}

ASSUME IntakeAssumption ==
    /\ Overlap \in Nat /\ FirstWindow \in Nat /\ PageSize \in Nat \ {0}
    /\ MaxPages \in Nat /\ Budget \in Nat /\ LastIntakeDay \in Nat \ {0}
    /\ MaxIntake \in Nat /\ Lateness \subseteq Nat /\ None \notin Nat
    /\ Filings \in Seq(ToSet(Filings))
    /\ \A f \in DOMAIN Filings :
            Filings[f].category \in DOMAIN StatusOf /\ Filings[f].company # None
    /\ \A rows \in Legacy :
        /\ rows \in Seq(ToSet(rows))
        /\ \A i \in DOMAIN rows :
            /\ DOMAIN rows[i] = {"name", "key", "status"}
            /\ rows[i].key = None /\ rows[i].status \in DOMAIN StatusOrder
    /\ \A job \in Jobs :
            job.kind \in {"filings", "screener"} /\ job.from \in {"default", "full"}

VARIABLES
    listed,      \* the date SEBI gives each filing, or None
    issueRows,   \* ipo_issues in id order: [name, key, status]
    documents,   \* ipo_documents: [issue, company, category, url, filed, file]
    intake,      \* the run under way, or None
    lastExit,    \* the exit code of the run that ended last, or None
    owed,        \* filings in the window of a category that failed, not stored since
    today,
    intakeMoves

IntakeVars == <<listed, issueRows, documents, intake, lastExit, owed, today, intakeMoves>>

-----------------------------------------------------------------------------
(* SEBI's listing of a category, newest first, cut into pages.             *)

\* The members of a set, each after those that come before it.
Arranged(set, before) ==
    [n \in 1..Cardinality(set) |->
        CHOOSE x \in set : Cardinality({y \in set : <<y, x>> \in before}) = n - 1]

OnTheSite == {f \in DOMAIN Filings : listed[f] # None}

Newest ==
    {p \in OnTheSite \X OnTheSite :
        \/ listed[p[1]] > listed[p[2]]
        \/ listed[p[1]] = listed[p[2]] /\ p[1] > p[2]}

ListedIn(category) == {f \in OnTheSite : Filings[f].category = category}

Listing(category) == Arranged(ListedIn(category), Newest)

PageCount(category) == Max({1, (Len(Listing(category)) + PageSize - 1) \div PageSize})

Page(category, n) ==
    LET all == Listing(category)
    IN {all[i] : i \in (1 + (n - 1) * PageSize)..Min({n * PageSize, Len(all)})}

InWindow(f) == listed[f] # None /\ intake.lower <= listed[f] /\ listed[f] <= intake.upper

StopsAtTheBound(page) ==
    \/ intake.page >= PageCount(Categories[intake.category])
    \/ \E f \in page : listed[f] <= intake.lower

IsLastPage(page) ==
    \/ intake.page >= PageCount(Categories[intake.category])
    \/ \E f \in page : listed[f] < intake.lower

-----------------------------------------------------------------------------
(* ingest_filings: one filing after another, all of a category or none.    *)

Hash(d) == <<d.company, d.category, d.url, d.filed>>

AsDocument(f, issue) ==
    [issue |-> issue, company |-> Filings[f].company, category |-> Filings[f].category,
     url |-> Filings[f].url, filed |-> listed[f], file |-> "not_downloaded"]

ClaimedRow(rows, company) ==
    LET keyed == {i \in DOMAIN rows : rows[i].key = company}
        unclaimed == {i \in DOMAIN rows : rows[i].key = None /\ rows[i].name = company}
    IN CASE keyed # {} -> keyed
         [] keyed = {} /\ Cardinality(unclaimed) = 1 -> unclaimed
         [] OTHER -> {Len(rows) + 1}

Advanced(rows, i, company, status) ==
    IF i > Len(rows) THEN Append(rows, [name |-> company, key |-> company, status |-> status])
    ELSE [rows EXCEPT ![i].key = company,
            ![i].status = IF StatusOrder[status] > StatusOrder[@] THEN status ELSE @]

IngestOne(state, f) ==
    LET issue == CHOOSE i \in ClaimedRow(state.rows, Filings[f].company) : TRUE
        new == AsDocument(f, issue)
        same == {d \in state.docs : Hash(d) = Hash(new)}
        stored == IF same # {} THEN same ELSE {d \in state.docs : d.url = new.url}
    IN [rows |-> Advanced(state.rows, issue, Filings[f].company,
                          StatusOf[Filings[f].category]),
        docs |-> (state.docs \ stored) \cup
                 (IF stored = {} THEN {new} ELSE {[new EXCEPT !.file = d.file] : d \in stored}),
        conflict |-> state.conflict \/ \E d \in stored : d.issue # issue]

Ingested == FoldLeft(IngestOne, [rows |-> issueRows, docs |-> documents, conflict |-> FALSE],
                     Arranged(intake.fetched, Newest))

Inventoried(f) == \E d \in documents : d.url = Filings[f].url /\ d.company = Filings[f].company

-----------------------------------------------------------------------------
IntakeInit ==
    /\ listed \in [DOMAIN Filings -> {None, 1}]
    /\ issueRows \in Legacy
    /\ documents = {}
    /\ intake = None
    /\ lastExit = None
    /\ owed = {}
    /\ today = 1
    /\ intakeMoves = 0

IntakeMove == intakeMoves < MaxIntake /\ intakeMoves' = intakeMoves + 1

SebiLists(f, late) ==
    /\ IntakeMove
    /\ listed[f] = None
    /\ today > late
    /\ listed' = [listed EXCEPT ![f] = today - late]
    /\ UNCHANGED <<issueRows, documents, intake, lastExit, owed, today>>

IntakeNextDay(days) ==
    /\ IntakeMove
    /\ today + days <= LastIntakeDay
    /\ today' = today + days
    /\ UNCHANGED <<listed, issueRows, documents, intake, lastExit, owed>>

\* update_issue: an administrator moves an offer on by hand.
MoveOn(i, status) ==
    /\ IntakeMove
    /\ i \in DOMAIN issueRows
    /\ issueRows[i].status # status
    /\ issueRows' = [issueRows EXCEPT ![i].status = status]
    /\ UNCHANGED <<listed, documents, intake, lastExit, owed, today>>

EndRun(exit) == intake' = None /\ lastExit' = exit

\* The newest filing of any category decides where every category begins.
Watermark == Max({d.filed : d \in documents})

LowerBound(job) ==
    CASE job.from = "full" -> 0
      [] job.from = "default" /\ documents = {} -> today - FirstWindow
      [] job.from = "default" /\ documents # {} -> Watermark - Overlap

StartRun(job) ==
    /\ intake = None
    /\ IntakeMove
    /\ \/ EndRun(1)                                   \* the schema cannot be upgraded
       \/ /\ job.scan
          /\ intake' = [job |-> job, stage |-> "scan", lower |-> LowerBound(job),
                     upper |-> today, category |-> 1, page |-> 1, fetched |-> {},
                     known |-> OnTheSite,
                     failed |-> FALSE, chosen |-> <<>>, at |-> 1]
          /\ lastExit' = None
       \/ /\ ~job.scan
          /\ intake' = [job |-> job, stage |-> "select", lower |-> 1, upper |-> 0,
                     category |-> 1, page |-> 1, fetched |-> {}, known |-> {},
                     failed |-> FALSE, chosen |-> <<>>, at |-> 1]
          /\ lastExit' = None
    /\ UNCHANGED <<listed, issueRows, documents, owed, today>>

-----------------------------------------------------------------------------
(* The scan: pages, then the category's transaction.                       *)

In(stage) == intake # None /\ intake.stage = stage

AfterCategory(failed) ==
    intake' = [intake EXCEPT !.fetched = {}, !.page = 1, !.failed = @ \/ failed,
        !.stage = IF intake.category < Len(Categories) THEN "scan" ELSE "select",
        !.category = Min({@ + 1, Len(Categories)})]

FetchPage ==
    /\ In("scan")
    /\ LET category == Categories[intake.category]
           page == Page(category, intake.page)
       IN /\ PageCount(category) <= MaxPages
          /\ intake' = [intake EXCEPT !.fetched = @ \cup {f \in page : InWindow(f)},
                !.page = @ + 1,
                !.stage = IF IsLastPage(page) THEN "ingest" ELSE "scan"]
    /\ UNCHANGED <<listed, issueRows, documents, lastExit, owed, today, intakeMoves>>

\* Refused, throttled to the last retry, malformed, too many pages, an
\* ownership conflict or a database error: the category ends, the others go on.
CategoryFails ==
    /\ In("scan") \/ In("ingest")
    /\ AfterCategory(TRUE)
    /\ owed' = owed \cup {f \in DOMAIN Filings : /\ InWindow(f) /\ ~Inventoried(f)
                            /\ Filings[f].category = Categories[intake.category]}
    /\ UNCHANGED <<listed, issueRows, documents, lastExit, today, intakeMoves>>

Ingest ==
    /\ In("ingest")
    /\ ~Ingested.conflict
    /\ issueRows' = Ingested.rows
    /\ documents' = Ingested.docs
    /\ owed' = owed \ intake.fetched
    /\ AfterCategory(FALSE)
    /\ UNCHANGED <<listed, lastExit, today, intakeMoves>>

-----------------------------------------------------------------------------
(* The screener's stages over the issues it chose.                         *)

Go(stage, failed) ==
    intake' = [intake EXCEPT !.stage = stage, !.at = 1, !.failed = @ \/ failed]

\* The presentation order, of which the dates and the names are left out.
ById == {p \in (DOMAIN issueRows) \X (DOMAIN issueRows) : p[1] < p[2]}

Select ==
    /\ In("select")
    /\ intake.job.kind = "screener"
    /\ intake' = [intake EXCEPT !.stage = "download",
            !.chosen = Arranged(
                {i \in DOMAIN issueRows :
                    IF intake.job.wanted # None THEN i \in intake.job.wanted
                    ELSE intake.job.finished \/ issueRows[i].status \in Upcoming}, ById)]
    /\ UNCHANGED <<listed, issueRows, documents, lastExit, owed, today, intakeMoves>>

Missing(issue) ==
    {d \in documents : /\ d.issue = issue /\ d.category \in {"drhp", "rhp"}
                       /\ d.file \in {"not_downloaded", "download_failed"}}

Download ==
    /\ In("download")
    /\ intake.at <= Len(intake.chosen)
    /\ LET wanted == Missing(intake.chosen[intake.at])
       IN \E lost \in SUBSET wanted :
            /\ documents' = (documents \ wanted) \cup
                  {[d EXCEPT !.file = IF d \in lost THEN "download_failed" ELSE "pending"]
                        : d \in wanted}
            /\ intake' = [intake EXCEPT !.at = @ + 1, !.failed = @ \/ lost # {}]
    /\ UNCHANGED <<listed, issueRows, lastExit, owed, today, intakeMoves>>

\* One issue's searches: "stop" is a missing key, an exhausted plan or a
\* throttled account, "denied" a rejected key; a failed search goes on.
Enrich(outcome) ==
    /\ In("enrich")
    /\ intake.at <= Min({Len(intake.chosen), Budget})
    /\ CASE outcome = "collected" -> intake' = [intake EXCEPT !.at = @ + 1]
         [] outcome = "failed" -> intake' = [intake EXCEPT !.at = @ + 1, !.failed = TRUE]
         [] outcome = "stop" -> Go("extract", FALSE)
         [] outcome = "denied" -> Go("extract", TRUE)
    /\ UNCHANGED <<listed, issueRows, documents, lastExit, owed, today, intakeMoves>>

\* The documents with a verified file; a skipped proposal is no failure.
Extract(failed) ==
    /\ In("extract")
    /\ intake.job.extract
    /\ intake.at <= Len(intake.chosen)
    /\ failed => \E d \in documents : d.issue = intake.chosen[intake.at] /\ d.file = "pending"
    /\ intake' = [intake EXCEPT !.at = @ + 1, !.failed = @ \/ failed]
    /\ UNCHANGED <<listed, issueRows, documents, lastExit, owed, today, intakeMoves>>

Score(failed) ==
    /\ In("score")
    /\ intake.at <= Len(intake.chosen)
    /\ intake' = [intake EXCEPT !.at = @ + 1, !.failed = @ \/ failed]
    /\ UNCHANGED <<listed, issueRows, documents, lastExit, owed, today, intakeMoves>>

NextStage == [download |-> "enrich", enrich |-> "extract", extract |-> "score"]

StageEnds ==
    /\ intake # None
    /\ intake.stage \in DOMAIN NextStage
    /\ \/ intake.at > Len(intake.chosen)
       \/ intake.stage = "enrich" /\ intake.at > Budget
       \/ intake.stage = "extract" /\ ~intake.job.extract
    /\ Go(NextStage[intake.stage], FALSE)
    /\ UNCHANGED <<listed, issueRows, documents, lastExit, owed, today, intakeMoves>>

ExitCode == IF intake.failed THEN 1 ELSE 0

FinishRun ==
    /\ \/ In("select") /\ intake.job.kind = "filings"
       \/ In("score") /\ intake.at > Len(intake.chosen)
    /\ EndRun(ExitCode)
    /\ UNCHANGED <<listed, issueRows, documents, owed, today, intakeMoves>>

KillRun ==
    /\ intake # None
    /\ EndRun(None)
    /\ UNCHANGED <<listed, issueRows, documents, owed, today, intakeMoves>>

Outcomes == {"collected", "failed", "stop", "denied"}

Screening ==
    \/ Select \/ Download \/ StageEnds \/ FinishRun \/ KillRun
    \/ \E outcome \in Outcomes : Enrich(outcome)
    \/ \E failed \in BOOLEAN : Extract(failed) \/ Score(failed)

IntakeNext ==
    \/ \E f \in DOMAIN Filings, late \in Lateness : SebiLists(f, late)
    \/ \E days \in {1, Overlap + 1} : IntakeNextDay(days)
    \/ \E i \in 1..Len(issueRows), status \in {"open", "listed"} : MoveOn(i, status)
    \/ \E job \in Jobs : StartRun(job)
    \/ FetchPage \/ CategoryFails \/ Ingest
    \/ Screening

IntakeSpec == IntakeInit /\ [][IntakeNext]_IntakeVars

-----------------------------------------------------------------------------
\* An ipo_issues row; sebi_company_key is unique, and None for a manual row.
IssueRow(i) ==
    /\ issueRows[i].status \in DOMAIN StatusOrder
    /\ issueRows[i].key # None =>
        \A j \in DOMAIN issueRows \ {i} : issueRows[j].key # issueRows[i].key

IntakeTypeOK ==
    /\ \A f \in DOMAIN listed : listed[f] \in 1..LastIntakeDay \cup {None}
    /\ \A i \in DOMAIN issueRows : IssueRow(i)
    /\ \A d \in documents :
        /\ d.issue \in DOMAIN issueRows /\ d.category \in DOMAIN StatusOf
        /\ d.file \in {"not_downloaded", "download_failed", "pending"}
    /\ intake # None => intake.chosen \in Seq(DOMAIN issueRows)
    /\ lastExit \in {None, 0, 1}
    /\ owed \subseteq DOMAIN Filings

Succeeds == intake # None /\ intake' = None /\ lastExit' = 0

\* A run that exits 0 leaves nothing behind in its window: every filing that
\* SEBI had listed there when it began is stored under its own company
\* (fetch_sebi_filings pages until the dates fall below the bound while the
\* listing moves under it; ingest_filings stores a category or nothing; the
\* exit code collects what failed), and no issue it chose is left without its
\* prospectus.
CleanRunMissesNothing ==
    [][Succeeds =>
        /\ \A f \in intake.known : InWindow(f) => Inventoried(f)
        /\ \A i \in DOMAIN intake.chosen : Missing(intake.chosen[i]) = {}]_IntakeVars

\* What the documents say of a category that failed: the default run that
\* succeeds next has recovered it.
RerunRecovers ==
    [][Succeeds /\ intake.job.scan /\ intake.job.from = "default" => owed = {}]_IntakeVars
=============================================================================
