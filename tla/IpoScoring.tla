------------------------------ MODULE IpoScoring ------------------------------
(***************************************************************************)
(* Rescoring one IPO issue while its evidence moves: rescore_issue of      *)
(* backend/ipo/scoring/service.py, started by the screener job, a script   *)
(* and the dashboard button, against everyone who writes what it reads.    *)
(*                                                                         *)
(* A rescore reads the issue, its latest extraction, its latest demand     *)
(* snapshot and its web signals with one SELECT each; compares the         *)
(* fingerprint of what it read with the latest evaluation; and otherwise   *)
(* stores a new evaluation, unless a row with that fingerprint is there.   *)
(***************************************************************************)
EXTENDS IpoVerdict

CONSTANTS Rescorers,     \* callers of rescore_issue
          IssueStates,   \* the issue rows an update may write
          Profiles,      \* the extractions a reviewer may submit
          WebSignals,    \* what the collector may find, see SeeSignal
          Qibs,          \* demand multiples, in hundredths
          Leaps,         \* how many days may pass between two events
          LastDay,       \* bound on the clock
          MaxMoves       \* bound on rescores, writes and leaps together

\* An ipo_manual_extractions row with its three periods; the inputs of the later
\* ratios are all there or all missing.
ExtractionRow(p) ==
    /\ Len(p.revenue) = 3 /\ Len(p.pat) = 3
    /\ \A n \in {p.debt, p.cash, p.fresh, p.ofs, p.revenue[1], p.revenue[2], p.revenue[3]} : n >= 0
    /\ p.shares > 0 /\ p.holding \in 0..100
    /\ \/ {p.assets, p.liabilities, p.postShares} = {None}
       \/ None \notin {p.assets, p.liabilities, p.postShares} /\ p.postShares > 0

\* What the collector may find.  It corroborates nothing; a trusted entry about
\* litigation is one that a reviewer approved.
EnrichmentSignal(s) ==
    /\ DOMAIN s = {"hash", "type", "value", "usable", "clean", "trusted", "match"}
    /\ s.type \in {"gmp", "litigation"}
    /\ s.type = "gmp" => ~s.trusted

ASSUME ScoringAssumption ==
    /\ LastDay \in Nat /\ MaxMoves \in Nat
    /\ \E i \in IssueStates : i.status = "rhp_filed"
    /\ Profiles # {} /\ \A p \in Profiles : ExtractionRow(p)
    /\ \A s \in WebSignals : EnrichmentSignal(s)
    /\ Qibs \subseteq Nat /\ Leaps \subseteq Nat

VARIABLES
    ipoIssue,     \* the ipo_issues row
    ipoProfile,   \* the latest manual extraction, None before the first
    ipoSubs,      \* ipo_subscriptions rows in order of id
    ipoSignals,   \* ipo_enrichment_signals rows, one per hash
    ipoDay,       \* today
    webReading,   \* a demand reading the collector is about to store, or None
    evals,        \* ipo_scores rows in order of id: [fingerprint, verdict]
    rescore,      \* per rescorer [pc, inputs, official, answer]
    ipoMoves      \* rescores, writes and leaps so far

evidence == <<ipoIssue, ipoProfile, ipoSubs, ipoSignals, ipoDay, webReading>>
ScoringVars == <<evidence, evals, rescore, ipoMoves>>

-----------------------------------------------------------------------------
(* What is read.                                                           *)

\* The newest of the rows, by capture time and then by id.
LatestSubscription(rows) ==
    IF rows = <<>> THEN None
    ELSE rows[CHOOSE i \in DOMAIN rows : \A j \in DOMAIN rows :
                \/ rows[j].at < rows[i].at
                \/ rows[j].at = rows[i].at /\ j <= i]

Official(rows) == SelectSeq(rows, LAMBDA s : ~s.low)

LatestEvaluation == IF evals = <<>> THEN None ELSE Last(evals)

NoInputs == [issue |-> None, profile |-> None, subscription |-> None,
             enrichment |-> {}, asOf |-> 0]

Resting(answer) == [pc |-> "rest", inputs |-> NoInputs, official |-> None,
                    answer |-> answer]

-----------------------------------------------------------------------------
(* rescore_issue.  "official" is what the subscription SELECT would have   *)
(* read if the web collector had never run; no step depends on it.         *)

At(r, pc) == rescore[r].pc = pc

Move == ipoMoves < MaxMoves /\ ipoMoves' = ipoMoves + 1

Read(r, pc, next, inputs, official) ==
    /\ At(r, pc)
    /\ rescore' = [rescore EXCEPT ![r] = [pc |-> next, inputs |-> inputs,
                                          official |-> official, answer |-> None]]
    /\ UNCHANGED <<evidence, evals>>

StartRescore(r) ==
    /\ Move
    /\ Read(r, "rest", "profile",
            [NoInputs EXCEPT !.issue = ipoIssue, !.asOf = ipoDay], None)

ReadProfile(r) ==
    /\ Read(r, "profile", "subscription",
            [rescore[r].inputs EXCEPT !.profile = ipoProfile], None)
    /\ UNCHANGED ipoMoves

ReadSubscription(r) ==
    /\ Read(r, "subscription", "signals",
            [rescore[r].inputs EXCEPT !.subscription = LatestSubscription(ipoSubs)],
            LatestSubscription(Official(ipoSubs)))
    /\ UNCHANGED ipoMoves

ReadSignals(r) ==
    /\ Read(r, "signals", "compare",
            [rescore[r].inputs EXCEPT !.enrichment = ipoSignals], rescore[r].official)
    /\ UNCHANGED ipoMoves

Answer(r, status, evaluation) ==
    rescore' = [rescore EXCEPT ![r].pc = "rest",
        ![r].answer = [status |-> status, evaluation |-> evaluation]]

\* get_latest_evaluation opens a session of its own.
CompareLatest(r) ==
    LET x == rescore[r].inputs IN
    /\ At(r, "compare")
    /\ CASE x.profile = None -> Answer(r, "insufficient_inputs", None)
         [] /\ x.profile # None
            /\ LatestEvaluation # None
            /\ LatestEvaluation.fingerprint = InputsFingerprint(x) ->
                Answer(r, "skipped_unchanged", LatestEvaluation)
         [] OTHER -> rescore' = [rescore EXCEPT ![r].pc = "store"]
    /\ UNCHANGED <<evidence, evals, ipoMoves>>

StoreUnconstrained(r) ==
    LET x == rescore[r].inputs
        row == [fingerprint |-> InputsFingerprint(x), verdict |-> Verdict(x)]
    IN
    /\ At(r, "store")
    /\ evals' = Append(evals, row)
    /\ Answer(r, "evaluated", row)
    /\ UNCHANGED <<evidence, ipoMoves>>

\* The company may have been renamed since; a row with this fingerprint may
\* have been stored since, or have been there all along, below the latest.
StoreUnlessThere(r, row) ==
    LET same == {e \in ToSet(evals) : e.fingerprint = row.fingerprint}
    IN  \/ /\ \E e \in same : Answer(r, "skipped_unchanged", e)
           /\ UNCHANGED evals
        \/ /\ same = {}
           /\ evals' = Append(evals, row)
           /\ Answer(r, "evaluated", row)

StoreEvaluation(r) ==
    LET x == rescore[r].inputs IN
    /\ At(r, "store")
    /\ UNCHANGED <<evidence, ipoMoves>>
    /\ \/ /\ x.issue.name # ipoIssue.name
          /\ Answer(r, "failed", None)
          /\ UNCHANGED evals
       \/ /\ x.issue.name = ipoIssue.name
          /\ StoreUnlessThere(r, [fingerprint |-> InputsFingerprint(x),
                                  verdict |-> Verdict(x)])

DeleteEvaluation(i) ==
    /\ Move
    /\ evals' = RemoveAt(evals, i)
    /\ UNCHANGED <<evidence, rescore>>

-----------------------------------------------------------------------------
(* The writers.                                                            *)

Write == Move /\ UNCHANGED <<evals, rescore>>

UpdateIssue(new) ==
    /\ Write
    /\ ipoIssue' = new
    /\ UNCHANGED <<ipoProfile, ipoSubs, ipoSignals, ipoDay, webReading>>

SubmitExtraction(p) ==
    /\ Write
    /\ ipoProfile' = p
    /\ UNCHANGED <<ipoIssue, ipoSubs, ipoSignals, ipoDay, webReading>>

\* An official snapshot carries its publication time, which may be past.
CreateSubscription(at, qib) ==
    /\ Write
    /\ ipoSubs' = Append(ipoSubs, [at |-> at, qib |-> qib, low |-> FALSE])
    /\ UNCHANGED <<ipoIssue, ipoProfile, ipoSignals, ipoDay, webReading>>

\* The collector decides to store a web reading: no official row, and not
\* the value already there.  It stores the row in a later transaction.
CollectReading(qib) ==
    LET rows == IF Official(ipoSubs) = <<>> THEN ipoSubs ELSE Official(ipoSubs)
        latest == LatestSubscription(rows)
    IN
    /\ webReading = None
    /\ latest = None \/ (latest # None /\ latest.low /\ latest.qib # qib)
    /\ Write
    /\ webReading' = [at |-> ipoDay, qib |-> qib, low |-> TRUE]
    /\ UNCHANGED <<ipoIssue, ipoProfile, ipoSubs, ipoSignals, ipoDay>>

StoreReading ==
    /\ webReading # None
    /\ ipoSubs' = Append(ipoSubs, webReading)
    /\ webReading' = None
    /\ UNCHANGED <<ipoIssue, ipoProfile, ipoSignals, ipoDay, ipoMoves, evals,
                   rescore>>

\* One row per hash, seen no earlier than before.
Upserted(s) ==
    LET row == [f \in DOMAIN s \cup {"seen"} |-> IF f = "seen" THEN ipoDay ELSE s[f]]
    IN  {old \in ipoSignals : old.hash # s.hash} \cup {row}

\* record_enrichment_signals, of a batch of one.
SeeSignal(s) ==
    /\ Write
    /\ ipoSignals' = Upserted(s)
    /\ UNCHANGED <<ipoIssue, ipoProfile, ipoSubs, ipoDay, webReading>>

NextDay(n) ==
    /\ ipoDay + n <= LastDay
    /\ Write
    /\ ipoDay' = ipoDay + n
    /\ UNCHANGED <<ipoIssue, ipoProfile, ipoSubs, ipoSignals, webReading>>

-----------------------------------------------------------------------------
ScoringInit ==
    /\ ipoIssue = CHOOSE i \in IssueStates : i.status = "rhp_filed"
    /\ ipoProfile \in {None, CHOOSE p \in Profiles : TRUE}
    /\ ipoSubs = <<>>
    /\ ipoSignals = {}
    /\ ipoDay = 1
    /\ webReading = None
    /\ evals = <<>>
    /\ rescore = [r \in Rescorers |-> Resting(None)]
    /\ ipoMoves = 0

RescoreStep(r) ==
    \/ StartRescore(r)
    \/ ReadProfile(r)
    \/ ReadSubscription(r)
    \/ ReadSignals(r)
    \/ CompareLatest(r)
    \/ StoreEvaluation(r)

ScoringNext ==
    \/ \E r \in Rescorers : RescoreStep(r)
    \/ \E i \in DOMAIN evals : DeleteEvaluation(i)
    \/ \E i \in IssueStates : UpdateIssue(i)
    \/ \E p \in Profiles : SubmitExtraction(p)
    \/ \E q \in Qibs, at \in {0, ipoDay} : CreateSubscription(at, q)
    \/ \E q \in Qibs : CollectReading(q)
    \/ StoreReading
    \/ \E s \in WebSignals : SeeSignal(s)
    \/ \E n \in Leaps : NextDay(n)

ScoringSpec == ScoringInit /\ [][ScoringNext]_ScoringVars

-----------------------------------------------------------------------------
Answered == {r \in Rescorers : rescore[r].answer # None}

Judged == {r \in Answered : rescore[r].answer.evaluation # None}

(* The rows of the tables.                                                 *)

SubscriptionRow(s) ==
    /\ s.at \in 0..ipoDay /\ s.low \in BOOLEAN
    /\ s.qib # None => s.qib >= 0

EnrichmentSignalRow(s) ==
    /\ s.type \in {"gmp", "litigation"} /\ s.seen \in 0..ipoDay
    /\ \A t \in ipoSignals \ {s} : t.hash # s.hash

\* The ipo_recommendations row of a score: nothing is recommended on missing evidence
\* or against a hard flag.
RecommendationRow(v) ==
    /\ v.recommendation.type \in {"hold", "listing_gains", "skip", "insufficient"}
    /\ v.recommendation.confidence \in {"low", "medium", "high"}
    /\ v.recommendation.recommended =>
        \A f \in CriticalFactors, g \in DOMAIN v.flags :
            v.factors[f] # None /\ v.flags[g] # "triggered"

\* A percentage in hundredths.
Percentages == 0..10000

\* An ipo_scores row.
EvaluationRow(e) ==
    /\ RecommendationRow(e.verdict)
    /\ \A f \in DOMAIN e.verdict.factors :
            e.verdict.factors[f] # None => e.verdict.factors[f] \in Percentages
    /\ e.verdict.score \in Percentages

ScoringTypeOK ==
    /\ ipoIssue \in IssueStates
    /\ ipoProfile \in Profiles \cup {None}
    /\ \A i \in DOMAIN ipoSubs : SubscriptionRow(ipoSubs[i])
    /\ \A s \in ipoSignals : EnrichmentSignalRow(s)
    /\ \A i \in DOMAIN evals : EvaluationRow(evals[i])
    /\ \A r \in Rescorers : rescore[r].pc \in
            {"rest", "profile", "subscription", "signals", "compare", "store"}
    /\ \A r \in Answered : rescore[r].answer.status \in
            {"insufficient_inputs", "skipped_unchanged", "evaluated", "failed"}

\* Whatever a rescore answers, "unchanged" included, the evaluation it hands
\* back is the one its own inputs call for: a reading that went stale, a book
\* about to close or a corrected extraction never gets the old answer, and
\* another caller's row found at the unique constraint is as good as its own
\* (rescore_issue, compute_inputs_fingerprint).
AnswerFitsInputs ==
    \A r \in Judged : rescore[r].answer.evaluation.verdict
                        = Verdict(rescore[r].inputs)

WithoutWeb(x) ==
    [x EXCEPT !.subscription = IF x.subscription # None /\ x.subscription.low
                               THEN None ELSE x.subscription,
              !.enrichment = {s \in x.enrichment : s.trusted}]

TriggeredFlags(v) == {f \in DOMAIN v.flags : v.flags[f] = "triggered"}

\* Web evidence is advisory: without the low-confidence demand snapshot and
\* the uncorroborated signals the same hard flags would have been triggered,
\* and the score moved by no more than the two optional factors weigh.
WebEvidenceIsAdvisory ==
    \A r \in Judged :
        LET v == rescore[r].answer.evaluation.verdict
            w == Verdict(WithoutWeb(rescore[r].inputs))
        IN  /\ TriggeredFlags(v) = TriggeredFlags(w)
            /\ v.score - w.score \in 0..1500

\* One row for one set of inputs: two rescorers that both found nothing to
\* compare with do not both store (the unique constraint of ipo_scores).
JudgedOnce ==
    \A i, j \in DOMAIN evals :
        evals[i].fingerprint = evals[j].fingerprint => i = j

\* The late-demand flag answers as it would had the web collector never run:
\* as it would for the official rows alone that were there at the read.
FlagIgnoresTheScrape ==
    \A r \in Judged :
        LET x == rescore[r].inputs IN
        rescore[r].answer.evaluation.verdict.flags.weak_qib_demand_near_close
            = WeakQibDemandNearClose([x EXCEPT !.subscription = rescore[r].official])
=============================================================================
