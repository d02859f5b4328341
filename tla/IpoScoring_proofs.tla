-------------------------- MODULE IpoScoring_proofs --------------------------
(***************************************************************************)
(* Machine-checked theorems about IpoScoring, for any number of rescorers, *)
(* issue states, extractions, web signals and demand readings: a rescore   *)
(* never answers with another input's evaluation, no inputs are judged     *)
(* twice, every score is a percentage, and the web moves it by at most 15. *)
(***************************************************************************)
EXTENDS IpoScoring, SequenceTheorems, FiniteSetTheorems, NaturalsInduction,
        WellFoundedInduction, TLAPS

-----------------------------------------------------------------------------
(* The fingerprint determines the verdict.                                 *)

\* What the fingerprint keeps of a signal on the day asOf.
WebFact(s, asOf) ==
    [hash |-> s.hash, type |-> s.type, value |-> s.value, clean |-> s.clean,
     trusted |-> s.trusted, match |-> s.match,
     fresh |-> IF s.type = "gmp" THEN Fresh(s, asOf) ELSE None]

Facts(enrichment, asOf) == {WebFact(s, asOf) : s \in {e \in enrichment : e.usable}}

\* The grey-market readings that count on that day.
GmpReadings(enrichment, asOf) ==
    {<<s.hash, s.value>> : s \in {s \in enrichment :
        /\ s.type = "gmp" /\ s.usable /\ s.clean
        /\ s.value # None /\ Fresh(s, asOf)}}

\* The readings that count can be told from the facts.
LEMMA ReadingsFromFacts ==
  ASSUME NEW e1, NEW d1, NEW e2, NEW d2, Facts(e1, d1) = Facts(e2, d2)
  PROVE  GmpReadings(e1, d1) \subseteq GmpReadings(e2, d2)
<1> SUFFICES ASSUME NEW s \in e1, s.type = "gmp", s.usable, s.clean, s.value # None, Fresh(s, d1)
             PROVE  <<s.hash, s.value>> \in GmpReadings(e2, d2)
  BY DEF GmpReadings
<1>1. PICK t \in e2 : t.usable /\ WebFact(t, d2) = WebFact(s, d1)
  BY DEF Facts
<1>2. /\ t.hash = s.hash /\ t.type = s.type /\ t.value = s.value /\ t.clean = s.clean
      /\ Fresh(t, d2) = Fresh(s, d1)
  BY <1>1 DEF WebFact
<1> QED BY <1>1, <1>2 DEF GmpReadings

\* So the grey-market factor is the same for the same facts.
LEMMA GmpFromFacts ==
  ASSUME NEW e1, NEW d1, NEW e2, NEW d2, Facts(e1, d1) = Facts(e2, d2)
  PROVE  GmpSentiment(e1, d1) = GmpSentiment(e2, d2)
<1> DEFINE Mood(readings) ==
      LET values == [i \in DOMAIN SetToSeq(readings) |-> SetToSeq(readings)[i][2]]
      IN  IF readings = {} THEN None ELSE 100 * Band(TwiceMedian(values), 2, GmpBands)
<1>1. \A e, d : GmpSentiment(e, d) = Mood(GmpReadings(e, d))
  BY DEF GmpSentiment, GmpReadings
<1>2. GmpReadings(e1, d1) = GmpReadings(e2, d2)
  BY ReadingsFromFacts
<1> QED BY Zenon, <1>1, <1>2

\* A signal has a counterpart among those that leave the same facts.
LEMMA Counterpart ==
  ASSUME NEW e1, NEW d1, NEW e2, NEW d2, Facts(e1, d1) = Facts(e2, d2),
         NEW s \in e1, s.usable
  PROVE  \E t \in e2 : /\ t.usable
                       /\ t.type = s.type /\ t.clean = s.clean
                       /\ t.trusted = s.trusted /\ t.match = s.match
<1>1. PICK t \in e2 : t.usable /\ WebFact(t, d2) = WebFact(s, d1)
  BY DEF Facts
<1> QED BY <1>1 DEF WebFact

\* Signals about litigation that count, the trusted ones among them, and what they say.
Entries(e) == {s \in e : s.type = "litigation" /\ s.usable /\ s.clean}

TrustedEntries(e) == {s \in Entries(e) : s.trusted}

Flagged(e) == \E s \in TrustedEntries(e) : s.match

Suspected(e) == \E s \in Entries(e) \ TrustedEntries(e) : s.match

\* The flag, branch by branch.
LEMMA LitigationBranches ==
  ASSUME NEW e
  PROVE  /\ Flagged(e) => LitigationRedFlag(e) = "triggered"
         /\ ~Flagged(e) /\ Suspected(e) => LitigationRedFlag(e) = "not_evaluable"
         /\ ~Flagged(e) /\ ~Suspected(e) /\ TrustedEntries(e) = {}
              => LitigationRedFlag(e) = "not_evaluable"
         /\ ~Flagged(e) /\ ~Suspected(e) /\ TrustedEntries(e) # {}
              => LitigationRedFlag(e) = "not_triggered"
<1>1. Flagged(e) => LitigationRedFlag(e) = "triggered"
  BY Zenon DEF LitigationRedFlag, Flagged, TrustedEntries, Entries
<1>2. ~Flagged(e) /\ Suspected(e) => LitigationRedFlag(e) = "not_evaluable"
  BY Zenon DEF LitigationRedFlag, Flagged, Suspected, TrustedEntries, Entries
<1>3. ~Flagged(e) /\ ~Suspected(e) /\ TrustedEntries(e) = {}
        => LitigationRedFlag(e) = "not_evaluable"
  BY Zenon DEF LitigationRedFlag, Flagged, Suspected, TrustedEntries, Entries
<1>4. ~Flagged(e) /\ ~Suspected(e) /\ TrustedEntries(e) # {}
        => LitigationRedFlag(e) = "not_triggered"
  BY Zenon DEF LitigationRedFlag, Flagged, Suspected, TrustedEntries, Entries
<1> QED BY <1>1, <1>2, <1>3, <1>4

\* What one set of signals says of litigation, the other says that leaves the same facts.
LEMMA LitigationImplied ==
  ASSUME NEW e1, NEW d1, NEW e2, NEW d2, Facts(e1, d1) = Facts(e2, d2)
  PROVE  /\ Flagged(e1) => Flagged(e2)
         /\ Suspected(e1) => Suspected(e2)
         /\ TrustedEntries(e1) # {} => TrustedEntries(e2) # {}
<1>1. ASSUME NEW s \in Entries(e1)
      PROVE  \E t \in Entries(e2) : t.trusted = s.trusted /\ t.match = s.match
  <2>1. PICK t \in e2 : /\ t.usable
                        /\ t.type = s.type /\ t.clean = s.clean
                        /\ t.trusted = s.trusted /\ t.match = s.match
    BY Counterpart DEF Entries
  <2> QED BY <2>1 DEF Entries
<1> QED BY <1>1 DEF Flagged, Suspected, TrustedEntries

\* So the litigation flag, too, is the same for the same facts.
LEMMA LitigationFromFacts ==
  ASSUME NEW e1, NEW d1, NEW e2, NEW d2, Facts(e1, d1) = Facts(e2, d2)
  PROVE  LitigationRedFlag(e1) = LitigationRedFlag(e2)
<1>1. /\ Flagged(e1) <=> Flagged(e2)
      /\ Suspected(e1) <=> Suspected(e2)
      /\ TrustedEntries(e1) # {} <=> TrustedEntries(e2) # {}
  BY LitigationImplied
<1> QED BY <1>1, LitigationBranches

\* compute_inputs_fingerprint keeps all that an analysis depends on: the age of a reading
\* and the days to the close, which are no columns, included.
LEMMA FingerprintDeterminesVerdict ==
  ASSUME NEW x, NEW y, InputsFingerprint(x) = InputsFingerprint(y)
  PROVE  Verdict(x) = Verdict(y)
<1>1. \A z : /\ InputsFingerprint(z).issue = z.issue
             /\ InputsFingerprint(z).profile = z.profile
             /\ InputsFingerprint(z).subscription = z.subscription
             /\ InputsFingerprint(z).enrichment = Facts(z.enrichment, z.asOf)
             /\ InputsFingerprint(z).near_close = NearClose(z.issue, z.asOf)
  BY DEF InputsFingerprint, Facts, WebFact
<1>2. /\ x.issue = y.issue /\ x.profile = y.profile /\ x.subscription = y.subscription
      /\ Facts(x.enrichment, x.asOf) = Facts(y.enrichment, y.asOf)
      /\ NearClose(x.issue, x.asOf) = NearClose(y.issue, y.asOf)
  BY <1>1
<1> DEFINE ratios == CalculateIpoRatios(x.profile, x.issue.price)
<1> HIDE DEF ratios
<1>3. DeriveScoreInput(x, ratios) = DeriveScoreInput(y, ratios)
  <2>1. GmpSentiment(x.enrichment, x.asOf) = GmpSentiment(y.enrichment, y.asOf)
    BY <1>2, GmpFromFacts
  <2> QED BY Zenon, <1>2, <2>1 DEF DeriveScoreInput
<1>4. EvaluateCautionFlags(x, ratios) = EvaluateCautionFlags(y, ratios)
  <2>1. LitigationRedFlag(x.enrichment) = LitigationRedFlag(y.enrichment)
    BY <1>2, LitigationFromFacts
  <2>2. WeakQibDemandNearClose(x) = WeakQibDemandNearClose(y)
    BY Zenon, <1>2 DEF WeakQibDemandNearClose
  <2>3. /\ EntirelyOfsWeakGrowth(x, ratios) = EntirelyOfsWeakGrowth(y, ratios)
        /\ VeryExpensiveValuation(x, ratios) = VeryExpensiveValuation(y, ratios)
    BY <1>2 DEF EntirelyOfsWeakGrowth, VeryExpensiveValuation
  <2> QED BY Zenon, <1>2, <2>1, <2>2, <2>3 DEF EvaluateCautionFlags
<1> QED BY Zenon, <1>2, <1>3, <1>4 DEF Verdict, AnalysisOf, ratios

-----------------------------------------------------------------------------
(* The inductive invariant.                                                *)

\* The records of the rescorers.
RescorersWork ==
    /\ rescore = [r \in Rescorers |-> rescore[r]]
    /\ \A r \in Rescorers : DOMAIN rescore[r] = {"pc", "inputs", "official", "answer"}

\* An ipo_scores row is the verdict on some inputs, filed under their fingerprint.
IsVerdict(e) == \E x : e.fingerprint = InputsFingerprint(x) /\ e.verdict = Verdict(x)

StoredVerdicts ==
    /\ \E R : evals \in Seq(R)
    /\ \A i \in DOMAIN evals : IsVerdict(evals[i])

ScoringInv == RescorersWork /\ StoredVerdicts /\ JudgedOnce /\ AnswerFitsInputs

\* The rows of a table are in a sequence with all of them in it.
LEMMA RowsOf ==
  ASSUME StoredVerdicts
  PROVE  /\ Len(evals) \in Nat
         /\ DOMAIN evals = 1 .. Len(evals)
  BY LenProperties DEF StoredVerdicts

\* An answer that fits what the rescorer read keeps all answers fitting.
LEMMA AnswerFits ==
  ASSUME ScoringInv, NEW r \in Rescorers, NEW status, NEW evaluation,
         Answer(r, status, evaluation),
         evaluation # None => evaluation.verdict = Verdict(rescore[r].inputs)
  PROVE  RescorersWork' /\ AnswerFitsInputs'
<1>1. /\ rescore' = [o \in Rescorers |-> rescore'[o]]
      /\ \A o \in Rescorers \ {r} : rescore'[o] = rescore[o]
      /\ rescore'[r].inputs = rescore[r].inputs
      /\ rescore'[r].answer = [status |-> status, evaluation |-> evaluation]
      /\ \A o \in Rescorers : DOMAIN rescore'[o] = {"pc", "inputs", "official", "answer"}
  BY DEF ScoringInv, RescorersWork, Answer
<1>2. AnswerFitsInputs'
  <2>1. ASSUME NEW o \in Judged'
        PROVE  rescore'[o].answer.evaluation.verdict = Verdict(rescore'[o].inputs)
    <3>1. CASE o = r
      BY <1>1, <2>1, <3>1 DEF Judged
    <3>2. CASE o # r
      BY <1>1, <2>1, <3>2 DEF ScoringInv, AnswerFitsInputs, Judged, Answered
    <3> QED BY <3>1, <3>2
  <2> QED BY <2>1 DEF AnswerFitsInputs
<1> QED BY <1>1, <1>2 DEF RescorersWork

\* A read drops the answer of the rescore before.
LEMMA ReadFits ==
  ASSUME ScoringInv, NEW r \in Rescorers, NEW pc, NEW next, NEW inputs, NEW official,
         Read(r, pc, next, inputs, official)
  PROVE  ScoringInv'
<1>1. /\ rescore' = [o \in Rescorers |-> rescore'[o]]
      /\ \A o \in Rescorers \ {r} : rescore'[o] = rescore[o]
      /\ rescore'[r].answer = None
      /\ \A o \in Rescorers : DOMAIN rescore'[o] = {"pc", "inputs", "official", "answer"}
      /\ evals' = evals
  BY DEF ScoringInv, RescorersWork, Read
<1>2. AnswerFitsInputs'
  <2>1. ASSUME NEW o \in Judged'
        PROVE  rescore'[o].answer.evaluation.verdict = Verdict(rescore'[o].inputs)
    <3>1. o # r
      BY <1>1, <2>1 DEF Judged, Answered
    <3> QED BY <1>1, <2>1, <3>1 DEF ScoringInv, AnswerFitsInputs, Judged, Answered
  <2> QED BY <2>1 DEF AnswerFitsInputs
<1> QED BY <1>1, <1>2 DEF ScoringInv, RescorersWork, StoredVerdicts, JudgedOnce

\* A stored row with the fingerprint of the inputs has their verdict.
LEMMA SameFingerprintSameVerdict ==
  ASSUME NEW e, IsVerdict(e), NEW x, e.fingerprint = InputsFingerprint(x)
  PROVE  e.verdict = Verdict(x)
  BY FingerprintDeterminesVerdict DEF IsVerdict

\* The comparison with the latest evaluation.
LEMMA CompareFits ==
  ASSUME ScoringInv, NEW r \in Rescorers, CompareLatest(r)
  PROVE  ScoringInv'
<1> DEFINE x == rescore[r].inputs
<1>1. evals' = evals
  BY DEF CompareLatest
<1>2. \/ Answer(r, "insufficient_inputs", None)
      \/ /\ LatestEvaluation # None /\ LatestEvaluation.fingerprint = InputsFingerprint(x)
         /\ Answer(r, "skipped_unchanged", LatestEvaluation)
      \/ rescore' = [rescore EXCEPT ![r].pc = "store"]
  BY Zenon DEF CompareLatest
<1>3. RescorersWork' /\ AnswerFitsInputs'
  <2>1. CASE Answer(r, "insufficient_inputs", None)
    BY <2>1, AnswerFits
  <2>2. CASE /\ LatestEvaluation # None /\ LatestEvaluation.fingerprint = InputsFingerprint(x)
             /\ Answer(r, "skipped_unchanged", LatestEvaluation)
    <3>1. IsVerdict(LatestEvaluation)
      <4>1. evals # <<>> /\ LatestEvaluation = evals[Len(evals)]
        BY <2>2 DEF LatestEvaluation, Last
      <4>2. Len(evals) \in DOMAIN evals
        BY <4>1, EmptySeq, RowsOf DEF ScoringInv, StoredVerdicts
      <4> QED BY <4>1, <4>2 DEF ScoringInv, StoredVerdicts
    <3>2. LatestEvaluation.verdict = Verdict(x)
      BY <2>2, <3>1, SameFingerprintSameVerdict
    <3> QED BY <2>2, <3>2, AnswerFits
  <2>3. CASE rescore' = [rescore EXCEPT ![r].pc = "store"]
    <3>1. /\ rescore' = [o \in Rescorers |-> rescore'[o]]
          /\ \A o \in Rescorers : /\ rescore'[o].inputs = rescore[o].inputs
                                  /\ rescore'[o].answer = rescore[o].answer
                                  /\ DOMAIN rescore'[o] = DOMAIN rescore[o]
      BY <2>3 DEF ScoringInv, RescorersWork
    <3> QED BY <3>1 DEF ScoringInv, RescorersWork, AnswerFitsInputs, Judged, Answered
  <2> QED BY <1>2, <2>1, <2>2, <2>3
<1> QED BY <1>1, <1>3 DEF ScoringInv, StoredVerdicts, JudgedOnce

\* The insert under the unique constraint.
LEMMA StoreFits ==
  ASSUME ScoringInv, NEW r \in Rescorers, StoreEvaluation(r)
  PROVE  ScoringInv'
<1> DEFINE x == rescore[r].inputs
           row == [fingerprint |-> InputsFingerprint(x), verdict |-> Verdict(x)]
           same == {e \in ToSet(evals) : e.fingerprint = InputsFingerprint(x)}
<1>0. row.fingerprint = InputsFingerprint(x) /\ row.verdict = Verdict(x)
  OBVIOUS
<1>1. \/ Answer(r, "failed", None) /\ evals' = evals
      \/ \E e \in same : Answer(r, "skipped_unchanged", e) /\ evals' = evals
      \/ same = {} /\ evals' = Append(evals, row) /\ Answer(r, "evaluated", row)
  BY Zenon, <1>0 DEF StoreEvaluation, StoreUnlessThere
<1>2. CASE Answer(r, "failed", None) /\ evals' = evals
  <2>1. RescorersWork' /\ AnswerFitsInputs'
    BY <1>2, AnswerFits
  <2> QED BY <1>2, <2>1 DEF ScoringInv, StoredVerdicts, JudgedOnce
<1>3. ASSUME NEW e \in same, Answer(r, "skipped_unchanged", e), evals' = evals
      PROVE  ScoringInv'
  <2>1. IsVerdict(e) /\ e.fingerprint = InputsFingerprint(x)
    BY <1>3 DEF ToSet, ScoringInv, StoredVerdicts
  <2>2. e.verdict = Verdict(x)
    BY <2>1, SameFingerprintSameVerdict
  <2>3. RescorersWork' /\ AnswerFitsInputs'
    BY <1>3, <2>2, AnswerFits
  <2> QED BY <1>3, <2>3 DEF ScoringInv, StoredVerdicts, JudgedOnce
<1>4. CASE same = {} /\ evals' = Append(evals, row) /\ Answer(r, "evaluated", row)
  <2>1. RescorersWork' /\ AnswerFitsInputs'
    BY <1>0, <1>4, AnswerFits
  <2>2. IsVerdict(row)
    BY <1>0 DEF IsVerdict
  <2>3. \A i \in DOMAIN evals : evals[i].fingerprint # row.fingerprint
    BY <1>0, <1>4 DEF ToSet
  <2> HIDE DEF row
  <2>4. PICK R : evals \in Seq(R)
    BY DEF ScoringInv, StoredVerdicts
  <2>5. evals \in Seq(R \cup {row})
    BY <2>4, SeqMonotonic
  <2>6. /\ evals' \in Seq(R \cup {row})
        /\ Len(evals') = Len(evals) + 1 /\ Len(evals) \in Nat
        /\ \A i \in 1 .. Len(evals) : evals'[i] = evals[i]
        /\ evals'[Len(evals) + 1] = row
        /\ DOMAIN evals = 1 .. Len(evals) /\ DOMAIN evals' = 1 .. Len(evals) + 1
    BY <1>4, <2>5, AppendProperties, LenProperties
  <2>7. \A i \in DOMAIN evals' : i \in DOMAIN evals \/ i = Len(evals) + 1
    BY <2>6
  <2>8. StoredVerdicts'
    BY <2>2, <2>6, <2>7 DEF ScoringInv, StoredVerdicts
  <2>9. JudgedOnce'
    BY <2>3, <2>6, <2>7 DEF ScoringInv, JudgedOnce
  <2> QED BY <2>1, <2>8, <2>9 DEF ScoringInv
<1> QED BY <1>1, <1>2, <1>3, <1>4

\* A deleted row, and those below move up.
LEMMA DeleteFits ==
  ASSUME ScoringInv, NEW i \in DOMAIN evals, DeleteEvaluation(i)
  PROVE  ScoringInv'
<1>1. PICK R : evals \in Seq(R)
  BY DEF ScoringInv, StoredVerdicts
<1> DEFINE n == Len(evals)
<1>2. n \in Nat /\ DOMAIN evals = 1 .. n /\ i \in 1 .. n
  BY RowsOf DEF ScoringInv
<1>3. evals' = SubSeq(evals, 1, i - 1) \o SubSeq(evals, i + 1, n) /\ UNCHANGED rescore
  BY DEF DeleteEvaluation, RemoveAt
<1> DEFINE low == SubSeq(evals, 1, i - 1)
           high == SubSeq(evals, i + 1, n)
<1>4. \A k \in 1 .. n : evals[k] \in R
  BY <1>1, <1>2
<1>5. /\ low \in Seq(R) /\ Len(low) = i - 1
      /\ \A k \in 1 .. i - 1 : low[k] = evals[k]
  BY <1>2, <1>4, SubSeqProperties
<1>6. /\ high \in Seq(R) /\ Len(high) = n - i
      /\ \A k \in 1 .. n - i : high[k] = evals[i + k]
  BY <1>2, <1>4, SubSeqProperties
<1>0. evals' = low \o high
  BY <1>3
<1> HIDE DEF low, high, n
<1>7. /\ evals' \in Seq(R) /\ Len(evals') = n - 1
      /\ \A k \in 1 .. n - 1 : evals'[k] = IF k <= i - 1 THEN low[k] ELSE high[k - (i - 1)]
  <2>1. /\ low \o high \in Seq(R) /\ Len(low \o high) = Len(low) + Len(high)
        /\ \A k \in 1 .. Len(low) + Len(high) :
              (low \o high)[k] = IF k <= Len(low) THEN low[k] ELSE high[k - Len(low)]
    BY <1>5, <1>6, ConcatProperties
  <2> QED BY <1>0, <1>2, <1>5, <1>6, <2>1
<1>8. DOMAIN evals' = 1 .. n - 1
  BY <1>7, LenProperties
<1> DEFINE from(k) == IF k < i THEN k ELSE k + 1
<1>9. \A k \in 1 .. n - 1 : from(k) \in 1 .. n /\ evals'[k] = evals[from(k)]
  <2>1. ASSUME NEW k \in 1 .. n - 1, k < i PROVE evals'[k] = evals[k]
    BY <1>2, <1>5, <1>7, <2>1
  <2>2. ASSUME NEW k \in 1 .. n - 1, ~(k < i) PROVE evals'[k] = evals[k + 1]
    <3>1. evals'[k] = high[k - (i - 1)] /\ k - (i - 1) \in 1 .. n - i
      BY <1>2, <1>7, <2>2
    <3>2. high[k - (i - 1)] = evals[i + (k - (i - 1))] /\ i + (k - (i - 1)) = k + 1
      BY <1>2, <1>6, <3>1
    <3> QED BY <3>1, <3>2
  <2> QED BY <1>2, <2>1, <2>2
<1>10. \A j, k \in 1 .. n - 1 : from(j) = from(k) => j = k
  BY <1>2
<1> HIDE DEF from
<1>11. StoredVerdicts'
  BY <1>2, <1>7, <1>8, <1>9 DEF ScoringInv, StoredVerdicts
<1>12. JudgedOnce'
  BY <1>2, <1>8, <1>9, <1>10 DEF ScoringInv, JudgedOnce
<1> QED
  BY <1>3, <1>11, <1>12 DEF ScoringInv, RescorersWork, AnswerFitsInputs, Judged, Answered

-----------------------------------------------------------------------------
(* Sums.                                                                   *)

\* Induction over the numbers a set holds.
LEMMA NumbersFollow ==
  ASSUME NEW T, 0 \in T, \A n \in Nat : n \in T => n + 1 \in T
  PROVE  Nat \subseteq T
<1> DEFINE bad == Nat \ T
<1> SUFFICES ASSUME bad # {} PROVE FALSE
  OBVIOUS
<1>1. PICK n \in bad : \A m \in bad : ~ <<m, n>> \in OpToRel(<, Nat)
  <2>1. bad \subseteq Nat /\ bad # {}
    OBVIOUS
  <2> HIDE DEF bad
  <2> QED BY Zenon, <2>1, NatLessThanWellFounded, WFMin
<1>2. n \in Nat /\ n # 0 /\ n - 1 \in Nat
  OBVIOUS
<1>3. n - 1 \in bad
  <2>1. n - 1 \in T => n \in T
    BY <1>2
  <2> QED BY <1>2, <2>1
<1>4. <<n - 1, n>> \in OpToRel(<, Nat)
  BY <1>2 DEF OpToRel
<1> QED BY <1>1, <1>3, <1>4

AnyOf(T) == CHOOSE x \in T : TRUE

\* it holds the sum of f on every subset of S.
IsSum(f, S, it) ==
    it = [T \in SUBSET S |-> IF T = {} THEN 0 ELSE f[AnyOf(T)] + it[T \ {AnyOf(T)}]]

\* The recursion is over the number of elements.
LEMMA Removed ==
  ASSUME NEW S, IsFiniteSet(S), NEW T \in SUBSET S
  PROVE  /\ IsFiniteSet(T) /\ Cardinality(T) \in Nat
         /\ T # {} => /\ AnyOf(T) \in T
                      /\ T \ {AnyOf(T)} \in SUBSET S
                      /\ Cardinality(T \ {AnyOf(T)}) = Cardinality(T) - 1
         /\ Cardinality(T) = 0 <=> T = {}
<1>1. IsFiniteSet(T) /\ Cardinality(T) \in Nat
  BY FS_Subset, FS_CardinalityType
<1>2. ASSUME T # {} PROVE AnyOf(T) \in T
  BY <1>2 DEF AnyOf
<1>3. ASSUME T # {} PROVE Cardinality(T \ {AnyOf(T)}) = Cardinality(T) - 1
  BY <1>1, <1>2, <1>3, FS_RemoveElement
<1>4. Cardinality(T) = 0 <=> T = {}
  BY <1>1, FS_EmptySet
<1> QED BY <1>1, <1>2, <1>3, <1>4

\* What holds of a set when it holds of the set less any element holds of all subsets of
\* a finite set.
LEMMA SubsetsFollow ==
  ASSUME NEW S, IsFiniteSet(S), NEW Good,
         \A T \in SUBSET S : (\A x \in T : T \ {x} \in Good) => T \in Good
  PROVE  SUBSET S \subseteq Good
<1> DEFINE far == {n \in Nat : \A T \in SUBSET S : Cardinality(T) = n => T \in Good}
<1>1. 0 \in far
  <2>1. ASSUME NEW T \in SUBSET S, Cardinality(T) = 0 PROVE T = {}
    BY <2>1, Removed
  <2> QED BY <2>1
<1>2. ASSUME NEW n \in Nat, n \in far PROVE n + 1 \in far
  <2>1. ASSUME NEW T \in SUBSET S, Cardinality(T) = n + 1, NEW x \in T PROVE T \ {x} \in Good
    <3>1. T \ {x} \in SUBSET S
      OBVIOUS
    <3>0. Cardinality(T \ {x}) = Cardinality(T) - 1
      <4>1. IsFiniteSet(T)
        BY Removed
      <4> QED BY <4>1, FS_RemoveElement
    <3>2. Cardinality(T \ {x}) = n
      BY <2>1, <3>0
    <3> QED BY <1>2, <3>1, <3>2
  <2> QED BY <2>1
<1>3. Nat \subseteq far
  <2> HIDE DEF far
  <2> QED BY <1>1, <1>2, NumbersFollow
<1> QED BY <1>3, Removed

\* There is such a function.
LEMMA SumExists ==
  ASSUME NEW f, NEW S, IsFiniteSet(S)
  PROVE  \E it : IsSum(f, S, it)
<1> DEFINE Upto(n, it) ==
      \A T \in SUBSET S : Cardinality(T) <= n =>
          it[T] = IF T = {} THEN 0 ELSE f[AnyOf(T)] + it[T \ {AnyOf(T)}]
      far == {n \in Nat : \E it : Upto(n, it)}
<1>1. 0 \in far
  <2>1. Upto(0, [T \in SUBSET S |-> 0])
    <3>1. ASSUME NEW T \in SUBSET S, Cardinality(T) <= 0 PROVE T = {}
      <4>1. Cardinality(T) \in Nat /\ (Cardinality(T) = 0 <=> T = {})
        BY Removed
      <4> QED BY <3>1, <4>1
    <3> QED BY <3>1
  <2> QED BY <2>1
<1>2. ASSUME NEW n \in Nat, n \in far PROVE n + 1 \in far
  <2>1. PICK it : Upto(n, it)
    BY <1>2
  <2> DEFINE more == [T \in SUBSET S |->
                IF Cardinality(T) <= n THEN it[T] ELSE f[AnyOf(T)] + it[T \ {AnyOf(T)}]]
  <2>2. Upto(n + 1, more)
    <3> SUFFICES ASSUME NEW T \in SUBSET S, Cardinality(T) <= n + 1
                 PROVE  more[T] = IF T = {} THEN 0
                                  ELSE f[AnyOf(T)] + more[T \ {AnyOf(T)}]
      OBVIOUS
    <3>1. CASE T = {}
      <4>1. Cardinality(T) <= n
        BY <3>1, FS_EmptySet
      <4> QED BY <2>1, <3>1, <4>1
    <3>2. CASE T # {}
      <4> DEFINE U == T \ {AnyOf(T)}
      <4>0. /\ U \in SUBSET S /\ Cardinality(T) \in Nat
            /\ Cardinality(U) = Cardinality(T) - 1
        BY <3>2, Removed
      <4>1. U \in SUBSET S /\ Cardinality(U) <= n
        BY <4>0
      <4>2. more[U] = it[U]
        BY <4>1
      <4>3. more[T] = f[AnyOf(T)] + it[U]
        <5>1. Cardinality(T) <= n => it[T] = f[AnyOf(T)] + it[U]
          BY <2>1, <3>2
        <5> QED BY <5>1
      <4> QED BY <3>2, <4>2, <4>3
    <3> QED BY <3>1, <3>2
  <2>3. \E any : Upto(n + 1, any)
    <3> HIDE DEF more, Upto
    <3> QED BY Zenon, <2>2
  <2> HIDE DEF Upto
  <2> QED BY <2>3
<1>3. Nat \subseteq far
  <2> HIDE DEF far
  <2> QED BY <1>1, <1>2, NumbersFollow
<1>4. PICK it : Upto(Cardinality(S), it)
  BY <1>3, FS_CardinalityType
<1> DEFINE whole == [T \in SUBSET S |-> it[T]]
<1>5. ASSUME NEW T \in SUBSET S
      PROVE  whole[T] = IF T = {} THEN 0 ELSE f[AnyOf(T)] + whole[T \ {AnyOf(T)}]
  <2>1. Cardinality(T) <= Cardinality(S)
    BY FS_Subset
  <2>2. T # {} => T \ {AnyOf(T)} \in SUBSET S
    BY Removed
  <2> QED BY <1>4, <2>1, <2>2
<1>6. IsSum(f, S, whole)
  BY <1>5 DEF IsSum
<1> QED BY <1>6

\* Total is the value of such a function.
LEMMA TotalIsSum ==
  ASSUME NEW f, NEW S, IsFiniteSet(S)
  PROVE  \E it : IsSum(f, S, it) /\ Total(f, S) = it[S]
<1> DEFINE it == CHOOSE it : IsSum(f, S, it)
<1>1. IsSum(f, S, it)
  BY SumExists
<1>2. Total(f, S) = it[S]
  BY Zenon DEF Total, FoldSet, MapThenFoldSet, IsSum, AnyOf
<1> HIDE DEF it
<1> QED BY <1>1, <1>2

\* What such a function says of a part of its set is the total of the part.
LEMMA TotalOfPart ==
  ASSUME NEW f, NEW S, IsFiniteSet(S), NEW it, IsSum(f, S, it), NEW R \in SUBSET S
  PROVE  Total(f, R) = it[R]
<1>1. IsFiniteSet(R)
  BY FS_Subset
<1>2. PICK part : IsSum(f, R, part) /\ Total(f, R) = part[R]
  BY <1>1, TotalIsSum
<1> DEFINE same == {T \in SUBSET R : part[T] = it[T]}
<1>3. ASSUME NEW T \in SUBSET R, \A x \in T : T \ {x} \in same PROVE T \in same
  <2>1. T \in SUBSET S
    OBVIOUS
  <2>2. /\ part[T] = IF T = {} THEN 0 ELSE f[AnyOf(T)] + part[T \ {AnyOf(T)}]
        /\ it[T] = IF T = {} THEN 0 ELSE f[AnyOf(T)] + it[T \ {AnyOf(T)}]
    BY <1>2, <2>1 DEF IsSum
  <2>3. CASE T = {}
    BY <2>2, <2>3
  <2>4. CASE T # {}
    <3>1. AnyOf(T) \in T
      BY <1>1, <2>4, Removed
    <3>2. part[T \ {AnyOf(T)}] = it[T \ {AnyOf(T)}]
      BY <1>3, <3>1
    <3> QED BY <2>2, <2>4, <3>2
  <2> QED BY <2>3, <2>4
<1> HIDE DEF same
<1>4. SUBSET R \subseteq same
  BY <1>1, <1>3, SubsetsFollow
<1> QED BY <1>2, <1>4 DEF same

\* The total of no numbers.
LEMMA TotalOfNone ==
  ASSUME NEW f
  PROVE  Total(f, {}) = 0
<1>1. IsFiniteSet({})
  BY FS_EmptySet
<1>2. PICK it : IsSum(f, {}, it) /\ Total(f, {}) = it[{}]
  BY <1>1, TotalIsSum
<1>3. {} \in SUBSET {}
  OBVIOUS
<1> QED BY <1>2, <1>3 DEF IsSum

\* A total is a number, and any element can be taken out of it.
LEMMA TotalSplits ==
  ASSUME NEW f, NEW S, IsFiniteSet(S), \A x \in S : f[x] \in Int
  PROVE  /\ Total(f, S) \in Int
         /\ \A x \in S : Total(f, S) = f[x] + Total(f, S \ {x})
<1>1. PICK it : IsSum(f, S, it)
  BY TotalIsSum
<1> DEFINE whole == {T \in SUBSET S : it[T] \in Int}
<1>0. ASSUME NEW T \in SUBSET S, \A x \in T : T \ {x} \in whole PROVE T \in whole
  <2>1. it[T] = IF T = {} THEN 0 ELSE f[AnyOf(T)] + it[T \ {AnyOf(T)}]
    BY <1>1 DEF IsSum
  <2>2. T # {} => AnyOf(T) \in T
    BY Removed
  <2>3. T # {} => f[AnyOf(T)] \in Int /\ it[T \ {AnyOf(T)}] \in Int
    BY <1>0, <2>2
  <2> QED BY <2>1, <2>3
<1>5. SUBSET S \subseteq whole
  <2> HIDE DEF whole
  <2> QED BY <1>0, SubsetsFollow
<1> DEFINE good == {T \in SUBSET S : /\ it[T] \in Int
                                     /\ \A x \in T : it[T] = f[x] + it[T \ {x}]}
<1>2. ASSUME NEW T \in SUBSET S, \A x \in T : T \ {x} \in good PROVE T \in good
  <2> DEFINE a == AnyOf(T)
  <2>1. it[T] = IF T = {} THEN 0 ELSE f[a] + it[T \ {a}]
    BY <1>1 DEF IsSum
  <2>2. CASE T = {}
    BY <2>1, <2>2
  <2>3. CASE T # {}
    <3>1. a \in T
      BY <2>3, Removed
    <3>2. \A x \in T : T \ {x} \in SUBSET S /\ it[T \ {x}] \in Int /\ f[x] \in Int
      BY <1>2
    <3>3. it[T] = f[a] + it[T \ {a}] /\ it[T] \in Int
      <4>1. it[T \ {a}] \in Int /\ f[a] \in Int
        BY <3>1, <3>2
      <4> QED BY <2>1, <2>3, <4>1
    <3>4. ASSUME NEW x \in T PROVE it[T] = f[x] + it[T \ {x}]
      <4>1. CASE x = a
        BY <3>3, <4>1
      <4>2. CASE x # a
        <5> DEFINE rest == it[(T \ {a}) \ {x}]
        <5>1. it[T \ {a}] = f[x] + rest
          BY <1>2, <3>1, <4>2
        <5>2. it[T \ {x}] = f[a] + rest
          <6>1. it[T \ {x}] = f[a] + it[(T \ {x}) \ {a}]
            BY <1>2, <3>1, <4>2
          <6>2. (T \ {a}) \ {x} = (T \ {x}) \ {a}
            OBVIOUS
          <6> QED BY Zenon, <6>1, <6>2
        <5>3. f[a] \in Int /\ f[x] \in Int
          BY <3>1, <3>2
        <5>4. rest \in Int
          <6>1. (T \ {a}) \ {x} \in SUBSET S
            OBVIOUS
          <6> QED BY <1>5, <6>1
        <5> HIDE DEF a, rest
        <5> QED BY <3>3, <5>1, <5>2, <5>3, <5>4
      <4> QED BY <4>1, <4>2
    <3> QED BY <3>3, <3>4
  <2> QED BY <2>2, <2>3
<1> HIDE DEF good
<1>3. SUBSET S \subseteq good
  BY <1>2, SubsetsFollow
<1>4. /\ it[S] \in Int
      /\ \A x \in S : it[S] = f[x] + it[S \ {x}]
  BY <1>3 DEF good
<1>6. Total(f, S) = it[S] /\ \A x \in S : Total(f, S \ {x}) = it[S \ {x}]
  BY <1>1, TotalOfPart
<1> QED BY <1>4, <1>6
\* A total of percentages.
LEMMA TotalOfPercents ==
  ASSUME NEW f, NEW S, IsFiniteSet(S), \A x \in S : f[x] \in 0 .. 100
  PROVE  Total(f, S) \in 0 .. 100 * Cardinality(S)
<1> DEFINE good == {T \in SUBSET S : Total(f, T) \in 0 .. 100 * Cardinality(T)}
<1>1. ASSUME NEW T \in SUBSET S, \A x \in T : T \ {x} \in good PROVE T \in good
  <2>1. IsFiniteSet(T) /\ Cardinality(T) \in Nat /\ (Cardinality(T) = 0 <=> T = {})
    BY Removed
  <2>2. CASE T = {}
    BY <2>1, <2>2, TotalOfNone
  <2>3. CASE T # {}
    <3>1. PICK x : x \in T
      BY <2>3
    <3>2. Total(f, T) = f[x] + Total(f, T \ {x})
      BY <2>1, <3>1, TotalSplits
    <3>3. Cardinality(T \ {x}) = Cardinality(T) - 1
      BY <2>1, <3>1, FS_RemoveElement
    <3>4. Total(f, T \ {x}) \in 0 .. 100 * Cardinality(T \ {x})
      BY <1>1, <3>1
    <3>5. f[x] \in 0 .. 100
      BY <3>1
    <3>6. Total(f, T) \in 0 .. 100 * Cardinality(T)
      BY <2>1, <3>2, <3>3, <3>4, <3>5
    <3> QED BY <3>6
  <2> QED BY <2>2, <2>3
<1> HIDE DEF good
<1>2. SUBSET S \subseteq good
  BY <1>1, SubsetsFollow
<1> QED BY <1>2 DEF good

\* One more number.
LEMMA TotalGrows ==
  ASSUME NEW f, NEW S, NEW x, x \notin S, IsFiniteSet(S), \A y \in S \cup {x} : f[y] \in Int
  PROVE  /\ IsFiniteSet(S \cup {x})
         /\ Total(f, S \cup {x}) = f[x] + Total(f, S)
         /\ Total(f, S \cup {x}) \in Int
<1> DEFINE all == S \cup {x}
<1>1. IsFiniteSet(S \cup {x})
  BY FS_AddElement
<1>2. IsFiniteSet(all) /\ x \in all /\ all \ {x} = S /\ \A y \in all : f[y] \in Int
  BY <1>1
<1> HIDE DEF all
<1>3. Total(f, all) \in Int /\ Total(f, all) = f[x] + Total(f, all \ {x})
  BY <1>2, TotalSplits
<1> QED BY Zenon, <1>2, <1>3 DEF all

\* The total over the seven weighted factors.
LEMMA TotalOfSeven ==
  ASSUME NEW c, \A f \in DOMAIN Weights : c[f] \in Int
  PROVE  Total(c, DOMAIN Weights) =
            c["business_quality"] + c["financial_growth"] + c["return_ratios"]
            + c["valuation"] + c["promoter_quality"]
            + c["qib_subscription"] + c["gmp_sentiment"]
<1> DEFINE s1 == {"gmp_sentiment"}
           s2 == s1 \cup {"qib_subscription"}
           s3 == s2 \cup {"promoter_quality"}
           s4 == s3 \cup {"valuation"}
           s5 == s4 \cup {"return_ratios"}
           s6 == s5 \cup {"financial_growth"}
           s7 == s6 \cup {"business_quality"}
<1>1. DOMAIN Weights = s7
  BY DEF Weights
<1>2. ASSUME NEW S \in SUBSET s7, NEW x \in s7 \ S, IsFiniteSet(S)
      PROVE  /\ IsFiniteSet(S \cup {x})
             /\ Total(c, S \cup {x}) = c[x] + Total(c, S)
             /\ Total(c, S \cup {x}) \in Int
  <2>1. x \notin S /\ \A y \in S \cup {x} : c[y] \in Int
    BY <1>1
  <2> QED BY Zenon, <1>2, <2>1, TotalGrows
<1>3. IsFiniteSet(s1) /\ Total(c, s1) = c["gmp_sentiment"]
  <2>1. IsFiniteSet({}) /\ {} \cup {"gmp_sentiment"} = s1 /\ Total(c, {}) = 0
    BY FS_EmptySet, TotalOfNone
  <2>2. "gmp_sentiment" \in s7 \ {} /\ {} \in SUBSET s7
    OBVIOUS
  <2>3. IsFiniteSet(s1) /\ Total(c, s1) = c["gmp_sentiment"] + Total(c, {})
    BY Zenon, <1>2, <2>1, <2>2
  <2>4. c["gmp_sentiment"] \in Int
    BY <1>1
  <2> QED BY <2>1, <2>3, <2>4
<1>4. IsFiniteSet(s2) /\ Total(c, s2) = c["qib_subscription"] + Total(c, s1)
  BY Zenon, <1>2, <1>3
<1>5. IsFiniteSet(s3) /\ Total(c, s3) = c["promoter_quality"] + Total(c, s2)
  BY Zenon, <1>2, <1>4
<1>6. IsFiniteSet(s4) /\ Total(c, s4) = c["valuation"] + Total(c, s3)
  BY Zenon, <1>2, <1>5
<1>7. IsFiniteSet(s5) /\ Total(c, s5) = c["return_ratios"] + Total(c, s4)
  BY Zenon, <1>2, <1>6
<1>8. IsFiniteSet(s6) /\ Total(c, s6) = c["financial_growth"] + Total(c, s5)
  BY Zenon, <1>2, <1>7
<1>9. IsFiniteSet(s7) /\ Total(c, s7) = c["business_quality"] + Total(c, s6)
  BY Zenon, <1>2, <1>8
<1>10. \A x \in s7 : c[x] \in Int
  BY <1>1
<1>11. /\ c["business_quality"] \in Int /\ c["financial_growth"] \in Int
       /\ c["return_ratios"] \in Int /\ c["valuation"] \in Int
       /\ c["promoter_quality"] \in Int /\ c["qib_subscription"] \in Int
       /\ c["gmp_sentiment"] \in Int
  BY <1>10
<1> HIDE DEF s1, s2, s3, s4, s5, s6, s7
<1> QED BY <1>1, <1>3, <1>4, <1>5, <1>6, <1>7, <1>8, <1>9, <1>11

-----------------------------------------------------------------------------
(* The range of a verdict.                                                 *)

IsTable(t) ==
    \E k \in Nat : /\ DOMAIN t.edges = 1 .. k
                   /\ \A i \in 1 .. k + 1 : t.scores[i] \in 0 .. 100

\* A band is one of the scores of its table.
LEMMA BandInTable ==
  ASSUME NEW n, NEW d, NEW t, IsTable(t)
  PROVE  Band(n, d, t) \in 0 .. 100
<1>1. PICK k \in Nat : /\ DOMAIN t.edges = 1 .. k
                       /\ \A i \in 1 .. k + 1 : t.scores[i] \in 0 .. 100
  BY DEF IsTable
<1> DEFINE below == {i \in DOMAIN t.edges : 100 * n < t.edges[i] * d}
<1>2. below \subseteq 1 .. k
  BY <1>1
<1>3. IsFiniteSet(1 .. k) /\ Cardinality(1 .. k) = k
  BY FS_Interval
<1>4. Cardinality(below) \in 0 .. k
  <2> HIDE DEF below
  <2>1. IsFiniteSet(below) /\ Cardinality(below) <= Cardinality(1 .. k)
    BY <1>2, <1>3, FS_Subset
  <2>2. Cardinality(below) \in Nat
    BY <2>1, FS_CardinalityType
  <2> QED BY <1>3, <2>1, <2>2
<1>5. Band(n, d, t) = t.scores[1 + Cardinality(below)]
  BY DEF Band
<1> HIDE DEF below
<1> QED BY <1>1, <1>4, <1>5

\* The tables of the factor derivation.
LEMMA TablesAreTables ==
  /\ IsTable(GrowthBands) /\ IsTable(ReturnBands) /\ IsTable(PremiumBands)
  /\ IsTable(EbitdaMarginBands) /\ IsTable(PatMarginBands) /\ IsTable(CfoToPatBands)
  /\ IsTable(CoverageBands) /\ IsTable(HoldingBands) /\ IsTable(OfsBands)
  /\ IsTable(QibBands) /\ IsTable(GmpBands)
<1>1. /\ IsTable(GrowthBands) /\ IsTable(ReturnBands) /\ IsTable(PremiumBands)
      /\ IsTable(EbitdaMarginBands) /\ IsTable(PatMarginBands) /\ IsTable(CfoToPatBands)
      /\ IsTable(CoverageBands) /\ IsTable(HoldingBands) /\ IsTable(GmpBands)
  <2>1. \A t : /\ DOMAIN t.edges = 1 .. 4
               /\ t.scores[1] \in 0 .. 100 /\ t.scores[2] \in 0 .. 100
               /\ t.scores[3] \in 0 .. 100 /\ t.scores[4] \in 0 .. 100
               /\ t.scores[5] \in 0 .. 100
            => IsTable(t)
    <3>1. \A i \in 1 .. 4 + 1 : i = 1 \/ i = 2 \/ i = 3 \/ i = 4 \/ i = 5
      OBVIOUS
    <3> QED BY <3>1 DEF IsTable
  <2>2. IsTable(GrowthBands)
    BY <2>1 DEF GrowthBands, Table
  <2>3. IsTable(ReturnBands)
    BY <2>1 DEF ReturnBands, Table
  <2>4. IsTable(PremiumBands)
    BY <2>1 DEF PremiumBands, Table
  <2>5. IsTable(EbitdaMarginBands)
    BY <2>1 DEF EbitdaMarginBands, Table
  <2>6. IsTable(PatMarginBands)
    BY <2>1 DEF PatMarginBands, Table
  <2>7. IsTable(CfoToPatBands)
    BY <2>1 DEF CfoToPatBands, Table
  <2>8. IsTable(CoverageBands)
    BY <2>1 DEF CoverageBands, Table
  <2>9. IsTable(HoldingBands)
    BY <2>1 DEF HoldingBands, Table
  <2>10. IsTable(GmpBands)
    BY <2>1 DEF GmpBands, Table
  <2> QED BY <2>2, <2>3, <2>4, <2>5, <2>6, <2>7, <2>8, <2>9, <2>10
<1>2. IsTable(OfsBands)
  <2>1. DOMAIN <<75, 50, 25>> = 1 .. 3 /\ 3 \in Nat
    OBVIOUS
  <2>2. \A i \in 1 .. 3 + 1 : <<10, 30, 60, 80>>[i] \in 0 .. 100
    OBVIOUS
  <2> QED BY <2>1, <2>2 DEF IsTable, Table, OfsBands
<1>3. IsTable(QibBands)
  <2>1. DOMAIN <<5000, 2000, 1000, 300, 100>> = 1 .. 5 /\ 5 \in Nat
    OBVIOUS
  <2>2. \A i \in 1 .. 5 + 1 : <<100, 85, 70, 55, 35, 0>>[i] \in 0 .. 100
    OBVIOUS
  <2> QED BY <2>1, <2>2 DEF IsTable, Table, QibBands
<1> QED BY <1>1, <1>2, <1>3

\* A sub-score and a factor, when they are there.
Subscore == {None} \cup 0 .. 100
FactorValue == {None} \cup 0 .. 10000

\* The sub-score of a ratio, whatever the ratio engine says of it.
LEMMA RatioSubscoreInRange ==
  ASSUME NEW receipt, NEW t, IsTable(t)
  PROVE  RatioSubscore(receipt, t) \in Subscore
<1>1. Band(receipt.value, 10000, t) \in 0 .. 100 /\ 0 \in 0 .. 100
  BY BandInTable
<1>2. CASE receipt.status = "computed"
  BY <1>1, <1>2 DEF RatioSubscore, Subscore
<1>3. CASE receipt.status = "undefined"
  BY <1>1, <1>3 DEF RatioSubscore, Subscore
<1>4. CASE receipt.status # "computed" /\ receipt.status # "undefined"
  BY <1>4 DEF RatioSubscore, Subscore
<1> QED BY <1>2, <1>3, <1>4

\* The sub-score of a multiple against its peers.
LEMMA PremiumSubscoreInRange ==
  ASSUME NEW receipt, NEW peers
  PROVE  PremiumSubscore(receipt, peers) \in Subscore
<1> DEFINE band == Band(2 * receipt.value, 10000 * TwiceMedian(peers), PremiumBands)
<1>1. band \in 0 .. 100 /\ 0 \in 0 .. 100
  BY BandInTable, TablesAreTables
<1>2. CASE receipt.status = "undefined"
  BY <1>1, <1>2 DEF PremiumSubscore, Subscore
<1>3. CASE receipt.status = "computed" /\ peers # <<>>
  BY <1>1, <1>3 DEF PremiumSubscore, Subscore
<1>4. CASE receipt.status # "undefined" /\ ~(receipt.status = "computed" /\ peers # <<>>)
  BY <1>4 DEF PremiumSubscore, Subscore
<1> QED BY <1>2, <1>3, <1>4

\* A mean of percentages, in hundredths and rounded.
LEMMA MeanInRange ==
  ASSUME NEW n \in Nat, n > 0, NEW total \in 0 .. 100 * n
  PROVE  (200 * total + n) \div (2 * n) \in 0 .. 10000
<1> DEFINE q == (200 * total + n) \div (2 * n)
<1>1. 2 * n \in Nat /\ 2 * n > 0 /\ 200 * total + n \in Nat
  OBVIOUS
<1>2. q \in Nat /\ q * (2 * n) <= 200 * total + n
  BY <1>1, Z3
<1>3. 200 * total + n <= 20001 * n
  OBVIOUS
<1>4. ASSUME q >= 10001 PROVE FALSE
  <2>1. q * (2 * n) >= 10001 * (2 * n)
    BY <1>1, <1>2, <1>4
  <2> QED BY <1>1, <1>2, <1>3, <2>1
<1> HIDE DEF q
<1>5. q \in 0 .. 10000
  BY <1>2, <1>4
<1> QED BY <1>5 DEF q

\* A factor is a mean of sub-scores, one of them at least.
LEMMA FactorInRange ==
  ASSUME NEW core \in Seq(Subscore), core # <<>>, NEW optional \in Seq(Subscore)
  PROVE  Factor(core, optional) \in FactorValue
<1> DEFINE scores == core \o optional
           used == {i \in DOMAIN scores : scores[i] # None}
           n == Cardinality(used)
<1>1. Factor(core, optional) = IF None \in ToSet(core) THEN None
                               ELSE (200 * Total(scores, used) + n) \div (2 * n)
  BY DEF Factor
<1>2. CASE None \in ToSet(core)
  BY <1>1, <1>2 DEF FactorValue
<1>3. CASE None \notin ToSet(core)
  <2>1. /\ scores \in Seq(Subscore)
        /\ Len(scores) = Len(core) + Len(optional)
        /\ \A i \in 1 .. Len(scores) :
              scores[i] = IF i <= Len(core) THEN core[i] ELSE optional[i - Len(core)]
    BY ConcatProperties
  <2>2. Len(core) \in Nat \ {0} /\ Len(optional) \in Nat /\ DOMAIN core = 1 .. Len(core)
    BY EmptySeq, LenProperties
  <2>3. DOMAIN scores = 1 .. Len(scores) /\ Len(scores) \in Nat
    BY <2>1, LenProperties
  <2> HIDE DEF scores
  <2>4. IsFiniteSet(used)
    <3>1. IsFiniteSet(1 .. Len(scores))
      BY <2>3, FS_Interval
    <3> QED BY <2>3, <3>1, FS_Subset
  <2>5. 1 \in used
    <3>1. 1 \in DOMAIN core /\ 1 \in 1 .. Len(scores) /\ scores[1] = core[1]
      BY <2>1, <2>2
    <3>2. core[1] # None
      BY <1>3, <3>1 DEF ToSet
    <3> QED BY <2>3, <3>1, <3>2
  <2>6. \A i \in used : scores[i] \in 0 .. 100
    <3>1. \A i \in 1 .. Len(scores) : scores[i] \in Subscore
      BY <2>1, <2>3
    <3> QED BY <2>3, <3>1 DEF Subscore
  <2> HIDE DEF used
  <2>7. n \in Nat /\ n > 0
    <3>1. Cardinality(used) \in Nat /\ Cardinality(used) # 0
      BY <2>4, <2>5, FS_CardinalityType, FS_EmptySet
    <3> QED BY <3>1
  <2> DEFINE total == Total(scores, used)
             mean == (200 * total + n) \div (2 * n)
  <2>8. total \in 0 .. 100 * n
    BY <2>4, <2>6, TotalOfPercents
  <2>9. mean \in FactorValue
    <3> HIDE DEF n, total
    <3>1. mean \in 0 .. 10000
      BY <2>7, <2>8, MeanInRange
    <3> HIDE DEF mean
    <3> QED BY <3>1 DEF FactorValue
  <2> QED BY Zenon, <1>1, <1>3, <2>9
<1> QED BY <1>2, <1>3

\* The seven factors, whatever the ratios are.
LEMMA FactorsInRange ==
  ASSUME NEW x, NEW r
  PROVE  /\ DOMAIN DeriveScoreInput(x, r) = DOMAIN Weights
         /\ \A f \in DOMAIN Weights : DeriveScoreInput(x, r)[f] \in FactorValue
<1>1. ASSUME NEW a \in Subscore, NEW b \in Subscore, NEW c \in Subscore, NEW d \in Subscore
      PROVE  /\ Factor(<<a, b, c>>, <<d>>) \in FactorValue
             /\ Factor(<<a, b>>, <<>>) \in FactorValue
             /\ Factor(<<a>>, <<b>>) \in FactorValue
  <2>1. /\ <<a, b, c>> \in Seq(Subscore) /\ <<a, b>> \in Seq(Subscore)
        /\ <<a>> \in Seq(Subscore) /\ <<b>> \in Seq(Subscore) /\ <<d>> \in Seq(Subscore)
        /\ <<>> \in Seq(Subscore)
        /\ <<a, b, c>> # <<>> /\ <<a, b>> # <<>> /\ <<a>> # <<>>
    OBVIOUS
  <2> QED BY <2>1, FactorInRange
<1>2. ASSUME NEW n \in 0 .. 100 PROVE 100 * n \in FactorValue
  BY DEF FactorValue
<1>3. None \in FactorValue /\ None \in Subscore /\ 0 \in Subscore /\ 100 \in Subscore
  BY DEF FactorValue, Subscore
<1> DEFINE v == DeriveScoreInput(x, r)
<1>4. v.business_quality \in FactorValue
  BY Zenon, <1>1, RatioSubscoreInRange, TablesAreTables DEF DeriveScoreInput
<1>5. v.financial_growth \in FactorValue
  BY Zenon, <1>1, RatioSubscoreInRange, TablesAreTables DEF DeriveScoreInput
<1>6. v.return_ratios \in FactorValue
  BY Zenon, <1>1, RatioSubscoreInRange, TablesAreTables DEF DeriveScoreInput
<1>7. v.valuation \in FactorValue
  BY Zenon, <1>1, PremiumSubscoreInRange DEF DeriveScoreInput
<1>8. v.qib_subscription \in FactorValue
  <2>1. QibSubscription(x.subscription) \in FactorValue
    <3>1. Band(x.subscription.qib, 100, QibBands) \in 0 .. 100
      BY BandInTable, TablesAreTables
    <3> QED BY Zenon, <1>2, <1>3, <3>1 DEF QibSubscription
  <2> QED BY Zenon, <2>1 DEF DeriveScoreInput
<1>9. v.promoter_quality \in FactorValue
  <2> DEFINE p == x.profile
             offered == p.fresh + p.ofs
             ofsScore == CASE offered = 0 -> None
                           [] offered > 0 /\ p.ofs = 0 -> 100
                           [] offered > 0 /\ p.fresh = 0 -> 0
                           [] OTHER -> Band(p.ofs, offered, OfsBands)
  <2>1. Band(p.ofs, offered, OfsBands) \in Subscore /\ Band(p.holding, 1, HoldingBands) \in Subscore
    BY BandInTable, TablesAreTables DEF Subscore
  <2>2. ofsScore \in Subscore
    BY Zenon, <1>3, <2>1
  <2>3. PromoterQuality(p) = Factor(<<Band(p.holding, 1, HoldingBands)>>, <<ofsScore>>)
    BY Zenon DEF PromoterQuality
  <2> QED BY Zenon, <1>1, <2>1, <2>2, <2>3 DEF DeriveScoreInput
<1>10. v.gmp_sentiment \in FactorValue
  <2>1. \A n : Band(n, 2, GmpBands) \in 0 .. 100
    BY BandInTable, TablesAreTables
  <2>2. GmpSentiment(x.enrichment, x.asOf) \in FactorValue
    BY Zenon, <1>2, <1>3, <2>1 DEF GmpSentiment
  <2> QED BY Zenon, <2>2 DEF DeriveScoreInput
<1>11. DOMAIN v = DOMAIN Weights
  BY DEF DeriveScoreInput, Weights
<1>12. DOMAIN Weights = {"business_quality", "financial_growth", "return_ratios", "valuation",
                         "qib_subscription", "promoter_quality", "gmp_sentiment"}
  BY DEF Weights
<1> HIDE DEF v
<1>13. \A f \in DOMAIN Weights : v[f] \in FactorValue
  BY <1>4, <1>5, <1>6, <1>7, <1>8, <1>9, <1>10, <1>12
<1> QED BY <1>11, <1>13 DEF v

\* What a factor adds to the score, in hundredths.
Contribution(factors, f) ==
    IF factors[f] = None THEN 0 ELSE (2 * factors[f] * Weights[f] + 100) \div 200

Rating(factors) == {f \in DOMAIN Weights : factors[f] \notin FactorValue} = {}

\* A factor adds its weight at most.
LEMMA ContributionInRange ==
  ASSUME NEW factors, Rating(factors), NEW f \in DOMAIN Weights, Weights[f] \in Nat
  PROVE  Contribution(factors, f) \in 0 .. 100 * Weights[f]
<1>1. factors[f] \in FactorValue
  BY DEF Rating
<1>2. CASE factors[f] = None
  BY <1>2 DEF Contribution
<1>3. CASE factors[f] # None
  <2> DEFINE v == factors[f]
             w == Weights[f]
             share == 2 * v * w
  <2>1. v \in 0 .. 10000 /\ w \in Nat
    BY <1>1, <1>3 DEF FactorValue
  <2>2. Contribution(factors, f) = (share + 100) \div 200
    BY <1>3 DEF Contribution
  <2> HIDE DEF v, w
  <2>3. share <= 20000 * w /\ share \in Nat
    BY <2>1
  <2> HIDE DEF share
  <2>4. (share + 100) \div 200 \in 0 .. 100 * w
    BY <2>1, <2>3
  <2> QED BY <2>2, <2>4 DEF w
<1> QED BY <1>2, <1>3

\* The score is the sum of what the seven factors add.
LEMMA ScoreIsSum ==
  ASSUME NEW factors, Rating(factors)
  PROVE  /\ Contribution(factors, "business_quality") \in 0 .. 2500
         /\ Contribution(factors, "financial_growth") \in 0 .. 2000
         /\ Contribution(factors, "return_ratios") \in 0 .. 1500
         /\ Contribution(factors, "valuation") \in 0 .. 1500
         /\ Contribution(factors, "promoter_quality") \in 0 .. 1000
         /\ Contribution(factors, "qib_subscription") \in 0 .. 1000
         /\ Contribution(factors, "gmp_sentiment") \in 0 .. 500
         /\ ScoreIpo(factors) =
              Contribution(factors, "business_quality") + Contribution(factors, "financial_growth")
              + Contribution(factors, "return_ratios") + Contribution(factors, "valuation")
              + Contribution(factors, "promoter_quality")
              + Contribution(factors, "qib_subscription") + Contribution(factors, "gmp_sentiment")
<1> DEFINE c == [f \in DOMAIN Weights |-> Contribution(factors, f)]
<1>1. DOMAIN Weights = {"business_quality", "financial_growth", "return_ratios", "valuation",
                        "qib_subscription", "promoter_quality", "gmp_sentiment"}
  BY DEF Weights
<1>2. /\ Weights["business_quality"] = 25 /\ Weights["financial_growth"] = 20
      /\ Weights["return_ratios"] = 15 /\ Weights["valuation"] = 15
      /\ Weights["promoter_quality"] = 10 /\ Weights["qib_subscription"] = 10
      /\ Weights["gmp_sentiment"] = 5
  BY DEF Weights
<1>3. /\ c["business_quality"] = Contribution(factors, "business_quality")
      /\ c["business_quality"] \in Int /\ c["business_quality"] \in 0 .. 2500
  <2>1. "business_quality" \in DOMAIN Weights
    BY <1>1
  <2>2. Contribution(factors, "business_quality") \in 0 .. 100 * Weights["business_quality"]
    BY <1>2, <2>1, ContributionInRange
  <2> QED BY <1>2, <2>1, <2>2
<1>4. /\ c["financial_growth"] = Contribution(factors, "financial_growth")
      /\ c["financial_growth"] \in Int /\ c["financial_growth"] \in 0 .. 2000
  <2>1. "financial_growth" \in DOMAIN Weights
    BY <1>1
  <2>2. Contribution(factors, "financial_growth") \in 0 .. 100 * Weights["financial_growth"]
    BY <1>2, <2>1, ContributionInRange
  <2> QED BY <1>2, <2>1, <2>2
<1>5. /\ c["return_ratios"] = Contribution(factors, "return_ratios")
      /\ c["return_ratios"] \in Int /\ c["return_ratios"] \in 0 .. 1500
  <2>1. "return_ratios" \in DOMAIN Weights
    BY <1>1
  <2>2. Contribution(factors, "return_ratios") \in 0 .. 100 * Weights["return_ratios"]
    BY <1>2, <2>1, ContributionInRange
  <2> QED BY <1>2, <2>1, <2>2
<1>6. /\ c["valuation"] = Contribution(factors, "valuation")
      /\ c["valuation"] \in Int /\ c["valuation"] \in 0 .. 1500
  <2>1. "valuation" \in DOMAIN Weights
    BY <1>1
  <2>2. Contribution(factors, "valuation") \in 0 .. 100 * Weights["valuation"]
    BY <1>2, <2>1, ContributionInRange
  <2> QED BY <1>2, <2>1, <2>2
<1>7. /\ c["promoter_quality"] = Contribution(factors, "promoter_quality")
      /\ c["promoter_quality"] \in Int /\ c["promoter_quality"] \in 0 .. 1000
  <2>1. "promoter_quality" \in DOMAIN Weights
    BY <1>1
  <2>2. Contribution(factors, "promoter_quality") \in 0 .. 100 * Weights["promoter_quality"]
    BY <1>2, <2>1, ContributionInRange
  <2> QED BY <1>2, <2>1, <2>2
<1>8. /\ c["qib_subscription"] = Contribution(factors, "qib_subscription")
      /\ c["qib_subscription"] \in Int /\ c["qib_subscription"] \in 0 .. 1000
  <2>1. "qib_subscription" \in DOMAIN Weights
    BY <1>1
  <2>2. Contribution(factors, "qib_subscription") \in 0 .. 100 * Weights["qib_subscription"]
    BY <1>2, <2>1, ContributionInRange
  <2> QED BY <1>2, <2>1, <2>2
<1>9. /\ c["gmp_sentiment"] = Contribution(factors, "gmp_sentiment")
      /\ c["gmp_sentiment"] \in Int /\ c["gmp_sentiment"] \in 0 .. 500
  <2>1. "gmp_sentiment" \in DOMAIN Weights
    BY <1>1
  <2>2. Contribution(factors, "gmp_sentiment") \in 0 .. 100 * Weights["gmp_sentiment"]
    BY <1>2, <2>1, ContributionInRange
  <2> QED BY <1>2, <2>1, <2>2
<1>10. ScoreIpo(factors) = Total(c, DOMAIN Weights)
  BY DEF ScoreIpo, Contribution
<1> HIDE DEF c
<1>11. \A f \in DOMAIN Weights : c[f] \in Int
  BY <1>1, <1>3, <1>4, <1>5, <1>6, <1>7, <1>8, <1>9
<1>12. Total(c, DOMAIN Weights) =
            c["business_quality"] + c["financial_growth"] + c["return_ratios"]
            + c["valuation"] + c["promoter_quality"]
            + c["qib_subscription"] + c["gmp_sentiment"]
  BY <1>11, TotalOfSeven
<1> QED BY <1>3, <1>4, <1>5, <1>6, <1>7, <1>8, <1>9, <1>10, <1>12

\* A score is a percentage, in hundredths.
LEMMA ScoreInRange ==
  ASSUME NEW factors, Rating(factors)
  PROVE  ScoreIpo(factors) \in 0 .. 10000
<1> DEFINE a == Contribution(factors, "business_quality")
           b == Contribution(factors, "financial_growth")
           c == Contribution(factors, "return_ratios")
           d == Contribution(factors, "valuation")
           p == Contribution(factors, "promoter_quality")
           q == Contribution(factors, "qib_subscription")
           g == Contribution(factors, "gmp_sentiment")
<1>1. /\ a \in 0 .. 2500 /\ b \in 0 .. 2000 /\ c \in 0 .. 1500 /\ d \in 0 .. 1500
      /\ p \in 0 .. 1000 /\ q \in 0 .. 1000 /\ g \in 0 .. 500
      /\ ScoreIpo(factors) = a + b + c + d + p + q + g
  BY ScoreIsSum
<1> HIDE DEF a, b, c, d, p, q, g
<1> QED BY <1>1

\* A recommendation goes with the score, the missing factors and the triggered flags.
LEMMA RecommendationInRange ==
  ASSUME NEW score, NEW missing, NEW triggered
  PROVE  LET v == BuildRecommendation(score, missing, triggered) IN
         /\ v.type \in {"hold", "listing_gains", "skip", "insufficient"}
         /\ v.confidence \in {"low", "medium", "high"}
         /\ v.recommended => missing \cap CriticalFactors = {} /\ triggered = {}
<1> DEFINE gaps == missing \cap CriticalFactors # {}
           type == CASE gaps -> "insufficient"
                     [] ~gaps /\ (triggered # {} \/ score < 6500) -> "skip"
                     [] ~gaps /\ triggered = {} /\ score \in 6500..7999 -> "listing_gains"
                     [] OTHER -> "hold"
           confidence == IF gaps \/ OptionalFactors \subseteq missing THEN "low"
                         ELSE IF missing = {} THEN "high" ELSE "medium"
           v == BuildRecommendation(score, missing, triggered)
<1>1. v = [type |-> type, recommended |-> type \in {"hold", "listing_gains"},
           confidence |-> confidence]
  BY DEF BuildRecommendation
<1>2. confidence \in {"low", "medium", "high"}
  OBVIOUS
<1>3. \/ gaps /\ type = "insufficient"
      \/ ~gaps /\ (triggered # {} \/ score < 6500) /\ type = "skip"
      \/ ~gaps /\ triggered = {} /\ type \in {"hold", "listing_gains"}
  <2>1. CASE gaps
    BY <2>1
  <2>2. CASE ~gaps /\ (triggered # {} \/ score < 6500)
    BY <2>2
  <2>3. CASE ~gaps /\ ~(triggered # {} \/ score < 6500)
    BY <2>3
  <2> QED BY <2>1, <2>2, <2>3
<1> HIDE DEF type, confidence, v
<1>4. /\ v.type = type /\ v.confidence = confidence
      /\ v.recommended => type \in {"hold", "listing_gains"}
  <2>1. v.type = type
    BY Zenon, <1>1
  <2>2. v.confidence = confidence
    BY Zenon, <1>1
  <2>3. v.recommended => type \in {"hold", "listing_gains"}
    BY Zenon, <1>1
  <2> QED BY <2>1, <2>2, <2>3
<1>5. type \in {"hold", "listing_gains"} => ~gaps /\ triggered = {}
  BY <1>3
<1>6. type \in {"hold", "listing_gains", "skip", "insufficient"}
  BY <1>3
<1>7. /\ v.type \in {"hold", "listing_gains", "skip", "insufficient"}
      /\ v.confidence \in {"low", "medium", "high"}
      /\ v.recommended => ~gaps /\ triggered = {}
  BY Zenon, <1>2, <1>4, <1>5, <1>6
<1> QED BY Zenon, <1>7 DEF v

\* Every verdict can be stored.
LEMMA VerdictInRange ==
  ASSUME NEW e, IsVerdict(e)
  PROVE  EvaluationRow(e)
<1>1. PICK x : e.verdict = Verdict(x)
  BY DEF IsVerdict
<1> DEFINE r == CalculateIpoRatios(x.profile, x.issue.price)
           factors == DeriveScoreInput(x, r)
           flags == EvaluateCautionFlags(x, r)
           v == e.verdict
<1>2. v = IpoAnalysis(factors, flags, ScoreIpo(factors))
  BY Zenon, <1>1 DEF Verdict, AnalysisOf
<1>3. DOMAIN factors = DOMAIN Weights /\ \A f \in DOMAIN Weights : factors[f] \in FactorValue
  BY FactorsInRange
<1> HIDE DEF factors, flags, r
<1> DEFINE missing == {f \in DOMAIN factors : factors[f] = None}
           triggered == {f \in DOMAIN flags : flags[f] = "triggered"}
<1>4. /\ v.factors = factors /\ v.flags = flags /\ v.score = ScoreIpo(factors)
      /\ v.recommendation = BuildRecommendation(v.score, missing, triggered)
  BY <1>2 DEF IpoAnalysis
<1>5. v.score \in Percentages
  BY <1>3, <1>4, ScoreInRange DEF Rating, Percentages
<1>6. \A f \in DOMAIN v.factors : v.factors[f] # None => v.factors[f] \in Percentages
  BY <1>3, <1>4 DEF FactorValue, Percentages
<1>7. CriticalFactors \subseteq DOMAIN factors
  BY <1>3 DEF CriticalFactors
<1>8. /\ v.recommendation.type \in {"hold", "listing_gains", "skip", "insufficient"}
      /\ v.recommendation.confidence \in {"low", "medium", "high"}
      /\ v.recommendation.recommended => missing \cap CriticalFactors = {} /\ triggered = {}
  BY <1>4, RecommendationInRange
<1>9. ASSUME v.recommendation.recommended, NEW f \in CriticalFactors, NEW g \in DOMAIN v.flags
      PROVE  v.factors[f] # None /\ v.flags[g] # "triggered"
  BY <1>4, <1>7, <1>8, <1>9
<1> QED BY Zenon, <1>5, <1>6, <1>8, <1>9 DEF EvaluationRow, RecommendationRow

-----------------------------------------------------------------------------
(* What the web adds.                                                      *)

InputFields == {"issue", "profile", "subscription", "enrichment", "asOf"}

\* No grey-market reading is corroborated.
Uncorroborated(enrichment) == \A s \in enrichment : s.type = "gmp" => ~s.trusted

\* What is left of the inputs without the web.
LEMMA LeftWithoutWeb ==
  ASSUME NEW x, DOMAIN x = InputFields
  PROVE  LET w == WithoutWeb(x) IN
         /\ w.issue = x.issue /\ w.profile = x.profile /\ w.asOf = x.asOf
         /\ w.subscription = IF x.subscription # None /\ x.subscription.low THEN None
                             ELSE x.subscription
         /\ w.enrichment = {s \in x.enrichment : s.trusted}
  BY Zenon DEF WithoutWeb, InputFields

\* Advisory litigation signals trigger nothing.
LEMMA LitigationWithoutWeb ==
  ASSUME NEW e
  PROVE  LitigationRedFlag(e) = "triggered"
            <=> LitigationRedFlag({s \in e : s.trusted}) = "triggered"
<1> DEFINE t == {s \in e : s.trusted}
<1>1. Flagged(e) <=> Flagged(t)
  BY DEF Flagged, TrustedEntries, Entries
<1> HIDE DEF t
<1>2. \A any : LitigationRedFlag(any) = "triggered" <=> Flagged(any)
  <2> TAKE any
  <2>1. CASE Flagged(any)
    BY <2>1, LitigationBranches
  <2>2. CASE ~Flagged(any)
    <3>1. LitigationRedFlag(any) \in {"not_evaluable", "not_triggered"}
      BY <2>2, LitigationBranches
    <3> QED BY <2>2, <3>1
  <2> QED BY <2>1, <2>2
<1>3. LitigationRedFlag(e) = "triggered" <=> LitigationRedFlag(t) = "triggered"
  BY <1>1, <1>2
<1> QED BY <1>3 DEF t

\* A web reading of the demand neither triggers nor clears the late-demand flag.
LEMMA DemandWithoutWeb ==
  ASSUME NEW x, DOMAIN x = InputFields
  PROVE  WeakQibDemandNearClose(WithoutWeb(x)) = WeakQibDemandNearClose(x)
<1> DEFINE w == WithoutWeb(x)
           Printed(z) == IF z.subscription # None /\ z.subscription.low THEN None
                           ELSE z.subscription
<1>1. w.issue = x.issue /\ w.asOf = x.asOf
  BY LeftWithoutWeb
<1>2. w.subscription = Printed(x)
  BY LeftWithoutWeb
<1> HIDE DEF w
<1>3. Printed(w) = Printed(x)
  BY <1>2
<1> HIDE DEF Printed
<1>4. \A z : WeakQibDemandNearClose(z) =
        LET sub == Printed(z)
        IN  IF ~NearClose(z.issue, z.asOf) THEN "not_evaluable"
            ELSE Triggered(sub = None \/ sub.qib = None \/ sub.qib < 100)
  BY Zenon DEF WeakQibDemandNearClose, Printed
<1>5. WeakQibDemandNearClose(w) = WeakQibDemandNearClose(x)
  BY Zenon, <1>1, <1>3, <1>4
<1> QED BY <1>5 DEF w

\* The same hard flags are triggered without the web.
LEMMA FlagsWithoutWeb ==
  ASSUME NEW x, DOMAIN x = InputFields, NEW r,
         NEW v, v.flags = EvaluateCautionFlags(x, r),
         NEW w, w.flags = EvaluateCautionFlags(WithoutWeb(x), r)
  PROVE  TriggeredFlags(v) = TriggeredFlags(w)
<1> DEFINE y == WithoutWeb(x)
           F == EvaluateCautionFlags(x, r)
           G == EvaluateCautionFlags(y, r)
<1>1. y.profile = x.profile /\ y.enrichment = {s \in x.enrichment : s.trusted}
  BY LeftWithoutWeb
<1>2. /\ F.entirely_ofs_weak_growth = G.entirely_ofs_weak_growth
      /\ F.very_expensive_valuation = G.very_expensive_valuation
      /\ F.negative_cfo_despite_profits = G.negative_cfo_despite_profits
      /\ F.high_debt_no_reduction_use = G.high_debt_no_reduction_use
      /\ F.loss_making_no_path = G.loss_making_no_path
  <2> HIDE DEF y
  <2>1. /\ EntirelyOfsWeakGrowth(x, r) = EntirelyOfsWeakGrowth(y, r)
        /\ VeryExpensiveValuation(x, r) = VeryExpensiveValuation(y, r)
    BY <1>1 DEF EntirelyOfsWeakGrowth, VeryExpensiveValuation
  <2> QED BY Zenon, <1>1, <2>1 DEF EvaluateCautionFlags
<1>3. F.weak_qib_demand_near_close = G.weak_qib_demand_near_close
  BY Zenon, DemandWithoutWeb DEF EvaluateCautionFlags
<1>4. F.litigation_red_flag = "triggered" <=> G.litigation_red_flag = "triggered"
  BY Zenon, <1>1, LitigationWithoutWeb DEF EvaluateCautionFlags
<1>5. \A z : DOMAIN EvaluateCautionFlags(z, r) =
        {"entirely_ofs_weak_growth", "very_expensive_valuation", "weak_qib_demand_near_close",
         "negative_cfo_despite_profits", "high_debt_no_reduction_use", "litigation_red_flag",
         "loss_making_no_path"}
  BY DEF EvaluateCautionFlags
<1>6. DOMAIN F = DOMAIN G
  BY <1>5
<1>7. \A f \in DOMAIN F : F[f] = "triggered" <=> G[f] = "triggered"
  <2>1. \A f \in DOMAIN F :
          f \in {"entirely_ofs_weak_growth", "very_expensive_valuation",
                 "weak_qib_demand_near_close", "negative_cfo_despite_profits",
                 "high_debt_no_reduction_use", "litigation_red_flag", "loss_making_no_path"}
    BY <1>5
  <2> HIDE DEF F, G
  <2> QED BY <1>2, <1>3, <1>4, <2>1
<1> HIDE DEF F, G
<1>8. v.flags = F /\ w.flags = G
  BY DEF F, G
<1> QED BY <1>6, <1>7, <1>8 DEF TriggeredFlags

\* The two optional factors are all that the web adds to the score.
LEMMA ScoreWithoutWeb ==
  ASSUME NEW x, DOMAIN x = InputFields, Uncorroborated(x.enrichment), NEW r
  PROVE  ScoreIpo(DeriveScoreInput(x, r)) - ScoreIpo(DeriveScoreInput(WithoutWeb(x), r))
            \in 0 .. 1500
<1> DEFINE y == WithoutWeb(x)
           F == DeriveScoreInput(x, r)
           G == DeriveScoreInput(y, r)
<1>1. /\ y.profile = x.profile /\ y.enrichment = {s \in x.enrichment : s.trusted}
      /\ y.subscription = IF x.subscription # None /\ x.subscription.low THEN None
                          ELSE x.subscription
  BY LeftWithoutWeb
<1>2. G.gmp_sentiment = None
  <2>1. GmpReadings(y.enrichment, y.asOf) = {}
    BY <1>1 DEF GmpReadings, Uncorroborated
  <2>2. GmpSentiment(y.enrichment, y.asOf) = None
    BY Zenon, <2>1 DEF GmpSentiment, GmpReadings
  <2> QED BY Zenon, <2>2 DEF DeriveScoreInput
<1>3. G.qib_subscription = None \/ G.qib_subscription = F.qib_subscription
  <2>1. y.subscription = None \/ y.subscription = x.subscription
    BY <1>1
  <2> HIDE DEF y
  <2> QED BY Zenon, <2>1 DEF DeriveScoreInput, QibSubscription
<1>4. /\ G.business_quality = F.business_quality /\ G.financial_growth = F.financial_growth
      /\ G.return_ratios = F.return_ratios /\ G.valuation = F.valuation
      /\ G.promoter_quality = F.promoter_quality
  <2> HIDE DEF y
  <2> QED BY Zenon, <1>1 DEF DeriveScoreInput
<1>5. Rating(F) /\ Rating(G)
  BY FactorsInRange DEF Rating
<1> HIDE DEF F, G
<1> DEFINE a == Contribution(F, "business_quality")
           b == Contribution(F, "financial_growth")
           c == Contribution(F, "return_ratios")
           d == Contribution(F, "valuation")
           p == Contribution(F, "promoter_quality")
           q == Contribution(F, "qib_subscription")
           g == Contribution(F, "gmp_sentiment")
           qw == Contribution(G, "qib_subscription")
<1>6. /\ a \in 0 .. 2500 /\ b \in 0 .. 2000 /\ c \in 0 .. 1500 /\ d \in 0 .. 1500
      /\ p \in 0 .. 1000 /\ q \in 0 .. 1000 /\ g \in 0 .. 500
      /\ ScoreIpo(F) = a + b + c + d + p + q + g
  BY <1>5, ScoreIsSum
<1>7. ScoreIpo(G) = Contribution(G, "business_quality") + Contribution(G, "financial_growth")
                    + Contribution(G, "return_ratios") + Contribution(G, "valuation")
                    + Contribution(G, "promoter_quality") + qw + Contribution(G, "gmp_sentiment")
  BY <1>5, ScoreIsSum
<1>8. /\ Contribution(G, "business_quality") = a /\ Contribution(G, "financial_growth") = b
      /\ Contribution(G, "return_ratios") = c /\ Contribution(G, "valuation") = d
      /\ Contribution(G, "promoter_quality") = p /\ Contribution(G, "gmp_sentiment") = 0
      /\ qw = 0 \/ qw = q
  BY <1>2, <1>3, <1>4 DEF Contribution
<1> HIDE DEF a, b, c, d, p, q, g, qw
<1>9. ScoreIpo(G) = a + b + c + d + p + qw + 0
  BY <1>7, <1>8
<1>10. ScoreIpo(F) - ScoreIpo(G) \in 0 .. 1500
  <2>1. qw \in 0 .. 1000 /\ q - qw \in 0 .. 1000
    BY <1>6, <1>8
  <2>2. (a + b + c + d + p + q + g) - (a + b + c + d + p + qw + 0) = (q - qw) + g
    BY <1>6, <2>1
  <2>3. (q - qw) + g \in 0 .. 1500
    BY <1>6, <2>1
  <2> QED BY <1>6, <1>9, <2>2, <2>3
<1> QED BY <1>10 DEF F, G

-----------------------------------------------------------------------------
(* The tables and what the rescorers have read of them.                    *)

\* An issue, an extraction and a web reading on its way.
RowsAreRows ==
    /\ ipoIssue \in IssueStates
    /\ ipoProfile \in Profiles \cup {None}
    /\ ipoDay \in Nat
    /\ \E R : ipoSubs \in Seq(R)
    /\ \A i \in DOMAIN ipoSubs : SubscriptionRow(ipoSubs[i])
    /\ webReading # None => SubscriptionRow(webReading)

SignalsAreSignals ==
    /\ \A s \in ipoSignals : EnrichmentSignalRow(s)
    /\ Uncorroborated(ipoSignals)

PCs == {"rest", "profile", "subscription", "signals", "compare", "store"}
Statuses == {"insufficient_inputs", "skipped_unchanged", "evaluated", "failed"}

ReadersRead ==
    \A r \in Rescorers :
        /\ rescore[r].pc \in PCs
        /\ DOMAIN rescore[r].inputs = InputFields
        /\ Uncorroborated(rescore[r].inputs.enrichment)
        /\ rescore[r].answer # None => rescore[r].answer.status \in Statuses

EvidenceInv == RescorersWork /\ RowsAreRows /\ SignalsAreSignals /\ ReadersRead

\* Reading leaves the rescorers in order.
LEMMA ReadReads ==
  ASSUME EvidenceInv, NEW r \in Rescorers, NEW pc, NEW next \in PCs, NEW inputs, NEW official,
         Read(r, pc, next, inputs, official),
         DOMAIN inputs = InputFields, Uncorroborated(inputs.enrichment)
  PROVE  RescorersWork' /\ ReadersRead'
<1>1. /\ rescore' = [o \in Rescorers |-> rescore'[o]]
      /\ \A o \in Rescorers \ {r} : rescore'[o] = rescore[o]
      /\ rescore'[r] = [pc |-> next, inputs |-> inputs, official |-> official, answer |-> None]
  BY DEF EvidenceInv, RescorersWork, Read
<1>2. /\ rescore'[r].pc = next /\ rescore'[r].inputs = inputs /\ rescore'[r].answer = None
      /\ DOMAIN rescore'[r] = {"pc", "inputs", "official", "answer"}
  BY <1>1
<1>3. ASSUME NEW o \in Rescorers
      PROVE  /\ DOMAIN rescore'[o] = {"pc", "inputs", "official", "answer"}
             /\ rescore'[o].pc \in PCs
             /\ DOMAIN rescore'[o].inputs = InputFields
             /\ Uncorroborated(rescore'[o].inputs.enrichment)
             /\ rescore'[o].answer # None => rescore'[o].answer.status \in Statuses
  <2>1. CASE o = r
    BY <1>2, <2>1
  <2>2. CASE o # r
    <3>1. rescore'[o] = rescore[o]
      BY <1>1, <2>2
    <3> QED BY <3>1 DEF EvidenceInv, RescorersWork, ReadersRead
  <2> QED BY <2>1, <2>2
<1> QED BY <1>1, <1>3 DEF RescorersWork, ReadersRead

\* So does an answer.
LEMMA AnswerReads ==
  ASSUME EvidenceInv, NEW r \in Rescorers, NEW status \in Statuses, NEW evaluation,
         Answer(r, status, evaluation)
  PROVE  RescorersWork' /\ ReadersRead'
<1>1. /\ rescore' = [o \in Rescorers |-> rescore'[o]]
      /\ \A o \in Rescorers \ {r} : rescore'[o] = rescore[o]
      /\ rescore'[r].pc = "rest" /\ rescore'[r].inputs = rescore[r].inputs
      /\ rescore'[r].answer = [status |-> status, evaluation |-> evaluation]
      /\ DOMAIN rescore'[r] = {"pc", "inputs", "official", "answer"}
  BY DEF EvidenceInv, RescorersWork, Answer
<1>2. rescore'[r].answer.status \in Statuses /\ rescore'[r].pc \in PCs
  BY <1>1 DEF PCs
<1>3. ASSUME NEW o \in Rescorers
      PROVE  /\ DOMAIN rescore'[o] = {"pc", "inputs", "official", "answer"}
             /\ rescore'[o].pc \in PCs
             /\ DOMAIN rescore'[o].inputs = InputFields
             /\ Uncorroborated(rescore'[o].inputs.enrichment)
             /\ rescore'[o].answer # None => rescore'[o].answer.status \in Statuses
  <2>1. CASE o = r
    BY <1>1, <1>2, <2>1 DEF EvidenceInv, ReadersRead
  <2>2. CASE o # r
    <3>1. rescore'[o] = rescore[o]
      BY <1>1, <2>2
    <3> QED BY <3>1 DEF EvidenceInv, RescorersWork, ReadersRead
  <2> QED BY <2>1, <2>2
<1> QED BY <1>1, <1>3 DEF RescorersWork, ReadersRead

\* One step of a rescore.
LEMMA RescoreReads ==
  ASSUME EvidenceInv, NEW r \in Rescorers, RescoreStep(r)
  PROVE  EvidenceInv'
<1>1. UNCHANGED evidence
  BY DEF RescoreStep, StartRescore, ReadProfile, ReadSubscription, ReadSignals, Read, CompareLatest,
     StoreEvaluation
<1>2. RowsAreRows' /\ SignalsAreSignals'
  BY <1>1 DEF evidence, EvidenceInv, RowsAreRows, SignalsAreSignals, SubscriptionRow,
     EnrichmentSignalRow, Uncorroborated
<1>3. DOMAIN rescore[r].inputs = InputFields /\ Uncorroborated(rescore[r].inputs.enrichment)
  BY DEF EvidenceInv, ReadersRead
<1>4. RescorersWork' /\ ReadersRead'
  <2> DEFINE x == rescore[r].inputs
  <2>1. CASE StartRescore(r)
    <3> DEFINE y == [NoInputs EXCEPT !.issue = ipoIssue, !.asOf = ipoDay]
    <3>1. DOMAIN y = InputFields /\ y.enrichment = {}
      BY DEF NoInputs, InputFields
    <3>2. Read(r, "rest", "profile", y, None)
      BY <2>1 DEF StartRescore
    <3> HIDE DEF y
    <3> QED BY <3>1, <3>2, ReadReads DEF PCs, Uncorroborated
  <2>2. CASE ReadProfile(r)
    <3> DEFINE y == [x EXCEPT !.profile = ipoProfile]
    <3>1. DOMAIN y = InputFields /\ y.enrichment = x.enrichment
      BY <1>3 DEF InputFields
    <3>2. Read(r, "profile", "subscription", y, None)
      BY <2>2 DEF ReadProfile
    <3> HIDE DEF y
    <3> QED BY <1>3, <3>1, <3>2, ReadReads DEF PCs
  <2>3. CASE ReadSubscription(r)
    <3> DEFINE y == [x EXCEPT !.subscription = LatestSubscription(ipoSubs)]
    <3>1. DOMAIN y = InputFields /\ y.enrichment = x.enrichment
      BY <1>3 DEF InputFields
    <3>2. Read(r, "subscription", "signals", y, LatestSubscription(Official(ipoSubs)))
      BY <2>3 DEF ReadSubscription
    <3> HIDE DEF y
    <3> QED BY <1>3, <3>1, <3>2, ReadReads DEF PCs
  <2>4. CASE ReadSignals(r)
    <3> DEFINE y == [x EXCEPT !.enrichment = ipoSignals]
    <3>1. DOMAIN y = InputFields /\ y.enrichment = ipoSignals
      BY <1>3 DEF InputFields
    <3>2. Read(r, "signals", "compare", y, rescore[r].official)
      BY <2>4 DEF ReadSignals
    <3>3. Uncorroborated(ipoSignals)
      BY DEF EvidenceInv, SignalsAreSignals
    <3> HIDE DEF y
    <3> QED BY <3>1, <3>2, <3>3, ReadReads DEF PCs
  <2>5. CASE CompareLatest(r)
    <3>1. \/ \E status \in Statuses : \E evaluation : Answer(r, status, evaluation)
          \/ rescore' = [rescore EXCEPT ![r].pc = "store"]
      BY Zenon, <2>5 DEF CompareLatest, Statuses
    <3>2. CASE rescore' = [rescore EXCEPT ![r].pc = "store"]
      <4>1. /\ rescore' = [o \in Rescorers |-> rescore'[o]]
            /\ \A o \in Rescorers : /\ rescore'[o].inputs = rescore[o].inputs
                                    /\ rescore'[o].answer = rescore[o].answer
                                    /\ DOMAIN rescore'[o] = DOMAIN rescore[o]
                                    /\ rescore'[o].pc \in {"store", rescore[o].pc}
        BY <3>2 DEF EvidenceInv, RescorersWork
      <4> QED BY <4>1 DEF EvidenceInv, RescorersWork, ReadersRead, PCs
    <3> QED BY <3>1, <3>2, AnswerReads
  <2>6. CASE StoreEvaluation(r)
    <3>1. \E status \in Statuses : \E evaluation : Answer(r, status, evaluation)
      BY Zenon, <2>6 DEF StoreEvaluation, StoreUnlessThere, Statuses
    <3> QED BY <3>1, AnswerReads
  <2> QED BY <2>1, <2>2, <2>3, <2>4, <2>5, <2>6 DEF RescoreStep
<1> QED BY <1>2, <1>4 DEF EvidenceInv

\* The collector's signals are rows of the table, one per hash.
LEMMA SeeReads ==
  ASSUME EvidenceInv, NEW s \in WebSignals, SeeSignal(s)
  PROVE  SignalsAreSignals'
<1> DEFINE row == [f \in DOMAIN s \cup {"seen"} |-> IF f = "seen" THEN ipoDay ELSE s[f]]
<1>1. /\ row.hash = s.hash /\ row.type = s.type /\ row.trusted = s.trusted /\ row.seen = ipoDay
  BY ScoringAssumption DEF EnrichmentSignal
<1>2. /\ ipoSignals' = {old \in ipoSignals : old.hash # s.hash} \cup {row}
      /\ ipoDay' = ipoDay
  BY DEF SeeSignal, Upserted
<1>3. row.type \in {"gmp", "litigation"} /\ (row.type = "gmp" => ~row.trusted)
  BY <1>1, ScoringAssumption DEF EnrichmentSignal
<1> HIDE DEF row
<1>4. ipoDay \in Nat /\ \A old \in ipoSignals : EnrichmentSignalRow(old)
  BY DEF EvidenceInv, RowsAreRows, SignalsAreSignals
<1>5. ASSUME NEW t \in ipoSignals' PROVE EnrichmentSignalRow(t)'
  <2>1. CASE t = row
    BY <1>1, <1>2, <1>3, <1>4, <2>1 DEF EnrichmentSignalRow
  <2>2. CASE t # row
    BY <1>1, <1>2, <1>4, <1>5, <2>2 DEF EnrichmentSignalRow
  <2> QED BY <2>1, <2>2
<1>6. Uncorroborated(ipoSignals')
  BY <1>2, <1>3 DEF EvidenceInv, SignalsAreSignals, Uncorroborated
<1> QED BY <1>5, <1>6 DEF SignalsAreSignals

\* A row more.
LEMMA RowAdded ==
  ASSUME EvidenceInv, NEW row, SubscriptionRow(row), ipoSubs' = Append(ipoSubs, row),
         UNCHANGED ipoDay
  PROVE  /\ \E R : ipoSubs' \in Seq(R)
         /\ \A i \in DOMAIN ipoSubs' : SubscriptionRow(ipoSubs'[i])
<1>1. PICK R : ipoSubs \in Seq(R)
  BY DEF EvidenceInv, RowsAreRows
<1>2. ipoSubs \in Seq(R \cup {row})
  BY <1>1, SeqMonotonic
<1>3. /\ ipoSubs' \in Seq(R \cup {row})
      /\ Len(ipoSubs') = Len(ipoSubs) + 1 /\ Len(ipoSubs) \in Nat
      /\ \A i \in 1 .. Len(ipoSubs) : ipoSubs'[i] = ipoSubs[i]
      /\ ipoSubs'[Len(ipoSubs) + 1] = row
      /\ DOMAIN ipoSubs = 1 .. Len(ipoSubs) /\ DOMAIN ipoSubs' = 1 .. Len(ipoSubs) + 1
  BY <1>2, AppendProperties, LenProperties
<1>4. \A i \in DOMAIN ipoSubs' : i \in DOMAIN ipoSubs \/ i = Len(ipoSubs) + 1
  BY <1>3
<1> QED BY <1>3, <1>4 DEF EvidenceInv, RowsAreRows

\* A signal or a row is no less one on a later day.
LEMMA LaterReads ==
  ASSUME EvidenceInv, NEW n \in Nat, ipoDay' = ipoDay + n,
         UNCHANGED <<ipoIssue, ipoProfile, ipoSubs, ipoSignals, webReading, rescore>>
  PROVE  EvidenceInv'
<1>1. ipoDay \in Nat /\ ipoDay' \in Nat /\ 0 .. ipoDay \subseteq 0 .. ipoDay'
  BY DEF EvidenceInv, RowsAreRows
<1>2. RowsAreRows'
  BY <1>1 DEF EvidenceInv, RowsAreRows, SubscriptionRow
<1>3. SignalsAreSignals'
  BY <1>1 DEF EvidenceInv, SignalsAreSignals, EnrichmentSignalRow, Uncorroborated
<1> QED BY <1>2, <1>3 DEF EvidenceInv, RescorersWork, ReadersRead

\* Nothing is stored and nobody rescores at first.
LEMMA EvidenceStarts == ScoringInit => EvidenceInv
<1> SUFFICES ASSUME ScoringInit PROVE EvidenceInv
  OBVIOUS
<1>1. ipoIssue \in IssueStates
  BY ScoringAssumption DEF ScoringInit
<1>2. ipoProfile \in Profiles \cup {None}
  BY ScoringAssumption DEF ScoringInit
<1>3. ipoSubs \in Seq({}) /\ DOMAIN ipoSubs = {} /\ ipoDay \in Nat /\ webReading = None
  BY EmptySeq, LenProperties DEF ScoringInit
<1>4. RowsAreRows
  BY <1>1, <1>2, <1>3 DEF RowsAreRows
<1>5. SignalsAreSignals
  BY DEF ScoringInit, SignalsAreSignals, Uncorroborated
<1>6. rescore = [r \in Rescorers |-> Resting(None)]
  BY DEF ScoringInit
<1>7. /\ Resting(None).pc = "rest" /\ Resting(None).answer = None
      /\ DOMAIN Resting(None) = {"pc", "inputs", "official", "answer"}
      /\ DOMAIN Resting(None).inputs = InputFields /\ Resting(None).inputs.enrichment = {}
  BY DEF Resting, NoInputs, InputFields
<1> DEFINE at == Resting(None)
<1> HIDE DEF at
<1>8. \A r \in Rescorers : rescore[r] = at
  BY <1>6 DEF at
<1>9. RescorersWork
  BY <1>6, <1>7 DEF RescorersWork
<1>10. ReadersRead
  BY <1>7, <1>8 DEF ReadersRead, PCs, Uncorroborated, at
<1> QED BY <1>4, <1>5, <1>9, <1>10 DEF EvidenceInv

\* The rescorers read only what the writers wrote.
LEMMA EvidenceStep == EvidenceInv /\ [ScoringNext]_ScoringVars => EvidenceInv'
<1> SUFFICES ASSUME EvidenceInv, [ScoringNext]_ScoringVars PROVE EvidenceInv'
  OBVIOUS
<1>1. ASSUME NEW r \in Rescorers, RescoreStep(r) PROVE EvidenceInv'
  BY <1>1, RescoreReads
<1>2. CASE UNCHANGED <<evidence, rescore>>
  BY <1>2 DEF evidence, EvidenceInv, RescorersWork, RowsAreRows, SignalsAreSignals, ReadersRead,
     SubscriptionRow, EnrichmentSignalRow, Uncorroborated
<1>3. ASSUME NEW i \in DOMAIN evals, DeleteEvaluation(i) PROVE EvidenceInv'
  BY <1>2, <1>3 DEF DeleteEvaluation
<1>4. ASSUME UNCHANGED <<ipoDay, rescore>>, RowsAreRows', UNCHANGED ipoSignals
      PROVE  EvidenceInv'
  BY <1>4 DEF EvidenceInv, RescorersWork, SignalsAreSignals, ReadersRead, EnrichmentSignalRow,
     Uncorroborated
<1>5. ASSUME NEW i \in IssueStates, UpdateIssue(i) PROVE EvidenceInv'
  <2>1. RowsAreRows'
    BY <1>5 DEF UpdateIssue, EvidenceInv, RowsAreRows, SubscriptionRow
  <2> QED BY <1>4, <1>5, <2>1 DEF UpdateIssue, Write
<1>6. ASSUME NEW p \in Profiles, SubmitExtraction(p) PROVE EvidenceInv'
  <2>1. RowsAreRows'
    BY <1>6 DEF SubmitExtraction, EvidenceInv, RowsAreRows, SubscriptionRow
  <2> QED BY <1>4, <1>6, <2>1 DEF SubmitExtraction, Write
<1>7. ASSUME NEW q \in Qibs, NEW at \in {0, ipoDay}, CreateSubscription(at, q)
      PROVE  EvidenceInv'
  <2> DEFINE row == [at |-> at, qib |-> q, low |-> FALSE]
  <2>1. SubscriptionRow(row)
    BY ScoringAssumption DEF EvidenceInv, RowsAreRows, SubscriptionRow
  <2>2. ipoSubs' = Append(ipoSubs, row) /\ UNCHANGED <<ipoIssue, ipoProfile, ipoDay, webReading>>
    BY <1>7 DEF CreateSubscription
  <2> HIDE DEF row
  <2>3. /\ \E R : ipoSubs' \in Seq(R)
        /\ \A i \in DOMAIN ipoSubs' : SubscriptionRow(ipoSubs'[i])
    BY <2>1, <2>2, RowAdded
  <2>4. RowsAreRows'
    BY <2>2, <2>3 DEF EvidenceInv, RowsAreRows, SubscriptionRow
  <2> QED BY <1>4, <1>7, <2>4 DEF CreateSubscription, Write
<1>8. ASSUME NEW q \in Qibs, CollectReading(q) PROVE EvidenceInv'
  <2> DEFINE row == [at |-> ipoDay, qib |-> q, low |-> TRUE]
  <2>1. SubscriptionRow(row)
    BY ScoringAssumption DEF EvidenceInv, RowsAreRows, SubscriptionRow
  <2>2. webReading' = row /\ UNCHANGED <<ipoIssue, ipoProfile, ipoSubs, ipoDay>>
    BY <1>8 DEF CollectReading
  <2> HIDE DEF row
  <2>3. RowsAreRows'
    BY <2>1, <2>2 DEF EvidenceInv, RowsAreRows, SubscriptionRow
  <2> QED BY <1>4, <1>8, <2>3 DEF CollectReading, Write
<1>9. CASE StoreReading
  <2>1. /\ SubscriptionRow(webReading) /\ ipoSubs' = Append(ipoSubs, webReading)
        /\ webReading' = None /\ UNCHANGED <<ipoIssue, ipoProfile, ipoDay>>
    BY <1>9 DEF StoreReading, EvidenceInv, RowsAreRows
  <2>2. /\ \E R : ipoSubs' \in Seq(R)
        /\ \A i \in DOMAIN ipoSubs' : SubscriptionRow(ipoSubs'[i])
    BY <2>1, RowAdded
  <2>3. RowsAreRows'
    BY <2>1, <2>2 DEF EvidenceInv, RowsAreRows, SubscriptionRow
  <2> QED BY <1>4, <1>9, <2>3 DEF StoreReading
<1>10. ASSUME NEW s \in WebSignals, SeeSignal(s) PROVE EvidenceInv'
  <2>1. SignalsAreSignals'
    BY <1>10, SeeReads
  <2>2. UNCHANGED <<ipoIssue, ipoProfile, ipoSubs, ipoDay, webReading, rescore>>
    BY <1>10 DEF SeeSignal, Write
  <2> QED BY <2>1, <2>2 DEF EvidenceInv, RescorersWork, RowsAreRows, ReadersRead, SubscriptionRow
<1>11. ASSUME NEW n \in Leaps, NextDay(n) PROVE EvidenceInv'
  <2>1. n \in Nat
    BY ScoringAssumption
  <2> QED BY <1>11, <2>1, LaterReads DEF NextDay, Write
<1>12. CASE UNCHANGED ScoringVars
  BY <1>2, <1>12 DEF ScoringVars
<1> QED
  BY Zenon, <1>1, <1>3, <1>5, <1>6, <1>7, <1>8, <1>9, <1>10, <1>11, <1>12 DEF ScoringNext

-----------------------------------------------------------------------------
(* The theorems.                                                           *)

\* Nothing is stored and nobody rescores at first.
LEMMA ScoringStarts == ScoringInit => ScoringInv
<1> SUFFICES ASSUME ScoringInit PROVE ScoringInv
  OBVIOUS
<1>1. evals = <<>> /\ evals \in Seq({}) /\ DOMAIN evals = {}
  BY EmptySeq, LenProperties DEF ScoringInit
<1>2. rescore = [r \in Rescorers |-> Resting(None)]
  BY DEF ScoringInit
<1>3. RescorersWork
  BY <1>2 DEF RescorersWork, Resting
<1>4. AnswerFitsInputs
  BY <1>2 DEF AnswerFitsInputs, Judged, Answered, Resting
<1> QED BY <1>1, <1>3, <1>4 DEF ScoringInv, StoredVerdicts, JudgedOnce

\* Steps of the writers leave the evaluations and the rescorers alone.
LEMMA ScoringStep == ScoringInv /\ [ScoringNext]_ScoringVars => ScoringInv'
<1> SUFFICES ASSUME ScoringInv, [ScoringNext]_ScoringVars PROVE ScoringInv'
  OBVIOUS
<1>1. ASSUME NEW r \in Rescorers, RescoreStep(r) PROVE ScoringInv'
  <2>1. CASE CompareLatest(r)
    BY <2>1, CompareFits
  <2>2. CASE StoreEvaluation(r)
    BY <2>2, StoreFits
  <2>3. CASE StartRescore(r) \/ ReadProfile(r) \/ ReadSubscription(r) \/ ReadSignals(r)
    BY Zenon, <2>3, ReadFits DEF StartRescore, ReadProfile, ReadSubscription, ReadSignals
  <2> QED BY <1>1, <2>1, <2>2, <2>3 DEF RescoreStep
<1>2. ASSUME NEW i \in DOMAIN evals, DeleteEvaluation(i) PROVE ScoringInv'
  BY <1>2, DeleteFits
<1>3. CASE UNCHANGED <<evals, rescore>>
  BY <1>3 DEF ScoringInv, RescorersWork, StoredVerdicts, JudgedOnce, AnswerFitsInputs, Judged,
     Answered
<1>4. CASE \/ Write \/ StoreReading \/ UNCHANGED ScoringVars
  BY <1>3, <1>4 DEF Write, StoreReading, ScoringVars
<1> QED
  BY Zenon, <1>1, <1>2, <1>4 DEF ScoringNext, UpdateIssue, SubmitExtraction, CreateSubscription,
     CollectReading, SeeSignal, NextDay

\* The rows stay verdicts on the inputs they are filed under.
THEOREM ScoringInvariant == ScoringSpec => []ScoringInv
  BY ScoringStarts, ScoringStep, PTL DEF ScoringSpec

\* Whatever writers and other rescorers do in between, a rescore that answers with an
\* evaluation, its own or one it found, answers with the one its inputs call for
\* (rescore_issue, compute_inputs_fingerprint).
THEOREM AnswersFit == ScoringSpec => []AnswerFitsInputs
<1>1. ScoringInv => AnswerFitsInputs
  BY DEF ScoringInv
<1> QED BY <1>1, ScoringInvariant, PTL

\* However many rescorers race to store, no inputs have two evaluations (the unique
\* constraint of ipo_scores, create_evaluation).
THEOREM NothingIsJudgedTwice == ScoringSpec => []JudgedOnce
<1>1. ScoringInv => JudgedOnce
  BY DEF ScoringInv
<1> QED BY <1>1, ScoringInvariant, PTL

\* The tables stay tables and the rescorers read them.
THEOREM EvidenceInvariant == ScoringSpec => []EvidenceInv
  BY EvidenceStarts, EvidenceStep, PTL DEF ScoringSpec

\* Whatever may be read, written or answered in between, the tables hold the rows of their
\* schemas: every percentage an evaluation stores is one, whatever the extraction it is
\* computed from, and nothing is recommended on missing evidence or against a hard flag
\* (IpoScore, IpoRecommendation, build_recommendation).
THEOREM ScoringTypeCorrect == ScoringSpec => []ScoringTypeOK
<1>1. ScoringInv /\ EvidenceInv => ScoringTypeOK
  <2> SUFFICES ASSUME ScoringInv, EvidenceInv PROVE ScoringTypeOK
    OBVIOUS
  <2>1. \A i \in DOMAIN evals : EvaluationRow(evals[i])
    BY VerdictInRange DEF ScoringInv, StoredVerdicts
  <2>2. /\ ipoIssue \in IssueStates /\ ipoProfile \in Profiles \cup {None}
        /\ \A i \in DOMAIN ipoSubs : SubscriptionRow(ipoSubs[i])
        /\ \A s \in ipoSignals : EnrichmentSignalRow(s)
    BY DEF EvidenceInv, RowsAreRows, SignalsAreSignals
  <2>3. /\ \A r \in Rescorers : rescore[r].pc \in PCs
        /\ \A r \in Answered : rescore[r].answer.status \in Statuses
    BY DEF EvidenceInv, ReadersRead, Answered
  <2> QED BY Zenon, <2>1, <2>2, <2>3 DEF ScoringTypeOK, PCs, Statuses
<1> QED BY <1>1, ScoringInvariant, EvidenceInvariant, PTL

\* Web evidence triggers and clears no hard flag, and adds to the score no more than the
\* two optional factors weigh: whatever the tables hold, whichever reading is the latest and
\* whenever it was read (derive_score_input, evaluate_caution_flags).
THEOREM WebIsAdvisory == ScoringSpec => []WebEvidenceIsAdvisory
<1>1. ScoringInv /\ EvidenceInv => WebEvidenceIsAdvisory
  <2> SUFFICES ASSUME ScoringInv, EvidenceInv, NEW r \in Judged
               PROVE  LET v == rescore[r].answer.evaluation.verdict
                          w == Verdict(WithoutWeb(rescore[r].inputs))
                      IN  /\ TriggeredFlags(v) = TriggeredFlags(w)
                          /\ v.score - w.score \in 0 .. 1500
    BY DEF WebEvidenceIsAdvisory
  <2> DEFINE x == rescore[r].inputs
             y == WithoutWeb(x)
             v == rescore[r].answer.evaluation.verdict
             w == Verdict(y)
             ratios == CalculateIpoRatios(x.profile, x.issue.price)
  <2>1. DOMAIN x = InputFields /\ Uncorroborated(x.enrichment)
    BY DEF Judged, Answered, EvidenceInv, ReadersRead
  <2>2. v = Verdict(x)
    BY DEF ScoringInv, AnswerFitsInputs
  <2>3. y.issue = x.issue /\ y.profile = x.profile
    BY <2>1, LeftWithoutWeb
  <2> HIDE DEF x, v
  <2>4. CalculateIpoRatios(y.profile, y.issue.price) = ratios
    BY Zenon, <2>3
  <2> HIDE DEF ratios, y
  <2>5. v = IpoAnalysis(DeriveScoreInput(x, ratios), EvaluateCautionFlags(x, ratios),
                        ScoreIpo(DeriveScoreInput(x, ratios)))
    BY Zenon, <2>2 DEF Verdict, AnalysisOf, ratios
  <2>6. w = IpoAnalysis(DeriveScoreInput(y, ratios), EvaluateCautionFlags(y, ratios),
                        ScoreIpo(DeriveScoreInput(y, ratios)))
    BY Zenon, <2>4 DEF Verdict, AnalysisOf
  <2> HIDE DEF w
  <2>7. /\ v.flags = EvaluateCautionFlags(x, ratios) /\ v.score = ScoreIpo(DeriveScoreInput(x, ratios))
        /\ w.flags = EvaluateCautionFlags(y, ratios) /\ w.score = ScoreIpo(DeriveScoreInput(y, ratios))
    BY <2>5, <2>6 DEF IpoAnalysis
  <2>8. TriggeredFlags(v) = TriggeredFlags(w)
    BY <2>1, <2>7, FlagsWithoutWeb DEF y
  <2>9. v.score - w.score \in 0 .. 1500
    BY <2>1, <2>7, ScoreWithoutWeb DEF y
  <2> QED BY <2>8, <2>9 DEF v, w, x, y
<1> QED BY <1>1, ScoringInvariant, EvidenceInvariant, PTL
=============================================================================
