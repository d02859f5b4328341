----------------------------- MODULE CandleRows -----------------------------
(***************************************************************************)
(* One symbol's daily candles as data: the rows of a parquet file and the  *)
(* pure decisions taken on them by backend/daily_data_loader.py,           *)
(* backend/data_quality/candles.py and backend/data_quality/repair.py.     *)
(*                                                                         *)
(* A frame is a set of rows, so exact duplicates are one row, as after     *)
(* drop_duplicates().  A day is a natural number; Undated stands for a     *)
(* timestamp pandas cannot parse (NaT).  A bar is a price and a volume: two*)
(* bars of one day with different prices are a conflict, and a negative    *)
(* volume stands for every structurally impossible bar.                    *)
(***************************************************************************)
EXTENDS Integers, FiniteSets

CONSTANTS
    Horizon,            \* the last calendar day of the model
    Weekend,            \* the days on which the exchange never trades
    Bars,               \* the distinct bars a vendor may quote for one day
    MaxTolerableGap,    \* _MAX_TOLERABLE_GAP_DAYS (7 in the code)
    MaxCalendarGap,     \* MAX_CALENDAR_GAP_DAYS (7)
    StaleTolerance,     \* STALE_LATEST_TOLERANCE_DAYS (4)
    RecheckDays,        \* VENDOR_EARLIEST_RECHECK_DAYS (30)
    DropFloor,          \* MAX_DROPPED_DATES_FLOOR (3)
    DropPercent         \* MAX_DROPPED_DATE_RATIO, in percent (2)

Days    == 1..Horizon
Undated == 0
Row     == [day : Days \cup {Undated}, bar : Bars]
Window  == [from : Days, to : Days]

ASSUME CandleAssumption ==
    /\ Horizon \in Nat \ {0}
    /\ Weekend \subseteq Days
    /\ \A b \in Bars : b.volume \in Int
    /\ \A k \in {MaxTolerableGap, MaxCalendarGap, StaleTolerance, RecheckDays,
                 DropFloor, DropPercent} : k \in Nat

-----------------------------------------------------------------------------
(* Bounds and coverage (daily_data_loader.py).                             *)

Dates(rows) == {r.day : r \in rows} \ {Undated}

\* _date_bounds: the first and last dated candle, Undated when there is none.
IsFirst(rows, d) == d \in Dates(rows) /\ \A e \in Dates(rows) : d <= e
IsLast(rows, d)  == d \in Dates(rows) /\ \A e \in Dates(rows) : e <= d
First(rows) == IF \E d \in Days : IsFirst(rows, d)
               THEN CHOOSE d \in Days : IsFirst(rows, d) ELSE Undated
Last(rows)  == IF \E d \in Days : IsLast(rows, d)
               THEN CHOOSE d \in Days : IsLast(rows, d) ELSE Undated

\* _only_unpublished_days_missing: weekends, and the requested end itself when
\* the scanner says that candle may not exist yet.
OnlyUnpublishedDaysMissing(last, end, allowEnd) ==
    \/ last >= end
    \/ /\ end - last <= MaxTolerableGap
       /\ \A d \in (last + 1)..end : d \in Weekend \/ (d = end /\ allowEnd)

\* _cache_reaches_back_far_enough; vendorEarliest = Undated is "no evidence".
ReachesBackFarEnough(first, start, vendorEarliest) ==
    first <= start \/ (vendorEarliest # Undated /\ first = vendorEarliest)

\* _cache_covers_range; checked = Undated is "no .checked marker".
CoversRange(first, last, start, end, vendorEarliest, checked, tail) ==
    /\ first # Undated
    /\ ReachesBackFarEnough(first, start, vendorEarliest)
    /\ \/ OnlyUnpublishedDaysMissing(last, end, tail)
       \/ /\ tail
          /\ end - last <= MaxTolerableGap
          /\ checked # Undated /\ checked >= end

\* _slice_to_range with preserve_malformed_rows: undated rows are kept.
Slice(rows, from, to) == {r \in rows : r.day = Undated \/ r.day \in from..to}

\* _store_fetched_window under the lock: the answer replaces the requested
\* interval, every other dated row stays, and an answer whose window spans the
\* whole dated cache replaces the undateable rows too.
Overlay(rows, from, to, answer) ==
    LET full == from <= First(rows) /\ Last(rows) <= to
        kept == {r \in rows : /\ r.day \notin from..to
                              /\ full => r.day # Undated}
    IN  IF Dates(rows) = {} THEN answer ELSE kept \cup answer

-----------------------------------------------------------------------------
(* The .firstbar evidence: what the vendor said about its earliest bar.    *)
(* heard is history, no field of the file: the day of the vendor's answer. *)

NoEvidence == [from |-> Undated, earliest |-> Undated, on |-> Undated,
               heard |-> Undated]
Evidence   == [from : Days \cup {Undated}, earliest : Days \cup {Undated},
               on : Days \cup {Undated}, heard : Days \cup {Undated}]

\* _read_vendor_earliest_evidence: the chronology a marker must establish.
Coherent(ev) == ev # NoEvidence /\ ev.from < ev.earliest /\ ev.earliest <= ev.on

\* The wall-clock age test shared by the reader and the recorder.
FreshEvidence(ev, now) == now - ev.on \in 0..(RecheckDays - 1)

\* Mutant of VendorEarliestFor: the evidence never expires.
VendorEarliestForever(ev, start, now) ==
    IF Coherent(ev) /\ ev.from <= start THEN ev.earliest ELSE Undated

\* _vendor_earliest_for: the earliest bar, when the evidence answers a request
\* that begins on start.
VendorEarliestFor(ev, start, now) ==
    IF Coherent(ev) /\ FreshEvidence(ev, now) /\ ev.from <= start
    THEN ev.earliest ELSE Undated

\* Mutant of RecordedEvidence: an answer that lost a date still counts.
RecordedDespiteLostDates(ev, start, answer, heard, now) ==
    IF \/ First(answer) > now
       \/ Coherent(ev) /\ ev.from < start /\ FreshEvidence(ev, now)
    THEN ev
    ELSE IF First(answer) <= start THEN NoEvidence
    ELSE [from |-> start, earliest |-> First(answer), on |-> now, heard |-> heard]

\* _record_vendor_earliest: the marker after a raw non-empty answer to a probe
\* that began on start and was answered on the day heard.
RecordedEvidence(ev, start, answer, heard, now) ==
    IF \/ \E r \in answer : r.day = Undated
       \/ First(answer) > now
       \/ Coherent(ev) /\ ev.from < start /\ FreshEvidence(ev, now)
    THEN ev
    ELSE IF First(answer) <= start THEN NoEvidence
    ELSE [from |-> start, earliest |-> First(answer), on |-> now, heard |-> heard]

-----------------------------------------------------------------------------
(* Validation (candles.py) and the repair decision (repair.py).            *)

InvalidRows(rows)    == {r \in rows : r.day = Undated}
DuplicateRows(rows)  == {r \in rows : \E q \in rows : q # r /\ q.day = r.day}
ImpossibleRows(rows) == {r \in rows : r.bar.volume < 0}
Gaps(rows) ==
    {w \in Window : /\ w.from <= w.to
                    /\ w.from - 1 \in Dates(rows) /\ w.to + 1 \in Dates(rows)
                    /\ (w.from..w.to) \cap Dates(rows) = {}
                    /\ w.to - w.from + 2 > MaxCalendarGap}

FatalCodes == {"EMPTY_FRAME", "INVALID_DATE", "DUPLICATE_DATE", "NEGATIVE_VOLUME"}
Codes      == FatalCodes \cup {"STALE_LATEST_CANDLE", "CALENDAR_DATE_GAP"}

\* validate_candles: the number of affected rows per finding code (0: no such
\* finding).  An empty or undated frame is reported alone.
Affected(rows, now) ==
    LET dated == rows # {} /\ InvalidRows(rows) = {}
        count == [c \in Codes |->
            CASE c = "EMPTY_FRAME"         -> 0
              [] c = "INVALID_DATE"        -> Cardinality(InvalidRows(rows))
              [] c = "DUPLICATE_DATE"      -> Cardinality(DuplicateRows(rows))
              [] c = "NEGATIVE_VOLUME"     -> Cardinality(ImpossibleRows(rows))
              [] c = "STALE_LATEST_CANDLE" ->
                    IF now - Last(rows) > StaleTolerance THEN 1 ELSE 0
              [] c = "CALENDAR_DATE_GAP"   -> Cardinality(Gaps(rows))]
    IN  [c \in Codes |-> IF dated \/ c = "INVALID_DATE" THEN count[c] ELSE 0]

Findings(rows, now) ==
    IF rows = {} THEN {"EMPTY_FRAME"}
    ELSE {c \in Codes : Affected(rows, now)[c] > 0}

\* _health_profile: fatal findings, findings, affected rows; smaller is healthier.
Healthier(new, old, now) ==
    LET fatal(rows) == Cardinality(Findings(rows, now) \cap FatalCodes)
        all(rows)   == Cardinality(Findings(rows, now))
        sum(rows)   == LET a == Affected(rows, now) IN
                       a["INVALID_DATE"] + a["DUPLICATE_DATE"] + a["NEGATIVE_VOLUME"]
                       + a["STALE_LATEST_CANDLE"] + a["CALENDAR_DATE_GAP"]
    IN  \/ fatal(new) < fatal(old)
        \/ fatal(new) = fatal(old) /\ all(new) < all(old)
        \/ fatal(new) = fatal(old) /\ all(new) = all(old) /\ sum(new) < sum(old)

\* plan_repair: the intervals a repair asks the vendor for.  full replaces the
\* frame (REFETCH_FULL), the others are overlaid on it (REFETCH_WINDOW).
Refetch == [full : BOOLEAN, from : Int, to : Int]
RefetchPlan(rows, start, now, allowStale) ==
    LET codes == Findings(rows, now)
        bad   == Dates(ImpossibleRows(rows))
        everything == [full |-> TRUE, from |-> start, to |-> now]
        span(lo, hi) == [full |-> FALSE, from |-> lo, to |-> hi]
    IN  IF codes = {} THEN {}
        ELSE IF Dates(rows) = {} \/ "DUPLICATE_DATE" \in codes THEN {everything}
        ELSE IF "INVALID_DATE" \in codes THEN {span(First(rows), now)}
        ELSE {span(First(ImpossibleRows(rows)), Last(ImpossibleRows(rows))) : x \in
                {c \in codes : c = "NEGATIVE_VOLUME"}}
             \cup {span(Last(rows) + 1, now) : x \in
                {c \in codes : c = "STALE_LATEST_CANDLE" /\ allowStale}}
             \cup {span(w.from, w.to) : w \in Gaps(rows)}

\* _has_offline_work: the plan holds a step that needs no vendor.
HasOfflineWork(rows, now) ==
    Findings(rows, now) \cap {"INVALID_DATE", "NEGATIVE_VOLUME"} # {}
        /\ Dates(rows) # {}

\* _run_plan, one refetch answered: replace the frame or overlay the interval.
Refetched(rows, refetch, answer) ==
    IF answer = {} THEN rows
    ELSE IF refetch.full THEN answer
    ELSE {r \in rows : r.day \notin refetch.from..refetch.to} \cup answer

\* _keep_highest_volume_per_date: collapse days whose bars differ in volume only.
KeepHighestVolume(rows) ==
    {r \in rows : \/ r.day = Undated
                  \/ \E q \in rows : q.day = r.day /\ q.bar.price # r.bar.price
                  \/ \A q \in rows : q.day = r.day => q.bar.volume <= r.bar.volume}

\* apply_frame_actions on the plan of the refetched frame: drop undated rows,
\* settle volume-only duplicates, drop the bars that are still impossible.
OfflineFixed(rows, now) ==
    LET codes == IF Dates(rows) = {} THEN {} ELSE Findings(rows, now)
        dated == IF "INVALID_DATE" \in codes
                 THEN rows \ InvalidRows(rows) ELSE rows
        kept  == KeepHighestVolume(dated)
    IN  IF "NEGATIVE_VOLUME" \in codes THEN kept \ ImpossibleRows(kept) ELSE kept

\* exceeds_drop_budget, on the distinct trading days of the two frames.
ExceedsDropBudget(old, new) ==
    LET before == Cardinality(Dates(old))
        lost   == before - Cardinality(Dates(new))
    IN  lost > DropFloor /\ lost * 100 > DropPercent * before
=============================================================================
