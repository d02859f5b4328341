---------------------------- MODULE CandleCache -----------------------------
(***************************************************************************)
(* One symbol's candle cache and every operation that touches it: the      *)
(* direct read-or-download of get_daily_history, the prefetch top-up of    *)
(* ensure_daily_history and the quality repair of repair_symbol, run by    *)
(* concurrent clients (threads or processes) that share the parquet, its   *)
(* sidecars (.firstbar, .checked, .repaired) and its write lock.  Vendor   *)
(* requests happen outside the lock, clients may be killed at any step,    *)
(* and the vendor may fail, answer nothing, garble a date or send a row    *)
(* nobody asked for.                                                       *)
(***************************************************************************)
EXTENDS CandleRows

CONSTANTS
    Clients,        \* the threads and processes that use the cache
    NoFile,         \* no parquet exists
    Unreadable,     \* the parquet's bytes cannot be read
    Free,           \* nobody holds the write lock
    NoBar,          \* the vendor has published nothing for a day
    HistoryDays,    \* years_back, in days: how far back the prefetch asks
    RetryDays,      \* REPAIR_RETRY_AFTER_DAYS (7)
    InitialFiles,   \* what earlier sessions may have left on disk
    Roles,          \* Roles[c]: the operations client c runs
    Faults          \* the vendor faults of this instance, see Answers

ASSUME CacheAssumption ==
    /\ \A rows \in SUBSET Row : rows \notin {NoFile, Unreadable}
    /\ NoFile # Unreadable
    /\ InitialFiles \subseteq {NoFile, Unreadable} \cup SUBSET Row
    /\ Free \notin Clients
    /\ NoBar \notin Bars
    /\ HistoryDays \in Nat /\ RetryDays \in Nat
    /\ Roles \in [Clients -> SUBSET {"direct", "prefetch", "repair"}]
    /\ Faults \subseteq {"empty", "garbled", "extra"}

VARIABLES
    vendor,     \* vendor[d]: the bar the vendor publishes for day d
    since,      \* since[d]: the day on which it first did, or Undated
    now,        \* the wall-clock day
    file,       \* the live parquet
    firstbar,   \* the .firstbar sidecar
    checked,    \* the .checked sidecar: a day, or Undated
    repaired,   \* the .repaired sidecar
    lock,       \* the holder of cache_write_lock
    pc,         \* where each client is in its operation
    op          \* each client's local variables

disk  == <<file, firstbar, checked, repaired>>
world == <<vendor, since, now>>
vars  == <<vendor, since, now, file, firstbar, checked, repaired, lock, pc, op>>

Files == {NoFile, Unreadable} \cup SUBSET Row
FileRows(f) == IF f \in {NoFile, Unreadable} THEN {} ELSE f

NoMarker == [on |-> Undated, codes |-> {}]
Marker   == [on : Days \cup {Undated}, codes : SUBSET Codes]

\* The locals of one operation: its interval, the caller's flags, the vendor's
\* answer, the frame read and the frame to publish, and the refetches to come.
\* heard and owed are history: the day of the answer, and the bars that a reader
\* must be given.
Op == [kind : {"direct", "prefetch", "repair"},
       from : Days, to : Days,
       tail : BOOLEAN,               \* allow_unpublished_tail
       probe : BOOLEAN,              \* record_earliest
       earliest : Days \cup {Undated},
       seen : Days \cup {Undated},   \* the .checked marker a direct caller read
       answer : SUBSET Row,
       heard : Days \cup {Undated},
       owed : SUBSET Days,
       basis : SUBSET Row,
       merged : SUBSET Row,
       better : BOOLEAN,             \* the candidate improves on its basis
       asked : BOOLEAN,              \* the repair asked the vendor
       todo : SUBSET Refetch]

Idle == [kind |-> "direct", from |-> 1, to |-> 1, tail |-> FALSE, probe |-> TRUE,
         earliest |-> Undated, seen |-> Undated, answer |-> {},
         heard |-> Undated, owed |-> {}, basis |-> {}, merged |-> {}, better |-> FALSE, asked |-> FALSE, todo |-> {}]

Steps == {"idle", "read", "plan", "fetch", "mark", "lock", "merge", "publish",
          "evidence", "inspect", "snapshot", "decide", "refetch", "commit",
          "recheck", "replace", "receipt", "release"}

\* The steps a client takes while it holds the lock.
Locked == {"merge", "publish", "evidence", "snapshot", "recheck", "replace",
           "receipt", "release"}

Init ==
    /\ vendor = [d \in Days |-> NoBar]
    /\ since = [d \in Days |-> Undated]
    /\ now = 1
    /\ file \in InitialFiles
    /\ firstbar = NoEvidence
    /\ checked = Undated
    /\ repaired = NoMarker
    /\ lock = Free
    /\ pc = [c \in Clients |-> "idle"]
    /\ op = [c \in Clients |-> Idle]

Goto(c, step) == pc' = [pc EXCEPT ![c] = step]

\* The operation is over, with or without a result; its locals are gone.
Finish(c) ==
    /\ Goto(c, "idle")
    /\ op' = [op EXCEPT ![c] = Idle]

-----------------------------------------------------------------------------
(* The vendor (DhanHQ, external) and the calendar.                         *)

Published == {d \in Days : vendor[d] # NoBar}

\* A bar appears for a trading day that has none: the latest one, or an older one,
\* because vendors do backfill.
Publish ==
    \E d \in 1..now, b \in Bars :
        /\ d \notin Weekend \cup Published
        /\ vendor' = [vendor EXCEPT ![d] = b]
        /\ since' = [since EXCEPT ![d] = now]
        /\ UNCHANGED <<now, disk, lock, pc, op>>

\* The vendor quotes another bar for a day it has already published.
Correct ==
    \E d \in Published, b \in Bars :
        /\ vendor' = [vendor EXCEPT ![d] = b]
        /\ UNCHANGED <<since, now, disk, lock, pc, op>>

NextDay ==
    /\ now < Horizon
    /\ now' = now + 1
    /\ UNCHANGED <<vendor, since, disk, lock, pc, op>>

\* What a request for an interval may be answered with: every published bar of
\* it, or a fault.  "empty" answers nothing, "garbled" loses the date of one bar,
\* "extra" adds an unsolicited older bar.
Answers(from, to) ==
    LET true == {[day |-> d, bar |-> vendor[d]] : d \in Published \cap from..to}
    IN  {true}
        \cup {{} : f \in Faults \cap {"empty"}}
        \cup {(true \ {r}) \cup {[day |-> Undated, bar |-> r.bar]} :
                r \in IF "garbled" \in Faults THEN true ELSE {}}
        \cup {true \cup {[day |-> d, bar |-> vendor[d]]} :
                d \in IF "extra" \in Faults THEN {e \in Published : e < from} ELSE {}}

-----------------------------------------------------------------------------
(* get_daily_history: read the cache, or download the interval.            *)

\* The published bars that evidence may no longer hide: it is trusted for RecheckDays
\* from the day it is recorded, which may be later than the day of the answer.
Owed(ev) == {d \in Published : now - since[d] >= RecheckDays + (ev.on - ev.heard)}

\* A download needs only its interval.
Download(c, from, to) ==
    /\ Goto(c, "fetch")
    /\ op' = [op EXCEPT ![c] = [Idle EXCEPT !.kind = op[c].kind, !.from = from, !.to = to]]

StartDirect(c, from, to, force, tail) ==
    LET rows  == FileRows(file)
        early == VendorEarliestFor(firstbar, from, now)
        hit   == CoversRange(First(rows), Last(rows), from, to, early, checked, tail)
    IN  /\ "direct" \in Roles[c]
        /\ pc[c] = "idle" /\ from <= to /\ to <= now
        /\ file = Unreadable => force
        /\ IF file # NoFile /\ ~force /\ hit
           THEN /\ Goto(c, "read")
                /\ op' = [op EXCEPT ![c] = [Idle EXCEPT
                        !.from = from, !.to = to, !.tail = tail,
                        !.earliest = early, !.seen = checked,
                        !.owed = Owed(firstbar)]]
           ELSE Download(c, from, to)
        /\ UNCHANGED <<world, disk, lock>>

\* The footer was advisory: the whole file, perhaps replaced since, is judged
\* again with the evidence read before.
Covered(c) ==
    CoversRange(First(FileRows(file)), Last(FileRows(file)), op[c].from, op[c].to,
                op[c].earliest, op[c].seen, op[c].tail)

ServeHit(c) ==
    /\ pc[c] = "read" /\ Covered(c)
    /\ Finish(c)
    /\ UNCHANGED <<world, disk, lock>>

ReadMiss(c) ==
    /\ pc[c] = "read" /\ ~Covered(c)
    /\ Download(c, op[c].from, op[c].to)
    /\ UNCHANGED <<world, disk, lock>>

-----------------------------------------------------------------------------
(* ensure_daily_history: top the cache up to today.                        *)

HistoryStart == IF now > HistoryDays THEN now - HistoryDays ELSE 1

StartPrefetch(c) ==
    /\ "prefetch" \in Roles[c]
    /\ pc[c] = "idle" /\ file # Unreadable
    /\ op' = [op EXCEPT ![c] = [Idle EXCEPT !.kind = "prefetch", !.basis = FileRows(file),
                                            !.from = HistoryStart, !.to = now]]
    /\ Goto(c, IF Dates(FileRows(file)) = {} THEN "fetch" ELSE "plan")
    /\ UNCHANGED <<world, disk, lock>>

\* Mutant of PlanPrefetch: a cache that is already current is topped up all the same.
PlanPrefetchCurrentToo(c) ==
    LET rows  == op[c].basis
        early == VendorEarliestFor(firstbar, op[c].from, now)
    IN  /\ pc[c] = "plan"
        /\ IF ~ReachesBackFarEnough(First(rows), op[c].from, early)
           THEN Download(c, op[c].from, op[c].to)
           ELSE IF checked >= op[c].to THEN Finish(c)
           ELSE /\ Goto(c, "fetch")
                /\ op' = [op EXCEPT ![c].from = Last(rows) + 1, ![c].probe = FALSE,
                                    ![c].basis = {}]
        /\ UNCHANGED <<world, disk, lock>>

\* The sidecars decide between a backfill, nothing to do, and a tail top-up.
PlanPrefetch(c) ==
    LET rows  == op[c].basis
        early == VendorEarliestFor(firstbar, op[c].from, now)
    IN  /\ pc[c] = "plan"
        /\ IF ~ReachesBackFarEnough(First(rows), op[c].from, early)
           THEN Download(c, op[c].from, op[c].to)
           ELSE IF Last(rows) >= op[c].to \/ checked >= op[c].to
           THEN Finish(c)
           ELSE /\ Goto(c, "fetch")
                /\ op' = [op EXCEPT ![c].from = Last(rows) + 1, ![c].probe = FALSE,
                                    ![c].basis = {}]
        /\ UNCHANGED <<world, disk, lock>>

\* An empty tail is remembered outside the lock.
WriteChecked(c) ==
    /\ pc[c] = "mark"
    /\ checked' = op[c].to
    /\ Finish(c)
    /\ UNCHANGED <<world, file, firstbar, repaired, lock>>

-----------------------------------------------------------------------------
(* _store_fetched_window: the download transaction of both callers.        *)

\* The part of the answer the caller stores: a direct caller clips it.
Mine(c) == IF op[c].kind = "direct" THEN Slice(op[c].answer, op[c].from, op[c].to)
           ELSE op[c].answer

FetchAnswered(c) ==
    /\ pc[c] = "fetch"
    /\ \E a \in Answers(op[c].from, op[c].to) :
          LET stored == IF op[c].kind = "direct" THEN Slice(a, op[c].from, op[c].to) ELSE a
          IN  IF stored # {}
              THEN /\ Goto(c, "lock")
                   /\ op' = [op EXCEPT ![c].answer = a, ![c].heard = now]
              ELSE IF op[c].probe THEN Finish(c)
              ELSE Goto(c, "mark") /\ UNCHANGED op
    /\ UNCHANGED <<world, disk, lock>>

\* Rate-limit retries exhausted, a timeout, an API error: the call raises.
FetchFailed(c) ==
    /\ pc[c] = "fetch"
    /\ Finish(c)
    /\ UNCHANGED <<world, disk, lock>>

\* Mutant of Acquire: the lock is taken while another client holds it.
AcquireHeld(c) ==
    /\ pc[c] \in {"lock", "inspect", "commit"}
    /\ lock' = c
    /\ Goto(c, CASE pc[c] = "lock"    -> "merge"
                 [] pc[c] = "inspect" -> "snapshot"
                 [] pc[c] = "commit"  -> "recheck")
    /\ UNCHANGED <<world, disk, op>>

\* cache_write_lock: one holder per symbol across threads and processes.
Acquire(c) ==
    /\ pc[c] \in {"lock", "inspect", "commit"}
    /\ lock = Free
    /\ lock' = c
    /\ Goto(c, CASE pc[c] = "lock"    -> "merge"
                 [] pc[c] = "inspect" -> "snapshot"
                 [] pc[c] = "commit"  -> "recheck")
    /\ UNCHANGED <<world, disk, op>>

\* The transaction ends, by return or by exception, and its lock with it.
LeaveLocked(c) ==
    /\ lock' = Free
    /\ Finish(c)
    /\ UNCHANGED <<world, disk>>

ReadForMerge(c) ==
    /\ pc[c] = "merge" /\ file # Unreadable
    /\ op' = [op EXCEPT ![c].merged =
                    Overlay(FileRows(file), op[c].from, op[c].to, Mine(c))]
    /\ Goto(c, "publish")
    /\ UNCHANGED <<world, disk, lock>>

ReadFails(c) == pc[c] = "merge" /\ file = Unreadable /\ LeaveLocked(c)

\* atomic_write_parquet: the temporary file replaces the live one at once ...
PublishMerge(c) ==
    /\ pc[c] = "publish"
    /\ file' = op[c].merged
    /\ Goto(c, IF op[c].probe THEN "evidence" ELSE "release")
    /\ UNCHANGED <<world, firstbar, checked, repaired, lock, op>>

\* ... or serialization raises and the live file is what it was.
WriteFails(c) == pc[c] \in {"publish", "replace"} /\ LeaveLocked(c)

RecordEarliest(c) ==
    /\ pc[c] = "evidence"
    /\ firstbar' = RecordedEvidence(firstbar, op[c].from, op[c].answer,
                                  op[c].heard, now)
    /\ Goto(c, "release")
    /\ UNCHANGED <<world, file, checked, repaired, lock, op>>

Release(c) == pc[c] = "release" /\ LeaveLocked(c)

-----------------------------------------------------------------------------
(* repair_symbol: validate, ask the vendor, publish what is still current. *)

StartRepair(c) ==
    /\ "repair" \in Roles[c]
    /\ pc[c] = "idle" /\ file # NoFile
    /\ Goto(c, "inspect")
    /\ op' = [op EXCEPT ![c] = [Idle EXCEPT !.kind = "repair",
                                            !.from = HistoryStart, !.to = now]]
    /\ UNCHANGED <<world, disk, lock>>

\* The frame and its revision are read under the lock, which is released.
Snapshot(c) ==
    /\ pc[c] = "snapshot"
    /\ lock' = Free
    /\ IF file = Unreadable THEN Finish(c)
       ELSE /\ Goto(c, "decide")
            /\ op' = [op EXCEPT ![c].basis = FileRows(file), ![c].merged = FileRows(file)]
    /\ UNCHANGED <<world, disk>>

\* _recently_attempted: the same findings were left by a recent attempt.
RecentlyAttempted(c) ==
    /\ repaired # NoMarker
    /\ op[c].to - repaired.on < RetryDays
    /\ repaired.codes = Findings(op[c].basis, op[c].to)

\* The caller's options: the vendor may be asked, a stale tail is worth asking
\* for, the cooldown is ignored.
DecideRepair(c, asks, allowStale, force) ==
    LET plan == RefetchPlan(op[c].basis, op[c].from, op[c].to, allowStale)
    IN  /\ pc[c] = "decide"
        /\ IF \/ plan = {}
              \/ ~asks /\ ~HasOfflineWork(op[c].basis, op[c].to)
              \/ ~force /\ asks /\ RecentlyAttempted(c)
           THEN Finish(c)
           ELSE /\ Goto(c, "refetch")
                /\ op' = [op EXCEPT ![c].todo = IF asks THEN plan ELSE {},
                                    ![c].asked = asks]
        /\ UNCHANGED <<world, disk, lock>>

\* One refetch of the plan, answered or (an answer of nothing) failed.
RefetchOne(c) ==
    /\ pc[c] = "refetch"
    /\ \E r \in op[c].todo : \E a \in Answers(r.from, r.to) \cup {{}} :
            op' = [op EXCEPT ![c].todo = @ \ {r},
                             ![c].merged = Refetched(@, r, a)]
    /\ UNCHANGED <<world, disk, lock, pc>>

\* Mutant of JudgeCandidate: an improvement is published whatever it drops.
JudgeWithoutBudget(c) ==
    LET candidate == OfflineFixed(op[c].merged, op[c].to)
        improved  == Healthier(candidate, op[c].basis, op[c].to)
    IN  /\ pc[c] = "refetch" /\ op[c].todo = {}
        /\ Goto(c, "commit")
        /\ op' = [op EXCEPT ![c].better = improved,
                            ![c].merged = IF improved THEN candidate ELSE op[c].basis]
        /\ UNCHANGED <<world, disk, lock>>

\* Mutant of JudgeCandidate: the receipt will describe a rejected candidate.
JudgeKeepsRejected(c) ==
    LET candidate == OfflineFixed(op[c].merged, op[c].to)
    IN  /\ pc[c] = "refetch" /\ op[c].todo = {}
        /\ IF ExceedsDropBudget(op[c].basis, candidate) THEN Finish(c)
           ELSE /\ Goto(c, "commit")
                /\ op' = [op EXCEPT
                        ![c].better = Healthier(candidate, op[c].basis, op[c].to),
                        ![c].merged = candidate]
        /\ UNCHANGED <<world, disk, lock>>

\* The offline steps, the drop budget and the improvement test.
JudgeCandidate(c) ==
    LET candidate == OfflineFixed(op[c].merged, op[c].to)
        improved  == Healthier(candidate, op[c].basis, op[c].to)
    IN  /\ pc[c] = "refetch" /\ op[c].todo = {}
        /\ IF ExceedsDropBudget(op[c].basis, candidate) THEN Finish(c)
           ELSE /\ Goto(c, "commit")
                /\ op' = [op EXCEPT ![c].better = improved,
                        ![c].merged = IF improved THEN candidate ELSE op[c].basis]
        /\ UNCHANGED <<world, disk, lock>>

\* Mutant of Recheck: the file is replaced without asking whether it changed.
RecheckNothing(c) ==
    /\ pc[c] = "recheck"
    /\ Goto(c, IF op[c].better THEN "replace" ELSE "receipt")
    /\ UNCHANGED <<world, disk, lock, op>>

\* The revision check: a file that changed since its validation is left alone.
Recheck(c) ==
    /\ pc[c] = "recheck" /\ file = op[c].basis
    /\ Goto(c, IF op[c].better THEN "replace" ELSE "receipt")
    /\ UNCHANGED <<world, disk, lock, op>>

RevisionChanged(c) == pc[c] = "recheck" /\ file # op[c].basis /\ LeaveLocked(c)

PublishRepair(c) ==
    /\ pc[c] = "replace"
    /\ file' = op[c].merged
    /\ Goto(c, "receipt")
    /\ UNCHANGED <<world, firstbar, checked, repaired, lock, op>>

\* _record_attempt: written only when a round-trip left findings behind.
RecordAttempt(c) ==
    LET left == Findings(op[c].merged, op[c].to)
    IN  /\ pc[c] = "receipt"
        /\ repaired' = IF left = {} \/ ~op[c].asked THEN NoMarker
                       ELSE [on |-> op[c].to, codes |-> left]
        /\ Goto(c, "release")
        /\ UNCHANGED <<world, file, firstbar, checked, lock, op>>

-----------------------------------------------------------------------------
(* The process dies: the operating system closes its lock descriptor.      *)

\* Mutant of Kill: the lock is the existence of a file, which outlives its owner.
KillLeavesLock(c) ==
    /\ pc[c] # "idle"
    /\ Finish(c)
    /\ UNCHANGED <<world, disk, lock>>

Kill(c) ==
    /\ pc[c] # "idle"
    /\ lock' = IF lock = c THEN Free ELSE lock
    /\ Finish(c)
    /\ UNCHANGED <<world, disk>>

Direct(c) ==
    \/ \E from, to \in Days, force, tail \in BOOLEAN :
            StartDirect(c, from, to, force, tail)
    \/ ServeHit(c) \/ ReadMiss(c)
Prefetch(c) == StartPrefetch(c) \/ PlanPrefetch(c) \/ WriteChecked(c)
Store(c) ==
    \/ FetchAnswered(c) \/ FetchFailed(c) \/ ReadForMerge(c) \/ ReadFails(c)
    \/ PublishMerge(c) \/ WriteFails(c) \/ RecordEarliest(c) \/ Release(c)
Repair(c) ==
    \/ StartRepair(c) \/ Snapshot(c)
    \/ \E asks, allowStale, force \in BOOLEAN : DecideRepair(c, asks, allowStale, force)
    \/ RefetchOne(c) \/ JudgeCandidate(c) \/ Recheck(c) \/ RevisionChanged(c)
    \/ PublishRepair(c) \/ RecordAttempt(c)

Environment == Publish \/ Correct \/ NextDay

Next ==
    \/ Environment
    \/ \E c \in Clients : Direct(c) \/ Prefetch(c) \/ Store(c) \/ Repair(c)
                           \/ Acquire(c) \/ Kill(c)

\* A transaction under the lock is local disk work that nothing blocks.
LockedStep(c) == pc[c] \in Locked /\ (Store(c) \/ Repair(c))

Spec == Init /\ [][Next]_vars
FairSpec == Spec /\ \A c \in Clients : WF_vars(LockedStep(c))

-----------------------------------------------------------------------------
(* Properties.                                                             *)

\* The types of the variables.
Types ==
    /\ vendor \in [Days -> Bars \cup {NoBar}]
    /\ since \in [Days -> Days \cup {Undated}]
    /\ now \in Days
    /\ file \in Files
    /\ firstbar \in Evidence
    /\ checked \in Days \cup {Undated}
    /\ repaired \in Marker
    /\ lock \in Clients \cup {Free}
    /\ pc \in [Clients -> Steps]
    /\ op \in [Clients -> Op]

\* Every variable keeps its type: in particular the sidecars hold dates the
\* calendar knows, a frame under construction is a frame, and no interval the vendor
\* is asked for is inverted.
TypeOK == Types /\ \A c \in Clients : op[c].from <= op[c].to

\* The lock has one holder and the holder is inside a transaction.  What a
\* transaction is about to publish was computed from the file as it still is, a
\* candidate about to be published is within budget, and a receipt is written
\* beside the very frame it describes (cache_write_lock, cache_revision).
LockDiscipline == \A c \in Clients : pc[c] \in Locked <=> lock = c
FrameCurrent(c) ==
    /\ pc[c] = "publish" => /\ file # Unreadable
                            /\ op[c].merged = Overlay(FileRows(file), op[c].from,
                                                      op[c].to, Mine(c))
    /\ pc[c] = "replace" => op[c].better /\ file = op[c].basis
    /\ pc[c] = "receipt" => file = op[c].merged
    /\ pc[c] \in {"commit", "recheck", "replace"} =>
            IF op[c].better THEN ~ExceedsDropBudget(op[c].basis, op[c].merged)
            ELSE op[c].merged = op[c].basis
TransactionsCurrent == LockDiscipline /\ \A c \in Clients : FrameCurrent(c)

\* The .firstbar evidence was true when the vendor gave it: of the days between the
\* probe's start and the earliest bar it recorded, the vendor had then published none,
\* so whatever is published there now was backfilled since.  The answer may be older
\* than the marker, another client's marker may lie in its place, and a reader may
\* still rely on evidence that was replaced or has expired meanwhile: nothing that was
\* owed to it lies there (_record_vendor_earliest, _vendor_earliest_for).
NoneBefore(from, earliest, heard) ==
    /\ earliest \in Published
    /\ heard \in 1..now
    /\ \A d \in Published \cap from..(earliest - 1) : since[d] >= heard
EvidenceSound(c) ==
    /\ pc[c] = "read" /\ op[c].earliest # Undated =>
            op[c].owed \cap op[c].from..(op[c].earliest - 1) = {}
    /\ /\ pc[c] \in {"lock", "merge", "publish", "evidence"}
       /\ \A r \in op[c].answer : r.day # Undated
       /\ First(op[c].answer) > op[c].from
       => NoneBefore(op[c].from, First(op[c].answer), op[c].heard)
EarliestEvidenceTrue ==
    /\ Published \cap Weekend = {}
    /\ firstbar # NoEvidence =>
            NoneBefore(firstbar.from, firstbar.earliest, firstbar.heard)
    /\ \A c \in Clients : EvidenceSound(c)

\* What a client holds, in the words of the contract: a download from the
\* vendor's answer to its publication, a repair from its verdict on.
Held == [c \in Clients |->
    IF pc[c] \in {"lock", "merge", "publish"}
    THEN [type |-> "download", from |-> op[c].from, to |-> op[c].to, answer |-> Mine(c)]
    ELSE IF pc[c] \in {"commit", "recheck", "replace"} /\ op[c].better
    THEN [type |-> "repair", basis |-> op[c].basis, candidate |-> op[c].merged]
    ELSE [type |-> "none"]]

\* The locked, multi-step transactions of the code implement the contract: every
\* download is overlaid on the file as it is at the publication, so no answer
\* another client published during the request is lost, and a repair only ever
\* replaces the file it was decided on (cache_write_lock, cache_revision).
Contract == INSTANCE CacheContract WITH decision <- Held
RefinesContract == Contract!ContractSpec

\* A repair publication never costs the live file more trading days than the
\* drop budget, although the budget was judged before the lock was taken.
BudgetHoldsAtPublication ==
    [][\A c \in Clients : PublishRepair(c) =>
            ~ExceedsDropBudget(FileRows(file), FileRows(file'))]_vars

\* A cooldown marker describes the parquet it lies beside at the moment it is
\* written: a rejected candidate never suppresses a later repair.
MarkerDescribesFile ==
    [][repaired' # repaired /\ repaired' # NoMarker =>
            repaired'.codes = Findings(FileRows(file'), repaired'.on)]_vars

\* A cache hit may lack bars the vendor has published only where the code says: before
\* the first cached candle those backfilled since the read began or within the life of
\* the evidence (RecheckDays from its record, and what the probe took until then),
\* after the last one none for a direct caller, and for a scanner only within the
\* tolerated gap (VENDOR_EARLIEST_RECHECK_DAYS, _cache_covers_range).
HitEndsComplete ==
    [][\A c \in Clients : ServeHit(c) =>
        LET rows == FileRows(file)
            missing == (Published \cap op[c].from..op[c].to) \ Dates(rows)
        IN  /\ \A d \in missing \cap op[c].owed : d > First(rows)
            /\ \A d \in missing : d > Last(rows) =>
                    op[c].tail /\ op[c].to - Last(rows) <= MaxTolerableGap]_vars

\* A cache hit has every bar the vendor published for the requested days.
HitComplete ==
    [][\A c \in Clients : ServeHit(c) /\ ~op[c].tail =>
            Published \cap op[c].from..op[c].to \subseteq Dates(FileRows(file))]_vars

\* The write lock never stays held: every transaction under it ends.
LockReleased == \A c \in Clients : lock = c ~> lock # c
=============================================================================
