---------------------------- MODULE AgentVerdicts -----------------------------
(***************************************************************************)
(* The verdicts of the three AI agents on one stock, and the JSON files    *)
(* that keep them: FundamentalAgent.check, SixtySevenAgent.evaluate and    *)
(* TechnicalAnalysisAgent.evaluate over one FundamentalsCache, called by   *)
(* the fundamentals panel, the 67 ka funda screener and the technical      *)
(* screener from threads of several processes.                             *)
(*                                                                         *)
(* A call looks for a stored verdict; failing that it lets a model run,    *)
(* whose tools fetch the company page, parses what the model says, tries   *)
(* again when that does not parse, and stores the verdict.  The two signed *)
(* agents name a file after a digest of eight hex digits of model, prompt  *)
(* and context and a date; the fundamental agent, which does not sign,     *)
(* after model, mode and the date of the page in the cache.                *)
(***************************************************************************)
EXTENDS Common, Integers, Sequences, FiniteSets, FiniteSetsExt

CONSTANTS Calls,         \* calls under way
          Candles,       \* contents of the stock's candles on one signal date
          Models,        \* configured models
          Slot(_, _),    \* the digest in a signed agent's file name
          MaxAttempts,   \* get_ai_max_attempts
          TtlDays,       \* SCANNER_FUNDAMENTALS_TTL_DAYS
          MaxAgent       \* bound on calls, restarts, days and candle changes

ASSUME AgentAssumption ==
    /\ MaxAttempts \in Nat \ {0} /\ {TtlDays, MaxAgent} \subseteq Nat
    /\ Models # {} /\ Candles # {}

VARIABLES
    page,         \* <SYMBOL>_data.json: the day its company page was fetched
    verdicts,     \* set of [path, verdict, receipts, key], one per verdict file
    call,         \* per call [pc, answer, ...], see Begin
    candles,      \* what the candle cache holds
    model,        \* the configured model
    signingKey,   \* the process's random key: a number per process
    agentDay,     \* today
    agentMoves

environment == <<candles, model, signingKey, agentDay>>
AgentVars == <<page, verdicts, call, environment, agentMoves>>

-----------------------------------------------------------------------------
Kinds == {"fundamental", "sixty_seven", "technical"}

(* The cache.                                                              *)

GetData == IF page # None /\ agentDay - page <= TtlDays THEN page ELSE None

Stored(path) == {f \in verdicts : f.path = path}

SetVerdict(file) == {f \in verdicts : f.path # file.path} \cup {file}

UndatedPath(c) ==
    IF call[c].kind = "fundamental" THEN <<"fundamental", call[c].model, 1>>
    ELSE <<call[c].kind, Slot(call[c].model, call[c].context)>>

\* The date in a fundamental verdict's file name is read when it is stored.
Path(c) ==
    IF call[c].kind = "fundamental"
    THEN <<"fundamental", call[c].model, IF GetData = None THEN agentDay ELSE GetData>>
    ELSE <<call[c].kind, Slot(call[c].model, call[c].context)>>

-----------------------------------------------------------------------------
(* What a call may answer from a file.                                     *)

Signed(f) == f.key = signingKey

AnySignedFile(c) == {f \in Stored(Path(c)) : Signed(f)}

\* Envelope, versions and receipts; the file name is no proof of them.
CachedEvaluation(c) ==
    {f \in AnySignedFile(c) : /\ f.verdict.model = call[c].model
                              /\ f.verdict.context = call[c].context}

CachedCheck(c) ==
    IF GetData = None THEN {} ELSE Stored(Path(c))

Cached(c) == IF call[c].kind = "fundamental" THEN CachedCheck(c) ELSE CachedEvaluation(c)

-----------------------------------------------------------------------------
Ended(answer) == [pc |-> "rest", answer |-> answer]

InCall(c, pc) == call[c].pc = pc

AgentMove == agentMoves < MaxAgent /\ agentMoves' = agentMoves + 1

Fail(c) == call' = [call EXCEPT ![c] = Ended([status |-> "failed", verdict |-> None])]

Deliver(c, status, file) ==
    call' = [call EXCEPT ![c] = Ended(
        [status |-> status, model |-> call[c].model, context |-> call[c].context,
         verdict |-> file.verdict, receipts |-> file.receipts, mixed |-> file.mixed,
         page |-> GetData])]

ConversationKeepingReceipts(x) ==
    [x EXCEPT !.pc = "tools", !.attempt = @ + 1, !.seen = <<>>]

\* A new attempt is a new conversation, and the collectors are emptied: the
\* receipts are those of this conversation.
Conversation(x) ==
    [x EXCEPT !.pc = "tools", !.attempt = @ + 1, !.seen = <<>>, !.collected = <<>>]

\* A forced fundamental check deletes every file of the stock, the other
\* agents' verdicts included.
Begin(c, kind, force) ==
    /\ AgentMove
    /\ InCall(c, "rest")
    /\ LET new == [pc |-> "lookup", answer |-> None, kind |-> kind, model |-> model,
                   context |-> IF kind = "fundamental" THEN None ELSE candles,
                   force |-> force, attempt |-> 0, seen |-> <<>>,
                   collected |-> <<>>, draft |-> None]
       IN  call' = [call EXCEPT ![c] = IF force THEN Conversation(new) ELSE new]
    /\ IF force /\ kind = "fundamental"
       THEN page' = None /\ verdicts' = {}
       ELSE UNCHANGED <<page, verdicts>>
    /\ UNCHANGED environment

Lookup(c) ==
    /\ InCall(c, "lookup")
    /\ IF Cached(c) = {} THEN call' = [call EXCEPT ![c] = Conversation(@)]
       ELSE \E f \in Cached(c) : Deliver(c, "served", f)
    /\ UNCHANGED <<page, verdicts, environment, agentMoves>>

-----------------------------------------------------------------------------
(* parse_with_retry over one model conversation per attempt.               *)

Payload(day, quality) == [page |-> day, quality |-> quality]

Collect(c, payload, recorded) ==
    call' = [call EXCEPT ![c].seen = Append(@, payload),
                ![c].collected = IF recorded THEN Append(@, payload) ELSE @]

\* The page comes from the cache, or from the network and into the cache.
\* An evidence text that gives the model orders makes the payload "unsafe";
\* a failed fetch or web search an "error", which only the 67 agent records.
FetchTool(c) ==
    LET cached == IF call[c].force THEN None ELSE GetData IN
    /\ InCall(c, "tools")
    /\ call[c].kind # "technical"
    /\ Len(call[c].seen) < 2
    /\ \/ \E quality \in {"ok", "unsafe"} \cup
                (IF call[c].kind = "sixty_seven" THEN {"error"} ELSE {}) :
            /\ page' = IF cached = None THEN agentDay ELSE page
            /\ Collect(c, Payload(IF cached = None THEN agentDay ELSE cached, quality),
                       TRUE)
       \/ /\ cached = None
          /\ Collect(c, Payload(None, "error"), call[c].kind = "sixty_seven")
          /\ UNCHANGED page
    /\ UNCHANGED <<verdicts, environment, agentMoves>>

\* Evidence that is missing, doubled, malformed or unsafe ends the call.
Grounded(c) ==
    CASE call[c].kind = "technical" -> TRUE
      [] call[c].kind = "sixty_seven" ->
            Len(call[c].collected) = 1 /\ call[c].collected[1].quality = "ok"
      [] call[c].kind = "fundamental" ->
            \A i \in DOMAIN call[c].collected : call[c].collected[i].quality = "ok"

\* The conversation fails, or ends with a text that parses or one that does
\* not: only the last is tried again.
ModelAnswers(c, outcome) ==
    /\ InCall(c, "tools")
    /\ CASE ~Grounded(c) \/ outcome = "fails" -> Fail(c)
         [] Grounded(c) /\ outcome = "parses" ->
                call' = [call EXCEPT ![c].pc = "save", ![c].draft =
                    [kind |-> call[c].kind, model |-> call[c].model,
                     context |-> call[c].context, seen |-> call[c].seen]]
         [] Grounded(c) /\ outcome = "garbled" ->
                IF call[c].attempt < MaxAttempts
                THEN call' = [call EXCEPT ![c] = Conversation(@)]
                ELSE Fail(c)
    /\ UNCHANGED <<page, verdicts, environment, agentMoves>>

\* "mixed" marks, for the properties only, a fundamental verdict whose
\* model saw no page, or another than the one that dates the file.
Mixed(c) ==
    LET saw == call[c].seen IN
    /\ call[c].kind = "fundamental"
    /\ ~\E i \in DOMAIN saw : saw[i].page = (IF GetData = None THEN agentDay ELSE GetData)

\* The file is written in place: a write may fail, or be cut short, and a
\* file cut short does not parse, which is as good as no file.
Save(c) ==
    LET file == [path |-> Path(c), verdict |-> call[c].draft, key |-> signingKey,
                 receipts |-> call[c].collected, mixed |-> Mixed(c)]
    IN
    /\ InCall(c, "save")
    /\ Deliver(c, "drafted", file)
    /\ verdicts' \in {verdicts, SetVerdict(file), verdicts \ Stored(file.path)}
    /\ UNCHANGED <<page, environment, agentMoves>>

-----------------------------------------------------------------------------
NewDay ==
    /\ AgentMove
    /\ agentDay' = agentDay + 1
    /\ UNCHANGED <<page, verdicts, call, candles, model, signingKey>>

\* The candle cache is repaired or refreshed.
NewCandles(x) ==
    /\ AgentMove
    /\ x # candles /\ candles' = x
    /\ UNCHANGED <<page, verdicts, call, model, signingKey, agentDay>>

\* Without SCANNER_AI_CACHE_SIGNING_KEY a process signs with a key of its own.
RestartProcess(m) ==
    /\ AgentMove
    /\ model' = m
    /\ signingKey' = signingKey + 1
    /\ call' = [c \in Calls |-> Ended(None)]
    /\ UNCHANGED <<page, verdicts, candles, agentDay>>

-----------------------------------------------------------------------------
\* What an earlier process may leave: a company page of the first day, and the
\* fundamental verdict drafted on it.
LeftVerdict(m) ==
    [path |-> <<"fundamental", m, 1>>, key |-> 0, receipts |-> <<Payload(1, "ok")>>, mixed |-> FALSE,
     verdict |-> [kind |-> "fundamental", model |-> m, context |-> None,
                  seen |-> <<Payload(1, "ok")>>]]

AgentInit ==
    /\ model = CHOOSE m \in Models : TRUE
    /\ page \in {None, 1}
    /\ verdicts = IF page = None THEN {} ELSE {LeftVerdict(model)}
    /\ call = [c \in Calls |-> Ended(None)]
    /\ candles = CHOOSE x \in Candles : TRUE
    /\ signingKey = 1
    /\ agentDay = 1
    /\ agentMoves = 0

CallStep(c) ==
    \/ \E kind \in Kinds, force \in BOOLEAN : Begin(c, kind, force)
    \/ Lookup(c)
    \/ FetchTool(c)
    \/ \E outcome \in {"fails", "garbled", "parses"} : ModelAnswers(c, outcome)
    \/ Save(c)

AgentNext ==
    \/ \E c \in Calls : CallStep(c)
    \/ NewDay
    \/ \E x \in Candles : NewCandles(x)
    \/ \E m \in Models : RestartProcess(m)

AgentSpec == AgentInit /\ [][AgentNext]_AgentVars

-----------------------------------------------------------------------------
AgentTypeOK ==
    /\ page \in 1..agentDay \cup {None}
    /\ \A f, g \in verdicts : f.path = g.path => f = g
    /\ \A f \in verdicts : f.key \in 0..signingKey
    /\ candles \in Candles /\ model \in Models
    /\ \A c \in Calls : call[c].pc \in {"rest", "lookup", "tools", "save"}
    /\ \A c \in Calls : call[c].pc # "rest" => call[c].attempt \in 0..MaxAttempts

Answers == {call[c].answer : c \in {c \in Calls : call[c].answer # None}}

Delivered(kinds) == {a \in Answers : a.verdict # None /\ a.verdict.kind \in kinds}

\* A verdict, fresh or from a file of any age, was drafted by the model and
\* on the candles of the very request it answers, and a 67 ka funda verdict
\* by a conversation that saw exactly the one sound page its receipts name:
\* neither a colliding file name, a repaired candle, another process's key
\* nor an earlier attempt's research changes that (evaluate,
\* _cached_evaluation, _run_once).
VerdictStandsOnItsEvidence ==
    /\ \A a \in Delivered({"technical", "sixty_seven"}) :
            a.verdict.model = a.model /\ a.verdict.context = a.context
    /\ \A a \in Delivered({"sixty_seven"}) :
            a.receipts = a.verdict.seen /\ Len(a.receipts) = 1

\* A fundamental verdict served from a file was drafted on the company page
\* that is in the cache now, as far as its date tells (FundamentalAgent.check
\* and the verdict's file name).  Excepted are verdicts whose model fetched
\* no page, or whose page was replaced before they were stored.
ServedForTheCachedPage ==
    \A a \in Delivered({"fundamental"}) :
        a.status = "served" /\ ~a.mixed =>
            \E i \in DOMAIN a.verdict.seen : a.verdict.seen[i].page = a.page
=============================================================================
