---------------------------- MODULE IpoEvidence -----------------------------
(***************************************************************************)
(* The evidence of one IPO issue: its filings (ipo_documents), the PDF     *)
(* cache they point into, the extraction proposals of the AI agent, and    *)
(* the immutable revisions that scoring reads (ipo_manual_extractions).    *)
(* backend/ipo/repository.py keeps no transaction open while it downloads, *)
(* hashes or parses: every operation reads a document, lets go of it, and  *)
(* compares or swaps when it comes back.  Clients are the screener job,    *)
(* the administrators' sessions and the agent, all on one database.        *)
(***************************************************************************)
EXTENDS Naturals, Sequences, FiniteSets

CONSTANTS
    Docs,           \* ids of documents; a deleted id may be given out again
    Urls, Kinds,    \* document_url, document_type
    Prospectuses,   \* the kinds that are downloaded and extracted: drhp, rhp
    Digests,        \* contents of PDF files, named by their SHA-256
    Drafts,         \* payloads an agent or an administrator may come up with
    TermDrafts,     \* payloads with issue terms
    Serves,         \* Serves[u]: the contents the server has under u, over time
    Cites,          \* <<digest, draft>>: the draft's citations are on its pages
    Clients, None,
    Work,           \* Work[c]: the operations client c starts
    MaxProposals, MaxRevisions,     \* bounds on the two histories
    Damage          \* what the disk may do to a cached file

ASSUME EvidenceAssumption ==
    /\ Prospectuses \subseteq Kinds /\ TermDrafts \subseteq Drafts
    /\ Serves \in [Urls -> SUBSET Digests] /\ Cites \subseteq Digests \X Drafts
    /\ Work \in [Clients -> SUBSET {"download", "extract", "manual", "approve", "correct"}]
    /\ MaxProposals \in Nat /\ MaxRevisions \in Nat
    /\ Damage \subseteq {"absent", "corrupt"}
    /\ None \notin Docs \cup Digests \cup Drafts
    /\ Digests \cap {"not_downloaded", "download_failed"} = {}

VARIABLES
    row,        \* ipo_documents, by id: url, kind, and content_sha256 or the status
    files,      \* DATA_DIR/ipo/documents/<digest>.pdf
    proposals, revisions, terms,    \* see ReviewLedger
    job,        \* job[c]: the operation client c is in
    crossed     \* history: the <<url, digest>> pairs that a correction put together

ledger == INSTANCE ReviewLedger

vars == <<row, files, proposals, revisions, terms, job, crossed>>

\* content_sha256, file_path, downloaded_at and parse_status go together (a CHECK).
Contents == Digests \cup {"not_downloaded", "download_failed"}
Row      == [url : Urls, kind : Kinds, content : Contents]

Idle == [op |-> "none", at |-> "idle", doc |-> None, seen |-> None,
         got |-> None, draft |-> None, prop |-> 0]

Exists(d)     == d \in DOMAIN row
Readable(d)   == Exists(d) /\ row[d].kind \in Prospectuses
Proposals     == DOMAIN proposals
IsPending(p)  == proposals[p].status = "pending"

\* uq_ipo_documents_issue_type_url
Taken(d, u, k) == \E e \in DOMAIN row \ {d} : row[e].url = u /\ row[e].kind = k

Init ==
    /\ row = << >> /\ files = [h \in Digests |-> "absent"]
    /\ proposals = <<>> /\ revisions = <<>> /\ terms = None
    /\ job = [c \in Clients |-> Idle] /\ crossed = {}

-----------------------------------------------------------------------------
(* The filings.                                                            *)

\* create_document, or ingest_filings on a new filing.
Register(d) ==
    /\ ~Exists(d)
    /\ \E u \in Urls, k \in Kinds :
        /\ ~Taken(d, u, k)
        /\ row' = [e \in DOMAIN row \cup {d} |->
                     IF e = d THEN [url |-> u, kind |-> k, content |-> "not_downloaded"]
                              ELSE row[e]]
    /\ UNCHANGED <<files, proposals, revisions, terms, job, crossed>>

\* ingest_filings on a filing listed again under another category: found by its URL.
Relist(d) ==
    /\ Exists(d)
    /\ \E k \in Kinds :
        /\ ~Taken(d, row[d].url, k)
        /\ row' = [row EXCEPT ![d].kind = k]
    /\ UNCHANGED <<files, proposals, revisions, terms, job, crossed>>

DeleteUnguarded(d) ==
    /\ Exists(d)
    /\ row' = [e \in DOMAIN row \ {d} |-> row[e]]
    /\ proposals' = [p \in Proposals |->
                       IF proposals[p].doc = d THEN [proposals[p] EXCEPT !.doc = None]
                                               ELSE proposals[p]]
    /\ UNCHANGED <<files, revisions, terms, job, crossed>>

\* delete_document: refused while a proposal is pending, else the foreign keys of the
\* decided ones are set to NULL.
Delete(d) ==
    /\ Exists(d) /\ ~ledger!Pending(d)
    /\ row' = [e \in DOMAIN row \ {d} |-> row[e]]
    /\ proposals' = [p \in Proposals |->
                       IF proposals[p].doc = d THEN [proposals[p] EXCEPT !.doc = None]
                                               ELSE proposals[p]]
    /\ UNCHANGED <<files, revisions, terms, job, crossed>>

\* The disk loses or damages a file.
Decay(h) ==
    /\ files[h] = "good"
    /\ \E damage \in Damage : files' = [files EXCEPT ![h] = damage]
    /\ UNCHANGED <<row, proposals, revisions, terms, job, crossed>>

-----------------------------------------------------------------------------
(* Operations of a client, step by step.                                   *)

Begin(c, op, step, d, x, p) ==
    job' = [job EXCEPT ![c] = [op |-> op, at |-> step, doc |-> d, seen |-> row[d],
                               got |-> None, draft |-> x, prop |-> p]]

At(c, step)   == job[c].at = step
May(c, op)    == At(c, "idle") /\ op \in Work[c]
Op(c, op)     == job[c].op = op
Goto(c, step) == job' = [job EXCEPT ![c].at = step]
End(c)        == job' = [job EXCEPT ![c] = Idle]

\* An exception, or the end of the process, in the middle of an operation.
Abort(c) ==
    /\ ~At(c, "idle") /\ End(c)
    /\ UNCHANGED <<row, files, proposals, revisions, terms, crossed>>

\* download_document: the row is read and detached.
StartDownload(c, d) ==
    /\ May(c, "download") /\ Readable(d)
    /\ Begin(c, "download", "hash", d, None, 0)
    /\ UNCHANGED <<row, files, proposals, revisions, terms, crossed>>

\* _propose_extraction_inner, before any parsing.
StartExtract(c, d) ==
    /\ May(c, "extract") /\ Readable(d) /\ ~ledger!Pending(d)
    /\ Begin(c, "extract", "hash", d, None, 0)
    /\ UNCHANGED <<row, files, proposals, revisions, terms, crossed>>

\* submit_manual_extraction, with a payload an administrator typed in.
StartManual(c, d, x) ==
    /\ May(c, "manual") /\ Readable(d)
    /\ Begin(c, "manual", "hash", d, x, 0)
    /\ UNCHANGED <<row, files, proposals, revisions, terms, crossed>>

StartApproveAnySource(c, p) ==
    /\ May(c, "approve") /\ IsPending(p)
    /\ LET d == proposals[p].doc
       IN  Readable(d) /\ Begin(c, "approve", "hash", d, proposals[p].draft, p)
    /\ UNCHANGED <<row, files, proposals, revisions, terms, crossed>>

\* approve_extraction_proposal, by an administrator or by auto_approve_ready_proposals.
StartApprove(c, p) ==
    /\ May(c, "approve") /\ IsPending(p)
    /\ LET d == proposals[p].doc
       IN  /\ Readable(d) /\ row[d].content = proposals[p].sha
           /\ Begin(c, "approve", "hash", d, proposals[p].draft, p)
    /\ UNCHANGED <<row, files, proposals, revisions, terms, crossed>>

\* update_document: the row is loaded into the session.
StartCorrect(c, d) ==
    /\ May(c, "correct") /\ Exists(d)
    /\ Begin(c, "correct", "flush", d, None, 0)
    /\ UNCHANGED <<row, files, proposals, revisions, terms, crossed>>

-----------------------------------------------------------------------------
(* The cached file: _verified_cache_result.                                *)

FileOf(c) == IF job[c].seen.content \in Digests THEN files[job[c].seen.content] ELSE "absent"

Return(c, got) == job' = [job EXCEPT ![c] = [@ EXCEPT !.at = "record", !.got = got]]

\* Without a verified file a download fetches one, and everything else fails.
NoFile(c) == IF Op(c, "download") THEN Goto(c, "fetch") ELSE End(c)

Verified(c) ==
    CASE Op(c, "download") -> Return(c, job[c].seen.content)
      [] Op(c, "extract")  -> Goto(c, "draft")
      [] Op(c, "manual")   -> Goto(c, "compare")
      [] OTHER             -> Goto(c, "cite")

Hash(c) ==
    /\ At(c, "hash")
    /\ CASE FileOf(c) = "good"    -> Verified(c)
         [] FileOf(c) = "corrupt" -> Goto(c, "unlink")
         [] OTHER                 -> NoFile(c)
    /\ UNCHANGED <<row, files, proposals, revisions, terms, crossed>>

\* path.unlink(), of whatever is there by now; a missing file is an exception.
Unlink(c) ==
    /\ At(c, "unlink")
    /\ IF FileOf(c) = "absent" THEN End(c) ELSE NoFile(c)
    /\ files' = [files EXCEPT ![job[c].seen.content] = "absent"]
    /\ UNCHANGED <<row, proposals, revisions, terms, crossed>>

\* download_document_file: the bytes are published under their digest (os.replace),
\* before the database hears of them.
Fetch(c) ==
    /\ At(c, "fetch")
    /\ \E h \in Serves[job[c].seen.url] :
        /\ files' = [files EXCEPT ![h] = "good"]
        /\ Return(c, h)
    /\ UNCHANGED <<row, proposals, revisions, terms, crossed>>

FetchFails(c) ==
    /\ At(c, "fetch")
    /\ Return(c, "download_failed")
    /\ UNCHANGED <<row, files, proposals, revisions, terms, crossed>>

SameSource(c) ==
    LET d == job[c].doc
    IN  Exists(d) /\ row[d].url = job[c].seen.url /\ row[d].kind = job[c].seen.kind

SameId(c) == Exists(job[c].doc)

RecordById(c) ==
    /\ At(c, "record") /\ End(c)
    /\ row' = IF SameId(c) THEN [row EXCEPT ![job[c].doc].content = job[c].got] ELSE row
    /\ UNCHANGED <<files, proposals, revisions, terms, crossed>>

\* update_ipo_document_cache_if_source_matches: provenance, or the failure.
Record(c) ==
    /\ At(c, "record") /\ End(c)
    /\ row' = IF SameSource(c) THEN [row EXCEPT ![job[c].doc].content = job[c].got] ELSE row
    /\ UNCHANGED <<files, proposals, revisions, terms, crossed>>

-----------------------------------------------------------------------------
(* Extraction: the agent drafts, and the draft is queued for review.       *)

\* The pages are parsed and the agent answers with some payload.
Draft(c) ==
    /\ At(c, "draft")
    /\ \E x \in Drafts : job' = [job EXCEPT ![c] = [@ EXCEPT !.at = "submit", !.draft = x]]
    /\ UNCHANGED <<row, files, proposals, revisions, terms, crossed>>

\* submit_extraction_proposal, first transaction: the document is read again, and must
\* still bear the digest the pages were parsed from.
Submit(c) ==
    /\ At(c, "submit")
    /\ LET d == job[c].doc
       IN  IF Readable(d) /\ row[d].content = job[c].seen.content /\ ~ledger!Pending(d)
              /\ ~ledger!Alike(d, row[d].content, job[c].draft)
           THEN Begin(c, "propose", "hash", d, job[c].draft, 0)
           ELSE End(c)
    /\ UNCHANGED <<row, files, proposals, revisions, terms, crossed>>

\* _verify_cited_receipts_from_cached_pdf: the file is parsed once more and every
\* citation is looked up; on damaged bytes the lookup fails.
Cite(c) ==
    /\ At(c, "cite")
    /\ IF FileOf(c) = "good" /\ <<job[c].seen.content, job[c].draft>> \in Cites
       THEN Goto(c, "compare") ELSE End(c)
    /\ UNCHANGED <<row, files, proposals, revisions, terms, crossed>>

CompareIdOnly(c) ==
    /\ At(c, "compare")
    /\ IF SameId(c) /\ row[job[c].doc].content \in Digests
       THEN job' = [job EXCEPT ![c] = [@ EXCEPT !.at = "write", !.seen = row[job[c].doc]]] ELSE End(c)
    /\ UNCHANGED <<row, files, proposals, revisions, terms, crossed>>

\* The last transaction reads the document again, and refuses a changed one.
Compare(c) ==
    /\ At(c, "compare")
    /\ IF SameId(c) /\ row[job[c].doc] = job[c].seen
       THEN Goto(c, "write") ELSE End(c)
    /\ UNCHANGED <<row, files, proposals, revisions, terms, crossed>>

\* try_insert_ipo_extraction_proposal: the partial unique indexes on the pending
\* document and on the fingerprint decide, and the foreign key.
Queue(c) ==
    /\ At(c, "write") /\ Op(c, "propose")
    /\ LET d == job[c].doc
           h == job[c].seen.content
       IN  IF Exists(d) /\ ~ledger!Pending(d) /\ ~ledger!Alike(d, h, job[c].draft)
           THEN /\ Len(proposals) < MaxProposals
                /\ proposals' = Append(proposals, [doc |-> d, sha |-> h, draft |-> job[c].draft,
                                                   status |-> "pending"])
           ELSE UNCHANGED proposals
    /\ End(c)
    /\ UNCHANGED <<row, files, revisions, terms, crossed>>

-----------------------------------------------------------------------------
(* Review.                                                                 *)

Revise(c) ==
    /\ Len(revisions) < MaxRevisions
    /\ revisions' = Append(revisions, [url |-> job[c].seen.url, sha |-> job[c].seen.content,
                                       draft |-> job[c].draft, from |-> job[c].prop])

\* submit_manual_extraction: the revision, unless its document is gone by now.
Enter(c) ==
    /\ At(c, "write") /\ Op(c, "manual") /\ End(c)
    /\ IF SameId(c) THEN Revise(c) ELSE UNCHANGED revisions
    /\ UNCHANGED <<row, files, proposals, terms, crossed>>

\* mark_ipo_extraction_proposal_reviewed
Decide(p, decision) == proposals' = [proposals EXCEPT ![p].status = decision]

AttestAnyStatus(c) ==
    /\ At(c, "write") /\ Op(c, "approve") /\ End(c)
    /\ Revise(c)
    /\ terms' = IF job[c].draft \in TermDrafts THEN job[c].draft ELSE terms
    /\ Decide(job[c].prop, "approved")
    /\ UNCHANGED <<row, files, crossed>>

\* approve_extraction_proposal: revision, issue terms and decision in one transaction,
\* which is rolled back when the proposal is no longer pending.
Attest(c) ==
    /\ At(c, "write") /\ Op(c, "approve") /\ End(c)
    /\ IF IsPending(job[c].prop) /\ SameId(c)
       THEN /\ Revise(c)
            /\ terms' = IF job[c].draft \in TermDrafts THEN job[c].draft ELSE terms
            /\ Decide(job[c].prop, "approved")
       ELSE UNCHANGED <<revisions, terms, proposals>>
    /\ UNCHANGED <<row, files, crossed>>

\* reject_extraction_proposal
Reject(p) ==
    /\ IsPending(p) /\ Decide(p, "rejected")
    /\ UNCHANGED <<row, files, revisions, terms, job, crossed>>

-----------------------------------------------------------------------------
(* update_document flushes: the UPDATE names the columns that differ from  *)
(* what the session loaded, and no others.                                 *)

\* The cache columns after the flush.  A correction of url or kind sets them to "not
\* downloaded"; what was loaded so is no change, and stays out of the UPDATE.
FlushedContent(loaded, current) ==
    IF loaded = "not_downloaded" THEN current ELSE "not_downloaded"

\* ck_ipo_documents_download_metadata: a row with a digest cannot take the status of
\* one without, when the digest itself is not in the UPDATE.
Refused(loaded, current) == loaded = "download_failed" /\ current \in Digests

Flushed(loaded, current, u, k) ==
    [url  |-> IF u # loaded.url  THEN u ELSE current.url,
     kind |-> IF k # loaded.kind THEN k ELSE current.kind,
     content |-> IF u # loaded.url \/ k # loaded.kind
                 THEN FlushedContent(loaded.content, current.content)
                 ELSE current.content]

Correct(c, u, k) ==
    LET d      == job[c].doc
        loaded == job[c].seen
        new    == Flushed(loaded, row[d], u, k)
    IN  /\ At(c, "flush") /\ End(c)
        /\ IF Exists(d) /\ ~Taken(d, new.url, new.kind)
              /\ ~(<<u, k>> # <<loaded.url, loaded.kind>> /\ Refused(loaded.content, row[d].content))
           THEN /\ row' = [row EXCEPT ![d] = new]
                /\ crossed' = IF new.url # row[d].url /\ new.content \in Digests
                              THEN crossed \cup {<<new.url, new.content>>} ELSE crossed
           ELSE UNCHANGED <<row, crossed>>
        /\ UNCHANGED <<files, proposals, revisions, terms>>

-----------------------------------------------------------------------------
Step(c) ==
    \/ \E d \in Docs : \/ StartDownload(c, d) \/ StartExtract(c, d) \/ StartCorrect(c, d)
                       \/ \E x \in Drafts : StartManual(c, d, x)
    \/ \E p \in Proposals : StartApprove(c, p)
    \/ \E u \in Urls, k \in Kinds : Correct(c, u, k)
    \/ Hash(c) \/ Unlink(c) \/ Fetch(c) \/ FetchFails(c) \/ Record(c)
    \/ Draft(c) \/ Submit(c) \/ Cite(c) \/ Compare(c)
    \/ Queue(c) \/ Enter(c) \/ Attest(c) \/ Abort(c)

Next ==
    \/ \E c \in Clients : Step(c)
    \/ \E d \in Docs : Register(d) \/ Relist(d) \/ Delete(d)
    \/ \E p \in Proposals : Reject(p)
    \/ \E h \in Digests : Decay(h)

Spec == Init /\ [][Next]_vars

-----------------------------------------------------------------------------
(* What must hold.                                                         *)

Steps == {"idle", "hash", "unlink", "fetch", "record", "draft", "submit", "cite",
          "compare", "write", "flush"}
Ops   == {"none", "download", "extract", "propose", "approve", "manual", "correct"}

Job == [op : Ops, at : Steps, doc : Docs \cup {None}, seen : Row \cup {None},
        got : Contents \cup {None}, draft : Drafts \cup {None}, prop : Nat]

\* What a step of an operation presupposes: only a client with a verified digest comes
\* as far as writing evidence, and an approval writes its own proposal's.
JobOK(j) ==
    j.at # "idle" =>
        /\ j.doc \in Docs /\ j.seen \in Row /\ j.op # "none"
        /\ j.at = "flush" <=> j.op = "correct"
        /\ j.at \in {"fetch", "record"} => j.op = "download"
        /\ j.at \in {"draft", "submit"} => j.op = "extract"
        /\ j.at = "cite" => j.op \in {"propose", "approve"}
        /\ j.at \in {"compare", "write"} => j.op \in {"propose", "approve", "manual"}
        /\ j.at \in {"unlink", "draft", "submit", "cite", "compare", "write"}
             => j.seen.content \in Digests
        /\ j.at = "record" => j.got \in Digests \cup {"download_failed"}
        /\ j.at = "submit" \/ j.op \in {"propose", "approve", "manual"} => j.draft \in Drafts
        /\ IF j.op = "approve"
           THEN /\ j.prop \in DOMAIN proposals
                /\ proposals[j.prop].sha = j.seen.content
                /\ proposals[j.prop].draft = j.draft
           ELSE j.prop = 0

TypeOK ==
    /\ DOMAIN row \subseteq Docs /\ row \in [DOMAIN row -> Row]
    /\ files \in [Digests -> {"absent", "good", "corrupt"}]
    /\ proposals \in Seq(ledger!Proposal) /\ revisions \in Seq(ledger!Revision)
    /\ terms \in Drafts \cup {None}
    /\ job \in [Clients -> Job] /\ \A c \in Clients : JobOK(job[c])
    /\ crossed \subseteq Urls \X Digests

\* The bytes a document is said to have are bytes its own URL served, however
\* downloads, corrections, relistings and deletions interleave, except where a
\* correction was flushed over a row that had changed since it was loaded.
Honest(u, content) ==
    content \in Digests => content \in Serves[u] \/ <<u, content>> \in crossed

ProvenanceHonest == \A d \in DOMAIN row : Honest(row[d].url, row[d].content)

\* A revision that scoring reads names a source that served its bytes, and if an agent
\* drafted it, its citations are on the pages of those very bytes.
RevisionsHonest ==
    \A i \in DOMAIN revisions :
        /\ Honest(revisions[i].url, revisions[i].sha)
        /\ revisions[i].from # 0 => <<revisions[i].sha, revisions[i].draft>> \in Cites

\* A pending proposal has its document, so that a reviewer can decide on it.
PendingHasDocument ==
    \A p \in Proposals : IsPending(p) => proposals[p].doc \in DOMAIN row

\* Every step of this module is a step of the review ledger, or none.
RefinesLedger == ledger!Spec
=============================================================================
