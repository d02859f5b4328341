------------------------- MODULE IpoEvidence_proofs -------------------------
(***************************************************************************)
(* Machine-checked theorems about IpoEvidence, for any number of clients,  *)
(* documents, sources, digests and drafts.                                 *)
(***************************************************************************)
EXTENDS IpoEvidence, TLAPS

-----------------------------------------------------------------------------
(* Types.                                                                  *)

\* Proposals are neither lost nor given another content.
Grows ==
    \A p \in DOMAIN proposals :
        /\ p \in DOMAIN proposals'
        /\ proposals'[p].sha = proposals[p].sha
        /\ proposals'[p].draft = proposals[p].draft

\* One client moves to j, and the others' records stay as good as they were.
LEMMA JobsStep ==
  ASSUME TypeOK, NEW c \in Clients, NEW j \in Job, JobOK(j), Grows,
         job' = [job EXCEPT ![c] = j]
  PROVE  (job \in [Clients -> Job] /\ \A b \in Clients : JobOK(job[b]))'
<1>1. job' \in [Clients -> Job]
  BY DEF TypeOK
<1>2. ASSUME NEW b \in Clients PROVE JobOK(job[b])'
  <2>1. CASE b = c
    BY <2>1 DEF TypeOK, JobOK, Grows
  <2>2. CASE b # c
    <3>1. job'[b] = job[b] /\ JobOK(job[b])
      BY <2>2 DEF TypeOK
    <3> QED BY <3>1 DEF JobOK, Grows
  <2> QED BY <2>1, <2>2
<1> QED BY <1>1, <1>2

\* Clients that stand still keep their presuppositions while the proposals only grow.
LEMMA JobsStay ==
  ASSUME TypeOK, Grows, UNCHANGED job
  PROVE  (job \in [Clients -> Job] /\ \A b \in Clients : JobOK(job[b]))'
  BY DEF TypeOK, JobOK, Grows

\* A step that changes only the client's record keeps the type invariant, if the record does.
LEMMA MoveType ==
  ASSUME TypeOK, NEW c \in Clients, NEW j \in Job, JobOK(j), job' = [job EXCEPT ![c] = j],
         UNCHANGED <<row, files, proposals, revisions, terms, crossed>>
  PROVE  TypeOK'
<1>1. Grows
  BY DEF Grows
<1> QED BY <1>1, JobsStep DEF TypeOK

\* The record of a client between operations.
LEMMA IdleType == Idle \in Job /\ JobOK(Idle)
  BY DEF Idle, Job, JobOK, Ops, Steps

\* A client starts an operation on document d.
LEMMA BeginType ==
  ASSUME TypeOK, NEW c \in Clients, NEW d \in DOMAIN row, NEW op, NEW step,
         NEW x \in Drafts \cup {None}, NEW p \in Nat,
         \/ op \in {"download", "extract"} /\ step = "hash" /\ p = 0
         \/ op = "correct" /\ step = "flush" /\ p = 0
         \/ op \in {"manual", "propose"} /\ step = "hash" /\ x \in Drafts /\ p = 0
         \/ /\ op = "approve" /\ step = "hash" /\ x \in Drafts
            /\ p \in DOMAIN proposals /\ proposals[p].sha = row[d].content
            /\ proposals[p].draft = x,
         Begin(c, op, step, d, x, p),
         UNCHANGED <<row, files, proposals, revisions, terms, crossed>>
  PROVE  TypeOK'
<1> DEFINE j == [op |-> op, at |-> step, doc |-> d, seen |-> row[d],
                 got |-> None, draft |-> x, prop |-> p]
<1>1. d \in Docs /\ row[d] \in Row
  BY DEF TypeOK
<1>2. j \in Job
  BY <1>1 DEF Job, Ops, Steps
<1>3. JobOK(j)
  BY <1>1 DEF JobOK
<1>4. job' = [job EXCEPT ![c] = j]
  BY DEF Begin
<1> HIDE DEF j
<1> QED BY <1>2, <1>3, <1>4, MoveType

\* Ending an operation (return or exception) keeps the types.
LEMMA EndType ==
  ASSUME TypeOK, NEW c \in Clients, End(c),
         UNCHANGED <<row, files, proposals, revisions, terms, crossed>>
  PROVE  TypeOK'
  BY IdleType, MoveType DEF End

\* A client goes from one step of its operation to the next.
LEMMA GotoType ==
  ASSUME TypeOK, NEW c \in Clients, ~At(c, "idle"), NEW step \in Steps \ {"idle", "flush", "record"},
         Goto(c, step), ~At(c, "flush"),
         step = "fetch" => Op(c, "download"),
         step \in {"draft", "submit"} => Op(c, "extract") /\ step = "draft",
         step = "cite" => job[c].op \in {"propose", "approve"},
         step \in {"compare", "write"} => job[c].op \in {"propose", "approve", "manual"},
         step \in {"unlink", "draft", "cite", "compare", "write"} => job[c].seen.content \in Digests
  PROVE  /\ [job[c] EXCEPT !.at = step] \in Job /\ JobOK([job[c] EXCEPT !.at = step])
         /\ job' = [job EXCEPT ![c] = [job[c] EXCEPT !.at = step]]
<1>1. job[c] \in Job /\ JobOK(job[c])
  BY DEF TypeOK
<1>2. [job[c] EXCEPT !.at = step] \in Job
  BY <1>1 DEF Job
<1>3. JobOK([job[c] EXCEPT !.at = step])
  BY <1>1 DEF JobOK, Job, At, Op, Steps
<1>4. job' = [job EXCEPT ![c] = [job[c] EXCEPT !.at = step]]
  BY DEF Goto
<1> QED BY <1>2, <1>3, <1>4

\* Types: hashing the cached file.
LEMMA HashType == ASSUME TypeOK, NEW c \in Clients, Hash(c) PROVE TypeOK'
<1> USE DEF Hash, At
<1>1. job[c] \in Job /\ JobOK(job[c]) /\ job[c].at = "hash"
  BY DEF TypeOK
<1>2. CASE FileOf(c) = "good"
  <2>1. job[c].seen.content \in Digests /\ Verified(c)
    BY <1>2 DEF FileOf
  <2>2. CASE Op(c, "download")
    <3> DEFINE j == [job[c] EXCEPT !.at = "record", !.got = job[c].seen.content]
    <3>1. job' = [job EXCEPT ![c] = j]
      BY <2>1, <2>2 DEF Verified, Return, Op
    <3>2. j \in Job /\ JobOK(j)
      BY <1>1, <2>1, <2>2 DEF Job, JobOK, Op, Steps, Contents
    <3> HIDE DEF j
    <3> QED BY <3>1, <3>2, MoveType
  <2>3. CASE Op(c, "extract")
    <3>1. Goto(c, "draft")
      BY <2>1, <2>3 DEF Verified, Op
    <3> QED BY <1>1, <2>1, <2>3, <3>1, GotoType, MoveType DEF Op, Steps
  <2>4. CASE Op(c, "manual")
    <3>1. Goto(c, "compare")
      BY <2>1, <2>4 DEF Verified, Op
    <3> QED BY <1>1, <2>1, <2>4, <3>1, GotoType, MoveType DEF Op, Steps
  <2>5. CASE ~Op(c, "download") /\ ~Op(c, "extract") /\ ~Op(c, "manual")
    <3>1. Goto(c, "cite")
      BY <2>1, <2>5 DEF Verified
    <3>2. job[c].op \in {"propose", "approve"}
      BY <1>1, <2>5 DEF Op, JobOK, Job, Ops
    <3> QED BY <1>1, <2>1, <3>1, <3>2, GotoType, MoveType DEF Op, Steps
  <2> QED BY <2>2, <2>3, <2>4, <2>5
<1>3. CASE FileOf(c) = "corrupt"
  <2>1. job[c].seen.content \in Digests /\ Goto(c, "unlink")
    BY <1>3 DEF FileOf
  <2> QED BY <1>1, <2>1, GotoType, MoveType DEF Op, Steps
<1>4. CASE FileOf(c) \notin {"good", "corrupt"}
  <2>1. NoFile(c)
    BY <1>4
  <2>2. CASE Op(c, "download")
    BY <1>1, <2>1, <2>2, GotoType, MoveType DEF NoFile, Op, Steps
  <2>3. CASE ~Op(c, "download")
    BY <2>1, <2>3, EndType DEF NoFile
  <2> QED BY <2>2, <2>3
<1> QED BY <1>2, <1>3, <1>4

\* Types: unlinking a damaged file.
LEMMA UnlinkType == ASSUME TypeOK, NEW c \in Clients, Unlink(c) PROVE TypeOK'
<1> USE DEF Unlink, At
<1>1. job[c] \in Job /\ JobOK(job[c]) /\ job[c].at = "unlink"
  BY DEF TypeOK
<1>2. files' \in [Digests -> {"absent", "good", "corrupt"}]
  BY DEF TypeOK
<1>3. Grows
  BY DEF Grows
<1>4. (job \in [Clients -> Job] /\ \A b \in Clients : JobOK(job[b]))'
  <2>1. CASE Op(c, "download") /\ Goto(c, "fetch")
    <3> DEFINE j == [job[c] EXCEPT !.at = "fetch"]
    <3>1. j \in Job /\ JobOK(j) /\ job' = [job EXCEPT ![c] = j]
      BY <1>1, <2>1, GotoType DEF Op, Steps
    <3> HIDE DEF j
    <3> QED BY <1>3, <3>1, JobsStep
  <2>2. CASE End(c)
    BY <1>3, <2>2, IdleType, JobsStep DEF End, JobOK, Idle
  <2> QED BY <2>1, <2>2 DEF NoFile
<1> QED BY <1>2, <1>4 DEF TypeOK

\* Types: publishing fetched bytes.
LEMMA FetchType == ASSUME TypeOK, NEW c \in Clients, Fetch(c) PROVE TypeOK'
<1> USE DEF Fetch, At
<1>1. job[c] \in Job /\ JobOK(job[c]) /\ job[c].at = "fetch"
  BY DEF TypeOK
<1>2. PICK h \in Serves[job[c].seen.url] :
        /\ files' = [files EXCEPT ![h] = "good"]
        /\ Return(c, h)
  OBVIOUS
<1>3. h \in Digests
  BY <1>1, EvidenceAssumption DEF JobOK, Row
<1> DEFINE j == [job[c] EXCEPT !.at = "record", !.got = h]
<1>4. job' = [job EXCEPT ![c] = j]
  BY <1>2 DEF Return
<1>5. j \in Job /\ JobOK(j)
  BY <1>1, <1>3 DEF Job, JobOK, Steps, Contents
<1> HIDE DEF j
<1>6. (job \in [Clients -> Job] /\ \A b \in Clients : JobOK(job[b]))'
  BY <1>4, <1>5, JobsStep DEF Grows
<1>7. files' \in [Digests -> {"absent", "good", "corrupt"}]
  BY <1>2 DEF TypeOK
<1> QED BY <1>6, <1>7 DEF TypeOK

\* Types: a failed fetch.
LEMMA FetchFailsType == ASSUME TypeOK, NEW c \in Clients, FetchFails(c) PROVE TypeOK'
<1> DEFINE j == [job[c] EXCEPT !.at = "record", !.got = "download_failed"]
<1>1. job[c] \in Job /\ JobOK(job[c]) /\ job[c].at = "fetch"
  BY DEF TypeOK, FetchFails, At
<1>2. job' = [job EXCEPT ![c] = j]
  BY DEF FetchFails, Return
<1>3. j \in Job /\ JobOK(j)
  BY <1>1 DEF Job, JobOK, Steps, Contents
<1> HIDE DEF j
<1> QED BY <1>2, <1>3, MoveType DEF FetchFails

\* Types: the compare-and-set of a download.
LEMMA RecordType == ASSUME TypeOK, NEW c \in Clients, Record(c) PROVE TypeOK'
<1>1. job[c] \in Job /\ JobOK(job[c]) /\ job[c].at = "record"
  BY DEF TypeOK, Record, At
<1>2. job[c].got \in Contents
  BY <1>1 DEF JobOK, Contents
<1>3. DOMAIN row' \subseteq Docs /\ row' \in [DOMAIN row' -> Row]
  BY <1>1, <1>2 DEF TypeOK, Record, SameSource, Exists, Row
<1>4. (job \in [Clients -> Job] /\ \A b \in Clients : JobOK(job[b]))'
  BY IdleType, JobsStep DEF Record, End, Grows, JobOK, Idle
<1> QED BY <1>3, <1>4 DEF TypeOK, Record

\* Types: the agent's answer.
LEMMA DraftType == ASSUME TypeOK, NEW c \in Clients, Draft(c) PROVE TypeOK'
<1>1. job[c] \in Job /\ JobOK(job[c]) /\ job[c].at = "draft"
  BY DEF TypeOK, Draft, At
<1>2. PICK x \in Drafts : job' = [job EXCEPT ![c] = [@ EXCEPT !.at = "submit", !.draft = x]]
  BY DEF Draft
<1> DEFINE j == [job[c] EXCEPT !.at = "submit", !.draft = x]
<1>3. job' = [job EXCEPT ![c] = j]
  BY <1>2
<1>4. j \in Job /\ JobOK(j)
  BY <1>1 DEF Job, JobOK, Steps
<1> HIDE DEF j
<1> QED BY <1>3, <1>4, MoveType DEF Draft

\* Types: the first transaction of a submission.
LEMMA SubmitType == ASSUME TypeOK, NEW c \in Clients, Submit(c) PROVE TypeOK'
<1>1. job[c].draft \in Drafts
  BY DEF TypeOK, Submit, At, JobOK
<1>2. UNCHANGED <<row, files, proposals, revisions, terms, crossed>>
  BY DEF Submit
<1>3. CASE End(c)
  BY <1>2, <1>3, EndType
<1>4. CASE Exists(job[c].doc) /\ Begin(c, "propose", "hash", job[c].doc, job[c].draft, 0)
  BY <1>1, <1>2, <1>4, BeginType DEF Exists
<1> QED BY <1>3, <1>4 DEF Submit, Readable

\* Types: looking up the citations.
LEMMA CiteType == ASSUME TypeOK, NEW c \in Clients, Cite(c) PROVE TypeOK'
<1>1. UNCHANGED <<row, files, proposals, revisions, terms, crossed>> /\ At(c, "cite")
  BY DEF Cite
<1>2. CASE End(c)
  BY <1>1, <1>2, EndType
<1>3. CASE Goto(c, "compare")
  <2>1. job[c].op \in {"propose", "approve"} /\ job[c].seen.content \in Digests
    BY <1>1 DEF TypeOK, At, JobOK
  <2> QED BY <1>1, <1>3, <2>1, GotoType, MoveType DEF At, Op, Steps
<1> QED BY <1>2, <1>3 DEF Cite

\* Types: the second look at the document.
LEMMA CompareType == ASSUME TypeOK, NEW c \in Clients, Compare(c) PROVE TypeOK'
<1>1. UNCHANGED <<row, files, proposals, revisions, terms, crossed>> /\ At(c, "compare")
  BY DEF Compare
<1>2. CASE End(c)
  BY <1>1, <1>2, EndType
<1>3. CASE Goto(c, "write")
  <2>1. /\ job[c].op \in {"propose", "approve", "manual"}
        /\ job[c].seen.content \in Digests
    BY <1>1 DEF TypeOK, At, JobOK
  <2> QED BY <1>1, <1>3, <2>1, GotoType, MoveType DEF At, Op, Steps
<1> QED BY <1>2, <1>3 DEF Compare

\* A client that ends its operation while the proposals grow.
LEMMA EndJobs ==
  ASSUME TypeOK, NEW c \in Clients, End(c), Grows
  PROVE  (job \in [Clients -> Job] /\ \A b \in Clients : JobOK(job[b]))'
  BY IdleType, JobsStep DEF End

\* A proposal that exists stays where it is when another one is appended.
LEMMA AppendGrows ==
  ASSUME TypeOK, NEW new, proposals' = Append(proposals, new)
  PROVE  Grows
<1>1. /\ DOMAIN proposals = 1..Len(proposals) /\ Len(proposals) \in Nat
      /\ DOMAIN proposals' = 1..(Len(proposals) + 1)
      /\ \A p \in 1..Len(proposals) : proposals'[p] = proposals[p]
  BY DEF TypeOK
<1> QED BY <1>1 DEF Grows

\* Types: inserting a proposal.
LEMMA QueueType == ASSUME TypeOK, NEW c \in Clients, Queue(c) PROVE TypeOK'
<1>1. job[c] \in Job /\ JobOK(job[c]) /\ job[c].at = "write" /\ job[c].op = "propose"
  BY DEF TypeOK, Queue, At, Op
<1> DEFINE new == [doc |-> job[c].doc, sha |-> job[c].seen.content,
                   draft |-> job[c].draft, status |-> "pending"]
<1>2. new \in ledger!Proposal
  BY <1>1 DEF ledger!Proposal, JobOK
<1>3. \/ proposals' = Append(proposals, new)
      \/ UNCHANGED proposals
  BY DEF Queue
<1> HIDE DEF new
<1>4. proposals' \in Seq(ledger!Proposal) /\ Grows
  <2>1. CASE proposals' = Append(proposals, new)
    <3>1. Grows
      BY <2>1, AppendGrows
    <3> QED BY <1>2, <2>1, <3>1 DEF TypeOK
  <2>2. CASE UNCHANGED proposals
    BY <2>2 DEF TypeOK, Grows
  <2> QED BY <1>3, <2>1, <2>2
<1> QED BY <1>4, EndJobs DEF TypeOK, Queue

\* A revision that Revise appends is a revision.
LEMMA RevisionType ==
  ASSUME TypeOK, NEW c \in Clients, ~At(c, "idle"), job[c].op \in {"approve", "manual"},
         job[c].seen.content \in Digests, Revise(c)
  PROVE  revisions' \in Seq(ledger!Revision)
<1>1. job[c] \in Job /\ JobOK(job[c]) /\ job[c].at # "idle"
  BY DEF TypeOK, At
<1>2. [url |-> job[c].seen.url, sha |-> job[c].seen.content, draft |-> job[c].draft,
       from |-> job[c].prop] \in ledger!Revision
  BY <1>1 DEF ledger!Revision, JobOK, Job, Row
<1> QED BY <1>2 DEF Revise, TypeOK

\* Types: a manual revision.
LEMMA EnterType == ASSUME TypeOK, NEW c \in Clients, Enter(c) PROVE TypeOK'
<1>1. ~At(c, "idle") /\ job[c].op = "manual" /\ job[c].seen.content \in Digests
  BY DEF TypeOK, Enter, At, Op, JobOK
<1>2. revisions' \in Seq(ledger!Revision)
  BY <1>1, RevisionType DEF Enter, TypeOK
<1>3. Grows
  BY DEF Enter, Grows
<1> QED BY <1>2, <1>3, EndJobs DEF TypeOK, Enter

\* A decision changes a proposal's status and nothing that its reviewers hold on to.
LEMMA DecideType ==
  ASSUME TypeOK, NEW p \in DOMAIN proposals, NEW decision \in {"approved", "rejected"},
         Decide(p, decision)
  PROVE  proposals' \in Seq(ledger!Proposal) /\ Grows
<1>1. proposals \in Seq(ledger!Proposal) /\ proposals[p] \in ledger!Proposal
  BY DEF TypeOK
<1>2. [proposals[p] EXCEPT !.status = decision] \in ledger!Proposal
  BY <1>1 DEF ledger!Proposal
<1>3. proposals' = [proposals EXCEPT ![p] = [proposals[p] EXCEPT !.status = decision]]
  BY DEF Decide
<1>4. proposals' \in Seq(ledger!Proposal)
  BY <1>1, <1>2, <1>3
<1>5. Grows
  BY <1>1, <1>3 DEF Grows, ledger!Proposal
<1> QED BY <1>4, <1>5

\* Types: an approval.
LEMMA AttestType == ASSUME TypeOK, NEW c \in Clients, Attest(c) PROVE TypeOK'
<1>1. /\ ~At(c, "idle") /\ job[c].op = "approve" /\ job[c].seen.content \in Digests
      /\ job[c].prop \in DOMAIN proposals /\ job[c].draft \in Drafts
  BY DEF TypeOK, Attest, At, Op, JobOK
<1>2. CASE Revise(c) /\ Decide(job[c].prop, "approved")
  <2>1. revisions' \in Seq(ledger!Revision)
    BY <1>1, <1>2, RevisionType
  <2>2. proposals' \in Seq(ledger!Proposal) /\ Grows
    BY <1>1, <1>2, DecideType
  <2>3. terms' \in Drafts \cup {None}
    BY <1>1 DEF Attest, TypeOK
  <2> QED BY <2>1, <2>2, <2>3, EndJobs DEF TypeOK, Attest
<1>3. CASE UNCHANGED <<revisions, terms, proposals>>
  BY <1>3, EndJobs DEF TypeOK, Attest, Grows
<1> QED BY <1>2, <1>3 DEF Attest

\* What update_document flushes is a row.
LEMMA FlushedType ==
  ASSUME NEW loaded \in Row, NEW current \in Row, NEW u \in Urls, NEW k \in Kinds
  PROVE  Flushed(loaded, current, u, k) \in Row
  BY DEF Flushed, FlushedContent, Row, Contents

\* Types: the flush of a correction.
LEMMA CorrectType ==
  ASSUME TypeOK, NEW c \in Clients, NEW u \in Urls, NEW k \in Kinds, Correct(c, u, k)
  PROVE  TypeOK'
<1> DEFINE d == job[c].doc
           new == Flushed(job[c].seen, row[d], u, k)
<1>1. job[c].seen \in Row /\ ~At(c, "idle")
  BY DEF TypeOK, Correct, At, JobOK
<1>2. /\ End(c) /\ UNCHANGED <<files, proposals, revisions, terms>>
      /\ \/ /\ Exists(d) /\ row' = [row EXCEPT ![d] = new]
            /\ crossed' = IF new.url # row[d].url /\ new.content \in Digests
                          THEN crossed \cup {<<new.url, new.content>>} ELSE crossed
         \/ UNCHANGED <<row, crossed>>
  BY DEF Correct
<1>3. Exists(d) => new \in Row
  BY <1>1, FlushedType DEF Exists, TypeOK
<1> HIDE DEF new
<1>4. DOMAIN row' \subseteq Docs /\ row' \in [DOMAIN row' -> Row]
  BY <1>2, <1>3 DEF TypeOK, Exists
<1>5. crossed' \subseteq Urls \X Digests
  BY <1>2, <1>3 DEF TypeOK, Row
<1>6. (job \in [Clients -> Job] /\ \A b \in Clients : JobOK(job[b]))'
  BY <1>2, EndJobs DEF Grows
<1> QED BY <1>2, <1>4, <1>5, <1>6 DEF TypeOK

\* Types: a new filing.
LEMMA RegisterType == ASSUME TypeOK, NEW d \in Docs, Register(d) PROVE TypeOK'
<1>1. DOMAIN row' \subseteq Docs /\ row' \in [DOMAIN row' -> Row]
  BY DEF TypeOK, Register, Row, Contents
<1> QED BY <1>1, JobsStay DEF TypeOK, Register, Grows

\* Types: a filing listed again.
LEMMA RelistType == ASSUME TypeOK, NEW d \in Docs, Relist(d) PROVE TypeOK'
<1>1. DOMAIN row' \subseteq Docs /\ row' \in [DOMAIN row' -> Row]
  BY DEF TypeOK, Relist, Exists, Row
<1> QED BY <1>1, JobsStay DEF TypeOK, Relist, Grows

\* Setting the document of a proposal to NULL keeps the proposal.
LEMMA OrphanType ==
  ASSUME TypeOK, NEW d,
         proposals' = [p \in Proposals |->
                         IF proposals[p].doc = d THEN [proposals[p] EXCEPT !.doc = None]
                                                 ELSE proposals[p]]
  PROVE  proposals' \in Seq(ledger!Proposal) /\ Grows
<1>1. /\ Len(proposals) \in Nat /\ Proposals = 1..Len(proposals)
      /\ \A p \in Proposals : proposals[p] \in ledger!Proposal
  BY DEF TypeOK, Proposals
<1>2. \A p \in Proposals : proposals'[p] \in ledger!Proposal
  BY <1>1 DEF ledger!Proposal
<1>3. proposals' \in [1..Len(proposals) -> ledger!Proposal]
  BY <1>1, <1>2
<1>4. proposals' \in Seq(ledger!Proposal)
  BY <1>1, <1>3
<1>5. Grows
  BY <1>1 DEF Grows, ledger!Proposal, Proposals
<1> QED BY <1>4, <1>5

\* Types: the deletion of a document.
LEMMA DeleteType == ASSUME TypeOK, NEW d \in Docs, Delete(d) PROVE TypeOK'
<1>1. DOMAIN row' \subseteq Docs /\ row' \in [DOMAIN row' -> Row]
  BY DEF TypeOK, Delete
<1>2. proposals' \in Seq(ledger!Proposal) /\ Grows
  BY OrphanType DEF Delete
<1> QED BY <1>1, <1>2, JobsStay DEF TypeOK, Delete

\* Types: the loss of a file.
LEMMA DecayType == ASSUME TypeOK, NEW h \in Digests, Decay(h) PROVE TypeOK'
<1>1. files' \in [Digests -> {"absent", "good", "corrupt"}]
  BY EvidenceAssumption DEF TypeOK, Decay
<1> QED BY <1>1, JobsStay DEF TypeOK, Decay, Grows

\* Types: a rejection.
LEMMA RejectType == ASSUME TypeOK, NEW p \in Proposals, Reject(p) PROVE TypeOK'
<1>1. proposals' \in Seq(ledger!Proposal) /\ Grows
  BY DecideType DEF Reject, Proposals
<1> QED BY <1>1, JobsStay DEF TypeOK, Reject

\* Starting an operation on a document that is read and detached.
LEMMA StartType ==
  ASSUME TypeOK, NEW c \in Clients, NEW d \in Docs
  PROVE  /\ StartDownload(c, d) => TypeOK'
         /\ StartExtract(c, d) => TypeOK'
         /\ StartCorrect(c, d) => TypeOK'
         /\ \A x \in Drafts : StartManual(c, d, x) => TypeOK'
<1>1. ASSUME StartDownload(c, d) PROVE TypeOK'
  BY <1>1, BeginType DEF StartDownload, Readable, Exists
<1>2. ASSUME StartExtract(c, d) PROVE TypeOK'
  BY <1>2, BeginType DEF StartExtract, Readable, Exists
<1>3. ASSUME StartCorrect(c, d) PROVE TypeOK'
  BY <1>3, BeginType DEF StartCorrect, Readable, Exists
<1>4. ASSUME NEW x \in Drafts, StartManual(c, d, x) PROVE TypeOK'
  BY <1>4, BeginType DEF StartManual, Readable, Exists
<1> QED BY <1>1, <1>2, <1>3, <1>4

\* Starting an approval: the proposal's digest is that of the detached row.
LEMMA StartApproveType ==
  ASSUME TypeOK, NEW c \in Clients, NEW p \in Proposals, StartApprove(c, p)
  PROVE  TypeOK'
<1>1. PICK d \in DOMAIN row :
        /\ row[d].content = proposals[p].sha
        /\ Begin(c, "approve", "hash", d, proposals[p].draft, p)
  BY DEF StartApprove, Readable, Exists
<1>2. PICK x \in Drafts : x = proposals[p].draft
  <2>1. proposals[p] \in ledger!Proposal
    BY DEF TypeOK, Proposals
  <2> QED BY <2>1 DEF ledger!Proposal
<1>3. p \in Nat /\ p \in DOMAIN proposals
  BY DEF TypeOK, Proposals
<1>4. Begin(c, "approve", "hash", d, x, p)
  BY <1>1, <1>2
<1>5. UNCHANGED <<row, files, proposals, revisions, terms, crossed>>
  BY DEF StartApprove
<1> QED BY <1>1, <1>2, <1>3, <1>4, <1>5, BeginType

\* The fields, counters, records and tables stay in their ranges: what every step of
\* an operation presupposes of the steps before it.
LEMMA TypeStep == TypeOK /\ [Next]_vars => TypeOK'
<1> SUFFICES ASSUME TypeOK, [Next]_vars PROVE TypeOK'
  OBVIOUS
<1>1. ASSUME NEW c \in Clients, Step(c) PROVE TypeOK'
  <2>1. ASSUME NEW d \in Docs, StartDownload(c, d) \/ StartExtract(c, d) \/ StartCorrect(c, d)
        PROVE TypeOK'
    BY <2>1, StartType
  <2>2. ASSUME NEW d \in Docs, NEW x \in Drafts, StartManual(c, d, x) PROVE TypeOK'
    BY <2>2, StartType
  <2>3. ASSUME NEW p \in Proposals, StartApprove(c, p) PROVE TypeOK'
    BY <2>3, StartApproveType
  <2>4. ASSUME NEW u \in Urls, NEW k \in Kinds, Correct(c, u, k) PROVE TypeOK'
    BY <2>4, CorrectType
  <2>5. ASSUME Hash(c) \/ Unlink(c) \/ Fetch(c) \/ FetchFails(c) \/ Record(c) PROVE TypeOK'
    BY <2>5, HashType, UnlinkType, FetchType, FetchFailsType, RecordType
  <2>6. ASSUME Draft(c) \/ Submit(c) \/ Cite(c) \/ Compare(c) PROVE TypeOK'
    BY <2>6, DraftType, SubmitType, CiteType, CompareType
  <2>7. ASSUME Queue(c) \/ Enter(c) \/ Attest(c) PROVE TypeOK'
    BY <2>7, QueueType, EnterType, AttestType
  <2>8. ASSUME Abort(c) PROVE TypeOK'
    BY <2>8, EndType DEF Abort
  <2> QED BY <1>1, <2>1, <2>2, <2>3, <2>4, <2>5, <2>6, <2>7, <2>8 DEF Step
<1>2. ASSUME NEW d \in Docs, Register(d) \/ Relist(d) \/ Delete(d) PROVE TypeOK'
  BY <1>2, RegisterType, RelistType, DeleteType
<1>3. ASSUME NEW p \in Proposals, Reject(p) PROVE TypeOK'
  BY <1>3, RejectType
<1>4. ASSUME NEW h \in Digests, Decay(h) PROVE TypeOK'
  BY <1>4, DecayType
<1>5. ASSUME UNCHANGED vars PROVE TypeOK'
  BY <1>5, JobsStay DEF TypeOK, vars, Grows
<1> QED BY <1>1, <1>2, <1>3, <1>4, <1>5 DEF Next

\* The empty tables and the empty cache have their types.
LEMMA TypeInit == Init => TypeOK
  BY IdleType DEF Init, TypeOK

\* Every table and every operation in progress is well-formed in every reachable state.
THEOREM TypeCorrect == Spec => []TypeOK
<1> QED BY TypeInit, TypeStep, PTL DEF Spec

-----------------------------------------------------------------------------
(* Provenance.  A client's snapshot was honest when it was taken, and what *)
(* is honest stays honest; so is what a download has in hand, and what is  *)
(* about to be written as an agent's evidence was found on the pages.      *)

JobHonest(j) ==
    j.at # "idle" =>
        /\ Honest(j.seen.url, j.seen.content)
        /\ j.at = "record" => Honest(j.seen.url, j.got)
        /\ j.at \in {"compare", "write"} /\ j.op \in {"propose", "approve"}
             => <<j.seen.content, j.draft>> \in Cites

HonestInv ==
    /\ ProvenanceHonest
    /\ RevisionsHonest
    /\ \A c \in Clients : JobHonest(job[c])

\* Once a source and a digest belong together they always do: no correction is forgotten.
LEMMA HonestStays ==
  ASSUME crossed \subseteq crossed', NEW u, NEW x, Honest(u, x)
  PROVE  Honest(u, x)'
  BY DEF Honest

\* What the other clients hold stays honest when one client's record changes to an honest one.
LEMMA HonestJobs ==
  ASSUME TypeOK, HonestInv, crossed \subseteq crossed', NEW c \in Clients, NEW j, JobHonest(j),
         job' = [job EXCEPT ![c] = j]
  PROVE  (\A b \in Clients : JobHonest(job[b]))'
<1> SUFFICES ASSUME NEW b \in Clients PROVE JobHonest(job[b])'
  OBVIOUS
<1>1. job'[b] = IF b = c THEN j ELSE job[b]
  BY DEF TypeOK
<1>2. JobHonest(job[b])
  BY DEF HonestInv
<1> QED BY <1>1, <1>2 DEF JobHonest, Honest

\* The steps that change nothing but a client's record.
LEMMA HonestMove ==
  ASSUME TypeOK, HonestInv, NEW c \in Clients, NEW j, JobHonest(j), job' = [job EXCEPT ![c] = j],
         UNCHANGED <<row, files, proposals, revisions, terms, crossed>>
  PROVE  HonestInv'
<1>1. (\A b \in Clients : JobHonest(job[b]))'
  BY HonestJobs
<1> QED BY <1>1 DEF HonestInv, ProvenanceHonest, RevisionsHonest, Honest

\* A client between operations holds nothing.
LEMMA IdleHonest == JobHonest(Idle)
  BY DEF JobHonest, Idle

\* Ending an operation leaves the evidence as it was.
LEMMA EndHonest ==
  ASSUME TypeOK, HonestInv, NEW c \in Clients, End(c),
         UNCHANGED <<row, files, proposals, revisions, terms, crossed>>
  PROVE  HonestInv'
  BY IdleHonest, HonestMove DEF End

\* A row is honest when it is read, so the detached copy is.
LEMMA BeginHonest ==
  ASSUME TypeOK, HonestInv, NEW c \in Clients, NEW d \in DOMAIN row, NEW op, NEW x, NEW p,
         NEW step \in {"hash", "flush"}, Begin(c, op, step, d, x, p),
         UNCHANGED <<row, files, proposals, revisions, terms, crossed>>
  PROVE  HonestInv'
<1> DEFINE j == [op |-> op, at |-> step, doc |-> d, seen |-> row[d],
                 got |-> None, draft |-> x, prop |-> p]
<1>1. JobHonest(j)
  BY DEF JobHonest, HonestInv, ProvenanceHonest
<1>2. job' = [job EXCEPT ![c] = j]
  BY DEF Begin
<1> HIDE DEF j
<1> QED BY <1>1, <1>2, HonestMove

\* A step of an operation keeps the snapshot.
LEMMA GotoHonest ==
  ASSUME TypeOK, HonestInv, NEW c \in Clients, NEW step, step # "record", Goto(c, step),
         ~At(c, "idle"),
         step \in {"compare", "write"} /\ job[c].op \in {"propose", "approve"}
           => <<job[c].seen.content, job[c].draft>> \in Cites
  PROVE  /\ JobHonest([job[c] EXCEPT !.at = step])
         /\ job' = [job EXCEPT ![c] = [job[c] EXCEPT !.at = step]]
<1>1. JobHonest(job[c]) /\ job[c] \in Job
  BY DEF HonestInv, TypeOK
<1> QED BY <1>1 DEF JobHonest, Job, Goto, At

\* A download comes back with a digest that its source served, or with a failure.
LEMMA ReturnHonest ==
  ASSUME TypeOK, HonestInv, NEW c \in Clients, NEW got, Honest(job[c].seen.url, got),
         ~At(c, "idle"), Return(c, got)
  PROVE  /\ JobHonest([job[c] EXCEPT !.at = "record", !.got = got])
         /\ job' = [job EXCEPT ![c] = [job[c] EXCEPT !.at = "record", !.got = got]]
<1>1. JobHonest(job[c]) /\ job[c] \in Job
  BY DEF HonestInv, TypeOK
<1> QED BY <1>1 DEF JobHonest, Job, Return, At

\* Honesty: hashing the cached file.
LEMMA HashHonest == ASSUME TypeOK, HonestInv, NEW c \in Clients, Hash(c) PROVE HonestInv'
<1>1. UNCHANGED <<row, files, proposals, revisions, terms, crossed>> /\ ~At(c, "idle")
  BY DEF Hash, At
<1>2. JobHonest(job[c]) /\ Honest(job[c].seen.url, job[c].seen.content)
  BY <1>1 DEF HonestInv, JobHonest, At
<1>3. \/ Return(c, job[c].seen.content)
      \/ \E step \in {"draft", "cite", "unlink", "fetch"} : Goto(c, step)
      \/ Op(c, "manual") /\ Goto(c, "compare")
      \/ End(c)
  BY DEF Hash, Verified, NoFile, Op
<1>4. CASE Return(c, job[c].seen.content)
  BY <1>1, <1>2, <1>4, ReturnHonest, HonestMove
<1>5. ASSUME NEW step \in {"draft", "cite", "unlink", "fetch"}, Goto(c, step) PROVE HonestInv'
  BY <1>1, <1>5, GotoHonest, HonestMove
<1>6. CASE Op(c, "manual") /\ Goto(c, "compare")
  BY <1>1, <1>6, GotoHonest, HonestMove DEF Op
<1>7. CASE End(c)
  BY <1>1, <1>7, EndHonest
<1> QED BY <1>3, <1>4, <1>5, <1>6, <1>7

\* Honesty: unlinking a damaged file.
LEMMA UnlinkHonest == ASSUME TypeOK, HonestInv, NEW c \in Clients, Unlink(c) PROVE HonestInv'
<1>1. \E j : JobHonest(j) /\ job' = [job EXCEPT ![c] = j]
  <2>1. CASE End(c)
    BY <2>1, IdleHonest DEF End
  <2>2. CASE Goto(c, "fetch")
    BY <2>2, GotoHonest DEF Unlink, At
  <2> QED BY <2>1, <2>2 DEF Unlink, NoFile
<1>2. (\A b \in Clients : JobHonest(job[b]))'
  BY <1>1, HonestJobs DEF Unlink
<1> QED BY <1>2 DEF HonestInv, ProvenanceHonest, RevisionsHonest, Honest, Unlink

\* Honesty: publishing fetched bytes.
LEMMA FetchHonest == ASSUME TypeOK, HonestInv, NEW c \in Clients, Fetch(c) PROVE HonestInv'
<1>1. PICK h \in Serves[job[c].seen.url] : Return(c, h)
  BY DEF Fetch
<1>2. Honest(job[c].seen.url, h)
  BY DEF Honest
<1>3. \E j : JobHonest(j) /\ job' = [job EXCEPT ![c] = j]
  BY <1>1, <1>2, ReturnHonest DEF Fetch, At
<1>4. (\A b \in Clients : JobHonest(job[b]))'
  BY <1>3, HonestJobs DEF Fetch
<1> QED BY <1>4 DEF HonestInv, ProvenanceHonest, RevisionsHonest, Honest, Fetch

\* Honesty: a failed fetch.
LEMMA FetchFailsHonest == ASSUME TypeOK, HonestInv, NEW c \in Clients, FetchFails(c) PROVE HonestInv'
<1>1. Honest(job[c].seen.url, "download_failed")
  BY EvidenceAssumption DEF Honest
<1> QED BY <1>1, ReturnHonest, HonestMove DEF FetchFails, At

\* The compare-and-set: what comes back is attached only to the source it came from.
LEMMA RecordHonest == ASSUME TypeOK, HonestInv, NEW c \in Clients, Record(c) PROVE HonestInv'
<1>1. Honest(job[c].seen.url, job[c].got)
  BY DEF HonestInv, JobHonest, Record, At
<1>2. crossed' = crossed /\ revisions' = revisions
  BY DEF Record
<1>3. ProvenanceHonest'
  <2>1. CASE UNCHANGED row
    BY <1>2, <2>1 DEF HonestInv, ProvenanceHonest, Honest
  <2>2. CASE SameSource(c) /\ row' = [row EXCEPT ![job[c].doc].content = job[c].got]
    <3> SUFFICES ASSUME NEW d \in DOMAIN row' PROVE Honest(row[d].url, row[d].content)'
      BY DEF ProvenanceHonest
    <3>1. d \in DOMAIN row /\ row[d] \in Row /\ Honest(row[d].url, row[d].content)
      BY <2>2 DEF TypeOK, HonestInv, ProvenanceHonest
    <3>2. CASE d = job[c].doc
      <4>1. row'[d].url = job[c].seen.url /\ row'[d].content = job[c].got
        BY <2>2, <3>1, <3>2 DEF SameSource, Row
      <4> QED BY <1>1, <1>2, <4>1 DEF Honest
    <3>3. CASE d # job[c].doc
      BY <1>2, <2>2, <3>1, <3>3 DEF Honest
    <3> QED BY <3>2, <3>3
  <2> QED BY <2>1, <2>2 DEF Record
<1>4. (\A b \in Clients : JobHonest(job[b]))'
  BY <1>2, IdleHonest, HonestJobs DEF Record, End
<1> QED BY <1>2, <1>3, <1>4 DEF HonestInv, RevisionsHonest, Honest

\* Honesty: the agent's answer.
LEMMA DraftHonest == ASSUME TypeOK, HonestInv, NEW c \in Clients, Draft(c) PROVE HonestInv'
<1>1. PICK x \in Drafts : job' = [job EXCEPT ![c] = [@ EXCEPT !.at = "submit", !.draft = x]]
  BY DEF Draft
<1> DEFINE j == [job[c] EXCEPT !.at = "submit", !.draft = x]
<1>2. job' = [job EXCEPT ![c] = j]
  BY <1>1
<1>3. JobHonest(job[c]) /\ job[c] \in Job /\ job[c].at = "draft"
  BY DEF HonestInv, TypeOK, Draft, At
<1>4. JobHonest(j)
  BY <1>3 DEF JobHonest, Job
<1> HIDE DEF j
<1> QED BY <1>2, <1>4, HonestMove DEF Draft

\* Honesty: the first transaction of a submission.
LEMMA SubmitHonest == ASSUME TypeOK, HonestInv, NEW c \in Clients, Submit(c) PROVE HonestInv'
<1>1. UNCHANGED <<row, files, proposals, revisions, terms, crossed>>
  BY DEF Submit
<1>2. CASE End(c)
  BY <1>1, <1>2, EndHonest
<1>3. CASE Exists(job[c].doc) /\ Begin(c, "propose", "hash", job[c].doc, job[c].draft, 0)
  BY <1>1, <1>3, BeginHonest DEF Exists
<1> QED BY <1>2, <1>3 DEF Submit, Readable

\* Honesty: looking up the citations.
LEMMA CiteHonest == ASSUME TypeOK, HonestInv, NEW c \in Clients, Cite(c) PROVE HonestInv'
<1>1. UNCHANGED <<row, files, proposals, revisions, terms, crossed>> /\ ~At(c, "idle")
  BY DEF Cite, At
<1>2. CASE End(c)
  BY <1>1, <1>2, EndHonest
<1>3. CASE <<job[c].seen.content, job[c].draft>> \in Cites /\ Goto(c, "compare")
  BY <1>1, <1>3, GotoHonest, HonestMove
<1> QED BY <1>2, <1>3 DEF Cite

\* Honesty: the second look at the document.
LEMMA CompareHonest == ASSUME TypeOK, HonestInv, NEW c \in Clients, Compare(c) PROVE HonestInv'
<1>1. /\ UNCHANGED <<row, files, proposals, revisions, terms, crossed>>
      /\ At(c, "compare") /\ ~At(c, "idle")
  BY DEF Compare, At
<1>2. CASE End(c)
  BY <1>1, <1>2, EndHonest
<1>3. CASE Goto(c, "write")
  <2>1. job[c].op \in {"propose", "approve"} => <<job[c].seen.content, job[c].draft>> \in Cites
    BY <1>1 DEF HonestInv, JobHonest, At
  <2> QED BY <1>1, <1>3, <2>1, GotoHonest, HonestMove
<1> QED BY <1>2, <1>3 DEF Compare

\* Honesty: inserting a proposal.
LEMMA QueueHonest == ASSUME TypeOK, HonestInv, NEW c \in Clients, Queue(c) PROVE HonestInv'
<1>1. (\A b \in Clients : JobHonest(job[b]))'
  BY IdleHonest, HonestJobs DEF Queue, End
<1> QED BY <1>1 DEF Queue, HonestInv, ProvenanceHonest, RevisionsHonest, Honest

\* The new revision names the source of the snapshot it was verified against.
LEMMA ReviseHonest ==
  ASSUME TypeOK, HonestInv, NEW c \in Clients, At(c, "write"), Revise(c), crossed' = crossed,
         job[c].op \in {"approve", "manual"}
  PROVE  RevisionsHonest'
<1> DEFINE new == [url |-> job[c].seen.url, sha |-> job[c].seen.content,
                   draft |-> job[c].draft, from |-> job[c].prop]
<1>1. /\ Honest(new.url, new.sha)
      /\ new.from # 0 => <<new.sha, new.draft>> \in Cites
  BY DEF TypeOK, HonestInv, JobHonest, JobOK, At
<1>2. revisions' = Append(revisions, new) /\ revisions \in Seq(ledger!Revision)
  BY DEF Revise, TypeOK
<1> HIDE DEF new
<1>3. ASSUME NEW i \in DOMAIN revisions'
      PROVE  /\ Honest(revisions[i].url, revisions[i].sha)'
             /\ revisions'[i].from # 0 => <<revisions'[i].sha, revisions'[i].draft>> \in Cites
  <2>1. CASE i \in DOMAIN revisions
    <3>1. revisions'[i] = revisions[i]
      BY <1>2, <2>1
    <3> QED BY <2>1, <3>1 DEF HonestInv, RevisionsHonest, Honest
  <2>2. CASE i \notin DOMAIN revisions
    <3>1. revisions'[i] = new
      BY <1>2, <2>2
    <3> QED BY <1>1, <3>1 DEF Honest
  <2> QED BY <2>1, <2>2
<1> QED BY <1>3 DEF RevisionsHonest

\* Honesty: a manual revision.
LEMMA EnterHonest == ASSUME TypeOK, HonestInv, NEW c \in Clients, Enter(c) PROVE HonestInv'
<1>1. (\A b \in Clients : JobHonest(job[b]))'
  BY IdleHonest, HonestJobs DEF Enter, End
<1>2. RevisionsHonest'
  <2>1. CASE Revise(c)
    BY <2>1, ReviseHonest DEF Enter, Op
  <2>2. CASE UNCHANGED revisions
    BY <2>2 DEF Enter, HonestInv, RevisionsHonest, Honest
  <2> QED BY <2>1, <2>2 DEF Enter
<1> QED BY <1>1, <1>2 DEF Enter, HonestInv, ProvenanceHonest, Honest

\* Honesty: an approval.
LEMMA AttestHonest == ASSUME TypeOK, HonestInv, NEW c \in Clients, Attest(c) PROVE HonestInv'
<1>1. (\A b \in Clients : JobHonest(job[b]))'
  BY IdleHonest, HonestJobs DEF Attest, End
<1>2. RevisionsHonest'
  <2>1. CASE Revise(c)
    BY <2>1, ReviseHonest DEF Attest, Op
  <2>2. CASE UNCHANGED revisions
    BY <2>2 DEF Attest, HonestInv, RevisionsHonest, Honest
  <2> QED BY <2>1, <2>2 DEF Attest
<1> QED BY <1>1, <1>2 DEF Attest, HonestInv, ProvenanceHonest, Honest

\* A flush that leaves a digest under a new url puts the pair into crossed.
LEMMA CorrectHonest ==
  ASSUME TypeOK, HonestInv, NEW c \in Clients, NEW u \in Urls, NEW k \in Kinds, Correct(c, u, k)
  PROVE  HonestInv'
<1> DEFINE d == job[c].doc
           new == Flushed(job[c].seen, row[d], u, k)
<1>1. /\ End(c) /\ revisions' = revisions
      /\ \/ /\ Exists(d) /\ row' = [row EXCEPT ![d] = new]
            /\ crossed' = IF new.url # row[d].url /\ new.content \in Digests
                          THEN crossed \cup {<<new.url, new.content>>} ELSE crossed
         \/ UNCHANGED <<row, crossed>>
  BY DEF Correct
<1>2. new.content = row[d].content \/ new.content = "not_downloaded"
  BY DEF Flushed, FlushedContent
<1> HIDE DEF new
<1>3. crossed \subseteq crossed'
  BY <1>1
<1>4. (\A b \in Clients : JobHonest(job[b]))'
  BY <1>1, <1>3, IdleHonest, HonestJobs DEF End
<1>5. ProvenanceHonest'
  <2>1. CASE UNCHANGED <<row, crossed>>
    BY <2>1 DEF HonestInv, ProvenanceHonest, Honest
  <2>2. CASE /\ Exists(d) /\ row' = [row EXCEPT ![d] = new]
             /\ crossed' = IF new.url # row[d].url /\ new.content \in Digests
                           THEN crossed \cup {<<new.url, new.content>>} ELSE crossed
    <3> SUFFICES ASSUME NEW e \in DOMAIN row' PROVE Honest(row[e].url, row[e].content)'
      BY DEF ProvenanceHonest
    <3>1. e \in DOMAIN row /\ Honest(row[e].url, row[e].content)
      BY <2>2 DEF TypeOK, HonestInv, ProvenanceHonest
    <3>2. CASE e = d
      <4>1. row'[e] = new
        BY <2>2, <3>1, <3>2 DEF TypeOK
      <4>2. CASE new.content = "not_downloaded"
        BY <4>1, <4>2, EvidenceAssumption DEF Honest
      <4>3. CASE new.url # row[d].url /\ new.content \in Digests
        BY <2>2, <4>1, <4>3 DEF Honest
      <4>4. CASE new.url = row[d].url /\ new.content = row[d].content
        BY <1>3, <3>1, <3>2, <4>1, <4>4 DEF Honest
      <4> QED BY <1>2, <4>1, <4>2, <4>3, <4>4 DEF Honest
    <3>3. CASE e # d
      BY <1>3, <2>2, <3>1, <3>3 DEF Honest
    <3> QED BY <3>2, <3>3
  <2> QED BY <1>1, <2>1, <2>2
<1> QED BY <1>1, <1>3, <1>4, <1>5 DEF HonestInv, RevisionsHonest, Honest

\* New, relisted and deleted filings do not give a row bytes its source never served.
LEMMA FilingsHonest ==
  ASSUME TypeOK, HonestInv, NEW d \in Docs, Register(d) \/ Relist(d) \/ Delete(d)
  PROVE  HonestInv'
<1>1. UNCHANGED <<revisions, job, crossed>>
  BY DEF Register, Relist, Delete
<1>2. ProvenanceHonest'
  <2> SUFFICES ASSUME NEW e \in DOMAIN row' PROVE Honest(row[e].url, row[e].content)'
    BY DEF ProvenanceHonest
  <2>1. CASE Register(d)
    BY <1>1, <2>1, EvidenceAssumption DEF Register, Honest, HonestInv, ProvenanceHonest
  <2>2. CASE Relist(d)
    <3>1. e \in DOMAIN row /\ row[e] \in Row
      BY <2>2 DEF Relist, TypeOK
    <3>2. row'[e].url = row[e].url /\ row'[e].content = row[e].content
      BY <2>2, <3>1 DEF Relist, Row
    <3> QED BY <1>1, <3>1, <3>2 DEF Honest, HonestInv, ProvenanceHonest
  <2>3. CASE Delete(d)
    BY <1>1, <2>3 DEF Delete, Honest, HonestInv, ProvenanceHonest
  <2> QED BY <2>1, <2>2, <2>3
<1> QED BY <1>1, <1>2 DEF HonestInv, RevisionsHonest, JobHonest, Honest

\* Every step preserves HonestInv.
LEMMA HonestStep == TypeOK /\ HonestInv /\ [Next]_vars => HonestInv'
<1> SUFFICES ASSUME TypeOK, HonestInv, [Next]_vars PROVE HonestInv'
  OBVIOUS
<1>1. ASSUME NEW c \in Clients, Step(c) PROVE HonestInv'
  <2>1. ASSUME NEW d \in Docs, StartDownload(c, d) \/ StartExtract(c, d) \/ StartCorrect(c, d)
        PROVE HonestInv'
    BY <2>1, BeginHonest DEF StartDownload, StartExtract, StartCorrect, Readable, Exists
  <2>2. ASSUME NEW d \in Docs, NEW x \in Drafts, StartManual(c, d, x) PROVE HonestInv'
    BY <2>2, BeginHonest DEF StartManual, Readable, Exists
  <2>3. ASSUME NEW p \in Proposals, StartApprove(c, p) PROVE HonestInv'
    BY <2>3, BeginHonest DEF StartApprove, Readable, Exists
  <2>4. ASSUME NEW u \in Urls, NEW k \in Kinds, Correct(c, u, k) PROVE HonestInv'
    BY <2>4, CorrectHonest
  <2>5. ASSUME Hash(c) \/ Unlink(c) \/ Fetch(c) \/ FetchFails(c) \/ Record(c) PROVE HonestInv'
    BY <2>5, HashHonest, UnlinkHonest, FetchHonest, FetchFailsHonest, RecordHonest
  <2>6. ASSUME Draft(c) \/ Submit(c) \/ Cite(c) \/ Compare(c) PROVE HonestInv'
    BY <2>6, DraftHonest, SubmitHonest, CiteHonest, CompareHonest
  <2>7. ASSUME Queue(c) \/ Enter(c) \/ Attest(c) PROVE HonestInv'
    BY <2>7, QueueHonest, EnterHonest, AttestHonest
  <2>8. ASSUME Abort(c) PROVE HonestInv'
    BY <2>8, EndHonest DEF Abort
  <2> QED BY <1>1, <2>1, <2>2, <2>3, <2>4, <2>5, <2>6, <2>7, <2>8 DEF Step
<1>2. ASSUME NEW d \in Docs, Register(d) \/ Relist(d) \/ Delete(d) PROVE HonestInv'
  BY <1>2, FilingsHonest
<1>3. ASSUME NEW p \in Proposals, Reject(p) PROVE HonestInv'
  BY <1>3 DEF Reject, HonestInv, ProvenanceHonest, RevisionsHonest, JobHonest, Honest
<1>4. ASSUME NEW h \in Digests, Decay(h) PROVE HonestInv'
  BY <1>4 DEF Decay, HonestInv, ProvenanceHonest, RevisionsHonest, JobHonest, Honest
<1>5. ASSUME UNCHANGED vars PROVE HonestInv'
  BY <1>5 DEF vars, HonestInv, ProvenanceHonest, RevisionsHonest, JobHonest, Honest
<1> QED BY <1>1, <1>2, <1>3, <1>4, <1>5 DEF Next

\* There is no evidence at first.
LEMMA HonestInit == Init => HonestInv
  BY IdleHonest DEF Init, HonestInv, ProvenanceHonest, RevisionsHonest

\* What is recorded, and what every client holds, stays honest.
LEMMA StaysHonest == Spec => []HonestInv
  BY TypeInit, TypeStep, HonestInit, HonestStep, PTL DEF Spec

\* No document is ever recorded with bytes its own URL did not serve, unless a
\* correction was flushed over a row that had changed under it.
THEOREM ProvenanceIsHonest == Spec => []ProvenanceHonest
<1>1. HonestInv => ProvenanceHonest
  BY DEF HonestInv
<1> QED BY <1>1, StaysHonest, PTL

\* Every revision names a source that served its bytes, and an agent's revision has
\* its citations on their pages.
THEOREM EvidenceIsHonest == Spec => []RevisionsHonest
<1>1. HonestInv => RevisionsHonest
  BY DEF HonestInv
<1> QED BY <1>1, StaysHonest, PTL

-----------------------------------------------------------------------------
(* The review queue.                                                       *)

\* No step takes the document away from a pending proposal.
LEMMA PendingStep ==
  TypeOK /\ TypeOK' /\ PendingHasDocument /\ [Next]_vars => PendingHasDocument'
<1> SUFFICES ASSUME TypeOK, TypeOK', PendingHasDocument, [Next]_vars,
                    NEW p \in Proposals', IsPending(p)'
             PROVE  proposals'[p].doc \in DOMAIN row'
  BY DEF PendingHasDocument
<1> USE DEF Proposals, IsPending
<1>1. CASE UNCHANGED proposals /\ DOMAIN row \subseteq DOMAIN row'
  BY <1>1 DEF PendingHasDocument
<1>2. ASSUME NEW c \in Clients, Step(c) PROVE proposals'[p].doc \in DOMAIN row'
  <2>1. CASE Queue(c)
    <3>1. UNCHANGED row /\ DOMAIN proposals = 1..Len(proposals) /\ Len(proposals) \in Nat
      BY <2>1 DEF Queue, TypeOK
    <3>2. CASE UNCHANGED proposals
      BY <3>1, <3>2, <1>1
    <3>3. CASE /\ job[c].doc \in DOMAIN row
               /\ proposals' = Append(proposals, [doc |-> job[c].doc, sha |-> job[c].seen.content,
                                                  draft |-> job[c].draft, status |-> "pending"])
      <4>1. CASE p = Len(proposals) + 1
        BY <3>1, <3>3, <4>1
      <4>2. CASE p # Len(proposals) + 1
        <5>1. p \in 1..Len(proposals) /\ proposals'[p] = proposals[p]
          BY <3>1, <3>3, <4>2
        <5> QED BY <3>1, <5>1 DEF PendingHasDocument
      <4> QED BY <4>1, <4>2
    <3> QED BY <2>1, <3>2, <3>3 DEF Queue, Exists
  <2>2. CASE Attest(c)
    <3>1. CASE UNCHANGED proposals
      BY <1>1, <2>2, <3>1 DEF Attest
    <3>2. CASE Decide(job[c].prop, "approved")
      <4>1. p \in DOMAIN proposals /\ proposals'[p].status = "pending" /\ UNCHANGED row
        BY <2>2, <3>2 DEF Decide, Attest
      <4>2. p # job[c].prop
        BY <3>2, <4>1 DEF Decide, TypeOK, ledger!Proposal
      <4>3. proposals'[p] = proposals[p]
        BY <3>2, <4>1, <4>2 DEF Decide
      <4> QED BY <4>1, <4>3 DEF PendingHasDocument
    <3> QED BY <2>2, <3>1, <3>2 DEF Attest
  <2>3. CASE ~Queue(c) /\ ~Attest(c)
    <3>1. UNCHANGED proposals /\ DOMAIN row \subseteq DOMAIN row'
      BY <1>2, <2>3 DEF Step, StartDownload, StartExtract, StartManual, StartApprove, StartCorrect,
         Correct, Hash, Unlink, Fetch, FetchFails, Record, Draft, Submit, Cite, Compare, Enter, Abort
    <3> QED BY <1>1, <3>1
  <2> QED BY <2>1, <2>2, <2>3
<1>3. ASSUME NEW d \in Docs, Register(d) \/ Relist(d) PROVE proposals'[p].doc \in DOMAIN row'
  BY <1>1, <1>3 DEF Register, Relist
<1>4. ASSUME NEW d \in Docs, Delete(d) PROVE proposals'[p].doc \in DOMAIN row'
  <2>1. p \in Proposals /\ proposals[p] \in ledger!Proposal
    BY <1>4 DEF Delete, TypeOK
  <2>2. CASE proposals[p].doc = d
    <3>1. proposals'[p].status = proposals[p].status
      BY <1>4, <2>1, <2>2 DEF Delete, ledger!Proposal
    <3> QED BY <1>4, <2>1, <2>2, <3>1 DEF Delete, ledger!Pending
  <2>3. CASE proposals[p].doc # d
    <3>1. proposals'[p] = proposals[p]
      BY <1>4, <2>1, <2>3 DEF Delete
    <3> QED BY <1>4, <2>1, <2>3, <3>1 DEF Delete, PendingHasDocument
  <2> QED BY <2>2, <2>3
<1>5. ASSUME NEW q \in Proposals, Reject(q) PROVE proposals'[p].doc \in DOMAIN row'
  <2>1. p \in DOMAIN proposals /\ proposals'[p].status = "pending" /\ UNCHANGED row
    BY <1>5 DEF Decide, Reject
  <2>2. p # q
    BY <1>5, <2>1 DEF Decide, Reject, TypeOK, ledger!Proposal
  <2>3. proposals'[p] = proposals[p]
    BY <1>5, <2>1, <2>2 DEF Decide, Reject
  <2> QED BY <2>1, <2>3 DEF PendingHasDocument
<1>6. ASSUME NEW h \in Digests, Decay(h) PROVE proposals'[p].doc \in DOMAIN row'
  BY <1>1, <1>6 DEF Decay
<1>7. CASE UNCHANGED vars
  BY <1>1, <1>7 DEF vars
<1> QED BY <1>2, <1>3, <1>4, <1>5, <1>6, <1>7 DEF Next

\* A proposal that waits for a decision has its document.
THEOREM QueueIsDecidable == Spec => []PendingHasDocument
<1>1. Init => PendingHasDocument
  BY DEF Init, PendingHasDocument, Proposals
<1> QED BY <1>1, TypeInit, TypeStep, PendingStep, PTL DEF Spec

-----------------------------------------------------------------------------
(* The review ledger.                                                      *)

\* Every step is a step of the review ledger, or leaves the ledger as it is.
LEMMA LedgerStep == TypeOK /\ [Next]_vars => [ledger!Next]_(ledger!vars)
<1> SUFFICES ASSUME TypeOK, [Next]_vars PROVE ledger!Next \/ UNCHANGED ledger!vars
  OBVIOUS
<1> USE DEF Proposals
<1>1. CASE UNCHANGED <<proposals, revisions, terms>>
  BY <1>1 DEF ledger!vars
<1>2. ASSUME NEW c \in Clients, Step(c) PROVE ledger!Next \/ UNCHANGED ledger!vars
  <2>1. CASE Queue(c)
    <3>1. job[c].doc \in Docs /\ job[c].seen.content \in Digests /\ job[c].draft \in Drafts
      BY <2>1 DEF Queue, At, Op, TypeOK, JobOK
    <3>2. CASE ledger!Propose(job[c].doc, job[c].seen.content, job[c].draft)
      BY <3>1, <3>2 DEF ledger!Next
    <3>3. CASE UNCHANGED proposals
      BY <2>1, <3>3, <1>1 DEF Queue
    <3> QED BY <2>1, <3>2, <3>3 DEF Queue, ledger!Propose
  <2>2. CASE Enter(c)
    <3>1. /\ job[c].seen.url \in Urls /\ job[c].seen.content \in Digests
          /\ job[c].draft \in Drafts /\ job[c].prop = 0
      BY <2>2 DEF Enter, At, Op, TypeOK, JobOK, Row
    <3>2. CASE UNCHANGED revisions
      BY <2>2, <3>2, <1>1 DEF Enter
    <3>3. CASE Revise(c)
      <4>1. ledger!Enter(job[c].seen.url, job[c].seen.content, job[c].draft)
        BY <2>2, <3>1, <3>3 DEF Enter, Revise, ledger!Enter
      <4> QED BY <3>1, <4>1 DEF ledger!Next
    <3> QED BY <2>2, <3>2, <3>3 DEF Enter
  <2>3. CASE Attest(c)
    <3>1. /\ job[c].seen.url \in Urls /\ job[c].prop \in DOMAIN proposals
          /\ proposals[job[c].prop].sha = job[c].seen.content
          /\ proposals[job[c].prop].draft = job[c].draft
      BY <2>3 DEF Attest, At, Op, TypeOK, JobOK, Row
    <3>2. CASE UNCHANGED <<revisions, terms, proposals>>
      BY <3>2, <1>1
    <3>3. CASE IsPending(job[c].prop) /\ Revise(c) /\ Decide(job[c].prop, "approved")
      <4>1. terms' = IF job[c].draft \in TermDrafts THEN job[c].draft ELSE terms
        BY <2>3, <3>3, <3>1 DEF Attest, Revise, TypeOK
      <4>2. ledger!Approve(job[c].prop, job[c].seen.url)
        BY <3>1, <3>3, <4>1 DEF Revise, Decide, IsPending, ledger!Approve, ledger!Decide
      <4> QED BY <3>1, <4>2 DEF ledger!Next
    <3> QED BY <2>3, <3>2, <3>3 DEF Attest
  <2>4. CASE ~Queue(c) /\ ~Enter(c) /\ ~Attest(c)
    <3>1. UNCHANGED <<proposals, revisions, terms>>
      BY <1>2, <2>4 DEF Step, StartDownload, StartExtract, StartManual, StartApprove, StartCorrect,
         Correct, Hash, Unlink, Fetch, FetchFails, Record, Draft, Submit, Cite, Compare, Abort
    <3> QED BY <1>1, <3>1
  <2> QED BY <2>1, <2>2, <2>3, <2>4
<1>3. ASSUME NEW d \in Docs, Register(d) \/ Relist(d) PROVE UNCHANGED ledger!vars
  BY <1>3 DEF Register, Relist, ledger!vars
<1>4. ASSUME NEW d \in Docs, Delete(d) PROVE ledger!Next
  BY <1>4 DEF Delete, ledger!Next, ledger!Orphan
<1>5. ASSUME NEW p \in Proposals, Reject(p) PROVE ledger!Next
  BY <1>5 DEF Reject, Decide, IsPending, ledger!Next, ledger!Reject, ledger!Decide
<1>6. ASSUME NEW h \in Digests, Decay(h) PROVE UNCHANGED ledger!vars
  BY <1>6 DEF Decay, ledger!vars
<1>7. CASE UNCHANGED vars
  BY <1>1, <1>7 DEF vars
<1> QED BY <1>2, <1>3, <1>4, <1>5, <1>6, <1>7 DEF Next

\* However clients interleave, crash or lose their races, the tables are those of the
\* review ledger: one decision for each proposal, with its revision and its terms.
THEOREM ImplementsLedger == Spec => RefinesLedger
<1>1. Init => ledger!Init
  BY DEF Init, ledger!Init
<1> QED BY <1>1, TypeInit, TypeStep, LedgerStep, PTL DEF Spec, RefinesLedger, ledger!Spec
=============================================================================
