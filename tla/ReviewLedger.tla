---------------------------- MODULE ReviewLedger ----------------------------
(***************************************************************************)
(* What docs/architecture/ipo-010-ai-extraction-proposals.md promises of   *)
(* the review of one issue's evidence, with no files, no downloads and no  *)
(* steps inside an operation.  Proposals queue up, one pending for each    *)
(* document and no two alike; each is decided at most once; an approval    *)
(* appends its revision and applies its issue terms at the same instant;   *)
(* and revisions are only ever appended.                                   *)
(***************************************************************************)
EXTENDS Naturals, Sequences

CONSTANTS Docs, Urls, Digests, Drafts,
          TermDrafts,   \* drafts that carry issue terms (price_band_high, ...)
          None

VARIABLES
    proposals,  \* ipo_extraction_proposals, in order of id
    revisions,  \* ipo_manual_extractions, in order of id
    terms       \* the draft whose issue terms the issue row carries

vars == <<proposals, revisions, terms>>

Proposal == [doc : Docs \cup {None}, sha : Digests, draft : Drafts,
             status : {"pending", "approved", "rejected"}]
Revision == [url : Urls, sha : Digests, draft : Drafts, from : Nat]

Pending(d) == \E p \in DOMAIN proposals :
                 proposals[p].doc = d /\ proposals[p].status = "pending"

Alike(d, h, x) == \E p \in DOMAIN proposals :
                     /\ proposals[p].doc = d
                     /\ proposals[p].sha = h /\ proposals[p].draft = x

Init == proposals = <<>> /\ revisions = <<>> /\ terms = None

Propose(d, h, x) ==
    /\ ~Pending(d) /\ ~Alike(d, h, x)
    /\ proposals' = Append(proposals, [doc |-> d, sha |-> h, draft |-> x, status |-> "pending"])
    /\ UNCHANGED <<revisions, terms>>

Decide(p, decision) ==
    /\ proposals[p].status = "pending"
    /\ proposals' = [proposals EXCEPT ![p].status = decision]

Approve(p, u) ==
    /\ Decide(p, "approved")
    /\ revisions' = Append(revisions, [url |-> u, sha |-> proposals[p].sha,
                                       draft |-> proposals[p].draft, from |-> p])
    /\ terms' = IF proposals[p].draft \in TermDrafts THEN proposals[p].draft ELSE terms

Reject(p) == Decide(p, "rejected") /\ UNCHANGED <<revisions, terms>>

\* A revision typed in by an administrator stands for no proposal.
Enter(u, h, x) ==
    /\ revisions' = Append(revisions, [url |-> u, sha |-> h, draft |-> x, from |-> 0])
    /\ UNCHANGED <<proposals, terms>>

\* The history of a deleted document stays, without its document.
Orphan(d) ==
    /\ ~Pending(d)
    /\ proposals' = [p \in DOMAIN proposals |->
                       IF proposals[p].doc = d THEN [proposals[p] EXCEPT !.doc = None]
                                               ELSE proposals[p]]
    /\ UNCHANGED <<revisions, terms>>

Next ==
    \/ \E d \in Docs : \/ Orphan(d)
                       \/ \E h \in Digests, x \in Drafts : Propose(d, h, x)
    \/ \E p \in DOMAIN proposals : Reject(p) \/ \E u \in Urls : Approve(p, u)
    \/ \E u \in Urls, h \in Digests, x \in Drafts : Enter(u, h, x)

Spec == Init /\ [][Next]_vars
=============================================================================
