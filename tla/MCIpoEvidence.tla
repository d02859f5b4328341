---------------------------- MODULE MCIpoEvidence ---------------------------
(* Small instances of IpoEvidence for TLC: two clients and one document.   *)
EXTENDS IpoEvidence, TLC

CONSTANTS c1, c2, d1, u1, u2, h1, h2, x1

MCClients == {c1, c2}

\* Provenance: a correction moves the document between two sources.
MCTwoSources == (u1 :> {h1}) @@ (u2 :> {h2})
MCKeepers    == (c1 :> {"download"}) @@ (c2 :> {"download", "correct"})

\* Review: one source, whose file is replaced on the server.
MCOneSource == (u1 :> {h1, h2})
MCReviewers == (c1 :> {"download", "extract", "approve"}) @@
               (c2 :> {"extract", "approve", "manual"})
MCCites     == {<<h1, x1>>}
=============================================================================
