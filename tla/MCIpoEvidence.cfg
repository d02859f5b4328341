SPECIFICATION Spec
CONSTANTS
  c1 = c1
  c2 = c2
  d1 = d1
  u1 = u1
  u2 = u2
  h1 = h1
  h2 = h2
  x1 = x1
  None = None
  Docs = {d1}
  Urls = {u1, u2}
  Kinds = {"drhp", "final_offer"}
  Prospectuses = {"drhp"}
  Digests = {h1, h2}
  Drafts = {x1}
  TermDrafts = {x1}
  Serves <- MCTwoSources
  Cites <- MCCites
  Clients <- MCClients
  Work <- MCKeepers
  MaxProposals = 0
  MaxRevisions = 0
  Damage = {"corrupt"}
INVARIANTS ProvenanceHonest
CHECK_DEADLOCK FALSE
