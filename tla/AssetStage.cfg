CONSTANTS
  Actors = {a1}
  Seats = {s1, s2}
  Principals <- AllPrincipals
  Threads = {h1, h2}
  UrlTtl = 1
  StageTtl = 2
  MaxAssetBytes = 2
  MaxStaged = 2
  MaxStagedBytes = 3
  NotText = NotText
  MaxIds = 3
  MaxClock = 3
  MaxProposals = 2
SPECIFICATION Spec
SYMMETRY Symmetry
INVARIANTS
  Quotas
  UrlsAwaitBodies
  ClaimsAreExclusive
  ProposedAsScanned
  OneSuccess
