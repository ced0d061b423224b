CONSTANTS
  Deployments <- ManyDeployments
  Redeploys <- ManyRedeploys
  Others <- ManyOthers
  Claims <- ManyClaims
  MaxDepth = 2
  MaxBoots = 1
  ListedX = {"x", "y"}
  Dirs <- MCDirs
  Legacies <- MCLegacies
  TrustRoots <- MCTrustRoots
  Chars = {"a", "b"}
  MaxLen = 4
SPECIFICATION EvidenceSpec
CHECK_DEADLOCK FALSE
INVARIANTS
  RejectedOnlyIfGone
  AcceptedIsAttested
  WalksAgree
  LoadedIsReference
