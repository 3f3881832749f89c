SPECIFICATION ExchangeSpec
CONSTANTS
  Handlers = {h1}
  FairHandlers = {}
  Nothing = Nothing
  Repositories <- MCRepositories
  Visibilities <- MCVisibilities
  TTL = 0
  MaxSkew = 0
  MaxTime = 0
  TokenRequests <- MCTokenRequests
  GitHubRequests <- MCGitHubRequests
  Parts <- MCParts
  Organizations = {"org"}
  Installations = {"i1"}
  InstallationOwner <- MCInstallationOwner
  AppPermissions <- RepositoryActions
  GitHubConfigured = TRUE
  SiloRequests <- MCSiloRequests
  Urls <- MCUrls
  Canonical <- MCCanonical
  Manifest <- MCManifest
  OxideConfigured = TRUE
  AllowTokensWithoutExpiry = FALSE
  MaxDuration = 2
  Codes = {c1}
  Policies <- MCPolicies
  Effect <- MCEffect
  Evaluate <- MCEvaluate
  Audience = "oidcx"
  ProviderMaps <- MCProviderMaps
  SupportedAlgorithms = {"RS256"}
  Leeway = 0
  Jwts <- MCJwts
INVARIANTS
  ExchangeInv
  MintsAreAuthorized
  StatusTellsOutcome
PROPERTIES
  KeepsPromise
  StepsRunOut
