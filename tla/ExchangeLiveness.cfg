SPECIFICATION FairExchangeSpec
CONSTANTS
  Handlers = {h1, h2}
  FairHandlers = {h1}
  Nothing = Nothing
  Repositories <- RaceRepositories
  Visibilities = {"private"}
  TTL = 0
  MaxSkew = 0
  MaxTime = 1
  TokenRequests <- LiveTokenRequests
  GitHubRequests <- LiveRequests
  Parts <- MCParts
  Organizations = {"org"}
  Installations = {"i1"}
  InstallationOwner <- MCInstallationOwner
  AppPermissions <- RepositoryActions
  GitHubConfigured = TRUE
  SiloRequests = {}
  Urls <- MCUrls
  Canonical <- MCCanonical
  Manifest <- MCManifest
  OxideConfigured = TRUE
  AllowTokensWithoutExpiry = FALSE
  MaxDuration = 2
  Codes = {}
  Policies <- MCPolicies
  Effect <- MCEffect
  Evaluate <- MCEvaluate
  Audience = "oidcx"
  ProviderMaps <- MCProviderMaps
  SupportedAlgorithms = {"RS256"}
  Leeway = 0
  Jwts <- LiveJwts
PROPERTIES
  Responds
  StepsRunOut
