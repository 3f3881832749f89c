SPECIFICATION ServiceSpec
CONSTANTS
  Handlers = {h1}
  FairHandlers = {}
  Nothing = Nothing
  Garbage = Garbage
  Repositories <- RaceRepositories
  Visibilities = {"public"}
  TTL = 0
  MaxSkew = 0
  MaxTime = 0
  TokenRequests <- LiveTokenRequests
  GitHubRequests <- LiveRequests
  Parts <- MCParts
  Organizations = {"org"}
  Installations = {"i1"}
  InstallationOwner <- MCInstallationOwner
  AppPermissions <- RepositoryActions
  GitHubConfigured = TRUE
  SiloRequests <- ServiceSiloRequests
  Urls <- MCUrls
  Canonical <- MCCanonical
  Manifest <- ServiceManifest
  OxideConfigured = TRUE
  AllowTokensWithoutExpiry = FALSE
  MaxDuration = 2
  Codes = {c1, c2}
  Policies <- MCPolicies
  Effect <- MCEffect
  Evaluate <- MCEvaluate
  Audience = "oidcx"
  ProviderMaps <- ServiceProviderMaps
  SupportedAlgorithms = {"RS256"}
  Leeway = 0
  Jwts <- ServiceJwts
  KnownAlgorithms = {"RS256"}
  Deployments <- ServiceDeployments
  Publishable <- ServicePublishable
INVARIANTS
  AdmittedIsGenuine
PROPERTIES
  KeepsPromise
