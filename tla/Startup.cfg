SPECIFICATION FairStartupSpec
CONSTANTS
  Handlers = {}
  Nothing = Nothing
  Garbage = Garbage
  Jwts <- StartupJwts
  Audience = "oidcx"
  SupportedAlgorithms = {"RS256"}
  Leeway = 0
  KnownAlgorithms = {"RS256"}
  Deployments <- MCDeployments
  Publishable <- MCPublishable
INVARIANTS
  StartupInv
  AcceptedIsGenuine
  SteadyProviderIsTrusted
PROPERTIES
  StartEnds
  LoadsRunOut
