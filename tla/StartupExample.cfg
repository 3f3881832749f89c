SPECIFICATION StartupSpec
CONSTANTS
  Handlers = {}
  Nothing = Nothing
  Garbage = Garbage
  Jwts <- StartupJwts
  Audience = "oidcx"
  SupportedAlgorithms = {"RS256"}
  Leeway = 0
  KnownAlgorithms = {"RS256"}
  Deployments <- ExampleDeployments
  Publishable <- MCPublishable
INVARIANTS
  ExampleConfigures
