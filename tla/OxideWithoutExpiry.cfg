SPECIFICATION OxideSpec
CONSTANTS
  Handlers = {h1, h2}
  Codes = {c1, c2, c3}
  Nothing = Nothing
  Urls <- MCUrls
  Canonical <- MCCanonical
  Manifest <- MCManifest
  SiloRequests <- MCSiloRequests
  OxideConfigured = TRUE
  AllowTokensWithoutExpiry = TRUE
  MaxDuration = 2
SYMMETRY Symmetry
INVARIANTS
  LifetimeBounded
