SPECIFICATION GitHubSpec
CONSTANTS
  Handlers = {h1, h2}
  Parts <- MCParts
  Organizations = {"org"}
  Installations = {"i1", "i2", "i3"}
  Nothing = Nothing
  GitHubConfigured = TRUE
  InstallationOwner <- MCInstallationOwner
  AppPermissions <- MCAppPermissions
  TokenRequests <- MCTokenRequests
INVARIANTS
  ScopeIsRequested
  NotInstalledIsTrue
  GitHubInv
PROPERTIES
  GitHubServes
