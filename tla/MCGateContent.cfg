SPECIFICATION Spec
CONSTANTS
  polite = polite
  pushy = pushy
  edge = edge
  inner = inner
  Hosts = {polite, pushy, edge, inner}
  TrustedProxies = {edge, inner}
  ClientHosts = {polite, pushy}
  OauthEndpoints = {}
  ContentEndpoints = {find}
  Obedient = {polite}
  HeaderNames = {"x-real-ip"}
  Paths <- MCPaths
  Forgeries <- MCForgeries
  MaxRequests = 2
  Window = 3
  Second = 2
  MaxTime = 7
INVARIANTS
  PerClientLimit
