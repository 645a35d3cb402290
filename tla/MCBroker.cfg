SPECIFICATION BrokerSpec
CONSTANTS
  canva = canva
  appUri = appUri
  key1 = key1
  clientSecret = clientSecret
  Clients = {canva}
  RedirectUris = {appUri}
  Verifiers = {v}
  Users = {u1, u2}
  Codes = {c1, c2}
  Pairs = {p1, p2}
  Keys = {key1}
  Configs <- MCConfigs
  AuthCodeTtl = 1
  TokenTtl = 1
  RefreshTtl = 2
  RefreshGrace = 1
  MaxTime = 2
  Grants = {g1, g2}
  Secrets = {s1, s2}
  Requests = {r1}
  SignedUrlTtl = 1
  Verification <- MCVerification
  CanvaSecret <- clientSecret
  Tolerance = 1
  Skew = 1
  MaxUninstalls = 1
SYMMETRY MCSymmetry
INVARIANTS
  BrokerTypeOK
  UrlsWorkAsPromised
  EndedSessionsStayEnded
  OnlyRecentUninstallsEndSessions
