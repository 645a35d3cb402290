SPECIFICATION Spec
CONSTANTS
  canva = canva
  other = other
  appUri = appUri
  otherUri = otherUri
  key1 = key1
  key2 = key2
  Clients = {canva, other}
  RedirectUris = {appUri, otherUri}
  Verifiers = {v}
  Users = {u1}
  Codes = {c1}
  Pairs = {p1, p2}
  Keys = {key1, key2}
  Configs <- MCConfigs
  AuthCodeTtl = 1
  TokenTtl = 1
  RefreshTtl = 2
  RefreshGrace = 1
  MaxTime = 4
SYMMETRY MCSymmetry
INVARIANTS
  GraceReplayIdempotent
