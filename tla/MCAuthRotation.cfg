SPECIFICATION Spec
CONSTANTS
  canva = canva
  other = other
  appUri = appUri
  otherUri = otherUri
  key1 = key1
  key2 = key2
  Clients = {canva, other}
  RedirectUris = {appUri, otherUri}
  Verifiers = {v}
  Users = {u1, u2}
  Codes = {c1}
  Pairs = {p1, p2, p3}
  Keys = {key1, key2}
  Configs <- MCConfigsDev
  AuthCodeTtl = 1
  TokenTtl = 1
  RefreshTtl = 3
  RefreshGrace = 1
  MaxTime = 5
SYMMETRY MCSymmetry
INVARIANTS
  TypeOK
  PruneUnobservable
  OneLiveRefreshTokenPerFamily
  OneChild
  BindingPreserved
PROPERTIES
  DeadFamiliesStayDead
  ImplementsLedger
