SPECIFICATION FairSpec
CONSTANTS
  Threads = {t1, t2}
  Updates = {u1, u2, u3}
  RequireSecurePermissions = TRUE
INVARIANTS
  TypeOK
  AcknowledgedIsDurable
  ReadsAreNeverUndone
PROPERTIES
  ImplementsAtomicStore
  LockReleased
