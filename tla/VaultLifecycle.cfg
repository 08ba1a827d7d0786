CONSTANTS
  Att = {a1}
  Manager = {m1, m2}
  None = None
SPECIFICATION Spec
INVARIANTS LifecycleTypeOK PasswordNotLeft
PROPERTIES IdleCloseSparesHeldFiles UnusedVaultCloses CommandsReturn SignalCloses
CHECK_DEADLOCK FALSE
