\* Each behaviour is one builder call that returns; the final state has no
\* successor, so deadlock checking is off.
CONSTANTS
  NULL = NULL
  Tls13Built = TRUE
  SessionBuilt = TRUE
  CertMgrEnabled = TRUE
  SchemeLists <- MC_SchemeLists
SPECIFICATION Spec
INVARIANTS
  TypeOK
  FailedBuildHoldsNothing
  SuccessfulBuildComplete
  TlcpSettingsAgree
CHECK_DEADLOCK FALSE
