\* Both test programs end (pc = "end" on both sides), so the final state
\* has no successor by design: deadlock is not checked.
CONSTANTS
  AcceptTries = 3
  ConnectTries = 3
  WriteTries = 2
  ReadTries = 3
  ChanCap = 2
  NumMsgs = 2
  MaxConfig = 2
  MaxNameLen = 6
  Known <- MC_Known
  Names <- MC_Names
  Versions = {"TLS1_2", "TLS1_3", "TLCP1_1", "UNKNOWN"}
  Tlcp11Built = FALSE
  CtxInputs <- MC_CtxInputs
SPECIFICATION Spec
INVARIANTS
  TypeOK
  SetConfigMatchesReference
  UioOwnedOnce
PROPERTY
  Termination
CHECK_DEADLOCK FALSE
