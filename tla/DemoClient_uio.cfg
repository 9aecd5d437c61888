\* The demo client's main(), every call allowed to fail, checked for the
\* BSL_UIO reference main keeps after a successful HITLS_SetUio.
SPECIFICATION Spec
INVARIANT UioReleasedAtExit
CHECK_DEADLOCK FALSE
