\* The demo client's main(), every call allowed to fail.  main() returns
\* after the cleanup block, so the final state has no successor.
SPECIFICATION Spec
INVARIANT NoDoubleRelease
INVARIANT HandlesReleasedAtExit
CHECK_DEADLOCK FALSE
