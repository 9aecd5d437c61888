\* Calls of 0 bytes, a partial block, one block, two blocks and a tail,
\* and three blocks, from IVs at and just below the low-word wrap.
CONSTANTS
  W = 6
  H = 1
  IvLows = {0, 61, 62, 63}
  IvHighs = {0, 1}
  Lens = {0, 5, 16, 37, 48}
  MaxBytes = 100
  CiphCtxSet = TRUE
SPECIFICATION Spec
INVARIANTS
  TypeOK
  CounterStreamMatches
PROPERTY
  OneCounter
