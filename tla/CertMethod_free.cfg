\* Registrations, resets and every SAL call, with complete tables.
CONSTANTS
  Methods = {M1, M2, Mbad}
  Invalid = {Mbad}
  Incomplete = {}
  Ctxs = {c1, c2}
  Objs = {o1, o2}
  NULL = NULL
  M1 = M1
  M2 = M2
  Mbad = Mbad
  c1 = c1
  c2 = c2
  o1 = o1
  o2 = o2
  Ops <- MC_AllOps
SPECIFICATION Spec
INVARIANT TypeOK
INVARIANT StoreKeyFreedByAllocator
