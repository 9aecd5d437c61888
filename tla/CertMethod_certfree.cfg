\* A certificate made under one table, freed after another is registered.
CONSTANTS
  Methods = {M1, M2, Mbad}
  Invalid = {Mbad}
  Incomplete = {}
  Ctxs = {c1, c2}
  Objs = {o1, o2}
  NULL = NULL
  M1 = M1
  M2 = M2
  Mbad = Mbad
  c1 = c1
  c2 = c2
  o1 = o1
  o2 = o2
  Ops <- MC_NoDeinit
SPECIFICATION Spec
INVARIANT CertFreedByAllocator
