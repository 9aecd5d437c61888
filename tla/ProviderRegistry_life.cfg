\* Two providers loaded, failed, unloaded and reloaded up to twice each,
\* with two algorithm contexts driven through every command code.
CONSTANTS
  Providers = {p1, p2}
  p1 = p1
  p2 = p2
  AlgIds = {1, 2}
  Offers <- MC_Offers
  CtxIds = {c1, c2}
  c1 = c1
  c2 = c2
  MaxLoads = 2
  NoCtx = NoCtx
SPECIFICATION Spec
INVARIANTS
  TypeOK
  ProvFreedOncePerInit
PROPERTIES
  ImplementsCatalog
