\* Lookup over a terminated array with two writable entries, so that a key
\* can occur twice, absent, or behind another key.
CONSTANTS
  NULL = NULL
  NoField = NoField
  Buffers = {"b1", "b2"}
  Cap <- MC_Cap
  Fields <- MC_Fields
  NumSlots = 3
  HasTerminator = TRUE
  MaxNumber = 3
  U32Size = 2
  U32Lens = {2}
  MaxLen = 2
  Ops = {"InitValue", "FindParam"}
SPECIFICATION Spec
INVARIANT FindParamFirstMatch
