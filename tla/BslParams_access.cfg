\* Callers that respect the contracts: UINT32 slots are bound to
\* sizeof(uint32_t) bytes and the array ends with a key-0 terminator.
\* One writable entry is enough for the accessors, which touch one entry.
CONSTANTS
  NULL = NULL
  NoField = NoField
  Buffers = {"b1", "b2"}
  Cap <- MC_Cap
  Fields <- MC_Fields
  NumSlots = 2
  HasTerminator = TRUE
  MaxNumber = 2
  U32Size = 2
  U32Lens = {2}
  MaxLen = 2
  Ops = {"InitValue", "SetValue", "GetPtrValue", "GetValue", "FindParam"}
SPECIFICATION Spec
INVARIANT TypeOK
INVARIANT NoOutOfBoundsAccess
