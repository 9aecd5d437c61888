\* Two fields that crypt_params_type.h numbers alike, in one array.
CONSTANTS
  NULL = NULL
  NoField = NoField
  Buffers = {"b1", "b2"}
  Cap <- MC_Cap
  Fields <- MC_CollidingFields
  NumSlots = 3
  HasTerminator = TRUE
  MaxNumber = 3
  U32Size = 2
  U32Lens = {2}
  MaxLen = 2
  Ops = {"InitValue", "FindParam"}
SPECIFICATION Spec
INVARIANT FindReturnsRequestedField
