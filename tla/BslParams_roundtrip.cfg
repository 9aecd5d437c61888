\* SetValue of an OCTETS slot, then GetValue: the length GetValue reports.
CONSTANTS
  NULL = NULL
  NoField = NoField
  Buffers = {"b1", "b2"}
  Cap <- MC_Cap
  Fields <- MC_Fields
  NumSlots = 2
  HasTerminator = TRUE
  MaxNumber = 2
  U32Size = 2
  U32Lens = {2}
  MaxLen = 2
  Ops = {"InitValue", "SetValue", "GetValue"}
SPECIFICATION Spec
INVARIANT GetValueReportsSetLength
