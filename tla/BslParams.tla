------------------------------ MODULE BslParams ------------------------------
(***************************************************************************)
(* The typed key/value parameter container of src/bsl/params/src/          *)
(* bsl_params.c: a caller-owned array of BSL_Param slots, the four         *)
(* accessors that bind, write and read one slot, and the linear FindParam  *)
(* scan over the array.                                                    *)
(*                                                                         *)
(* A call of an accessor is one atomic step (the code is synchronous and   *)
(* the array is owned by one thread for the duration of a call).  Buffers  *)
(* are caller memory, abstracted to their capacity: no property here is    *)
(* about the bytes, only about how many are read or written where, so the *)
(* contents are left out.  Every step records in `last` what the call      *)
(* returned and which memory it touched.                                   *)
(***************************************************************************)
EXTENDS Integers, FiniteSets
LOCAL INSTANCE FiniteSetsExt

CONSTANTS
  Fields,       \* semantic fields a caller passes (RSA_N, KDF_SALT, ...)
  Buffers,      \* caller buffers (model values)
  Cap,          \* [Buffers -> Nat]: capacity of each buffer in bytes
  NULL,         \* the null pointer
  NoField,      \* the field of a sentinel slot (key 0)
  NumSlots,     \* number of BSL_Param entries the caller allocated
  HasTerminator,\* TRUE: the last entry is the key-0 terminator
  MaxNumber,    \* BSL_PARAM_MAX_NUMBER (1000 in the code), scaled down
  U32Size,      \* sizeof(uint32_t)
  U32Lens,      \* lengths callers bind a UINT32 slot with
  MaxLen,       \* bound on the lengths a caller passes with a NULL value
  Ops           \* the accessors the caller calls in this run

(* The keys crypt_params_type.h defines, by field.  CURVE25519_PUBKEY and  *)
(* CURVE25519_PRVKEY are defined from CRYPT_PARAM_RAND_BASE, as there.     *)
ParamKey ==
  [RSA_N |-> 1, RSA_E |-> 2, RSA_D |-> 3, RSA_P |-> 4, RSA_Q |-> 5,
   RSA_DQ |-> 6, RSA_DP |-> 7, RSA_QINV |-> 8, RSA_BITS |-> 9,
   KDF_PASSWORD |-> 101, KDF_MAC_ID |-> 102, KDF_SALT |-> 103,
   KDF_ITER |-> 104, KDF_MODE |-> 105, KDF_KEY |-> 106, KDF_PRK |-> 107,
   KDF_INFO |-> 108, KDF_EXLEN |-> 109, KDF_LABEL |-> 111, KDF_SEED |-> 112,
   KDF_N |-> 113, KDF_P |-> 114, KDF_R |-> 115,
   EC_POINT_UNCOMPRESSED |-> 201, EC_PRVKEY |-> 202,
   DH_PUBKEY |-> 301, DH_PRVKEY |-> 302, DSA_PUBKEY |-> 401, DSA_PRVKEY |-> 402,
   PAILLIER_N |-> 501, PAILLIER_G |-> 502, PAILLIER_N2 |-> 503,
   PAILLIER_LAMBDA |-> 504, PAILLIER_MU |-> 505,
   RAND_SEEDCTX |-> 601, RAND_PR |-> 602, RAND_SEED_GETENTROPY |-> 603,
   RAND_SEED_CLEANENTROPY |-> 604, RAND_SEED_GETNONCE |-> 605,
   RAND_SEED_CLEANNONCE |-> 606,
   CURVE25519_PUBKEY |-> 600 + 1, CURVE25519_PRVKEY |-> 600 + 2]

ASSUME Fields \subseteq DOMAIN ParamKey
ASSUME NumSlots \in Nat \ {0} /\ MaxNumber \in Nat \ {0}
ASSUME \A b \in Buffers : Cap[b] \in 0..MaxLen

\* The value types of bsl_params.h, and one outside the closed set.
UINT32     == "UINT32"
OCTETS     == "OCTETS"
UINT32_PTR == "UINT32_PTR"
OCTETS_PTR == "OCTETS_PTR"
BadType    == "OTHER"
ValueTypes == {UINT32, OCTETS, UINT32_PTR, OCTETS_PTR}
Types      == ValueTypes \cup {BadType}

\* Return codes.
SUCCESS      == "BSL_SUCCESS"
INVALID_KEY  == "BSL_PARAMS_INVALID_KEY"
INVALID_ARG  == "BSL_INVALID_ARG"
MISMATCH     == "BSL_PARAMS_MISMATCH"
INVALID_TYPE == "BSL_PARAMS_INVALID_TYPE"
NoError      == "NONE"

Slots    == 1..NumSlots
Ptrs     == Buffers \cup {NULL}
LenOf(b) == IF b = NULL THEN 0..MaxLen ELSE 0..Cap[b]

\* The key a caller passes for a field; NoField stands for key 0.
KeyOf(f) == IF f = NoField THEN 0 ELSE ParamKey[f]

(* A memory access: `n` bytes at buffer `buf`.                            *)
NoAccess     == [buf |-> NULL, n |-> 0]
Access(b, n) == [buf |-> b, n |-> n]

VARIABLES
  slots,   \* the BSL_Param array: key, valueType, value, valueLen, useLen;
           \* `field` and `set` are history: the field the caller bound
           \* and whether a SetValue has written the slot since binding
  last,    \* the most recent call: operation, arguments, result, accesses
  errTop   \* the most recent code pushed by BSL_ERR_PUSH_ERROR

vars == <<slots, last, errTop>>

Param(f, t, v, vl) ==
  [key |-> KeyOf(f), valueType |-> t, value |-> v, valueLen |-> vl,
   useLen |-> 0, field |-> f, set |-> FALSE]

Sentinel == Param(NoField, UINT32, NULL, 0)

(* An entry as a caller declares it statically, before binding it with    *)
(* InitValue: a field and a type, no value.                               *)
StaticParams ==
  {Param(f, t, NULL, 0) : f \in Fields, t \in ValueTypes}

\* Entries the caller may (re)bind: all but the terminator.
Writable == IF HasTerminator THEN 1..(NumSlots - 1) ELSE Slots

Call(op, p, f, t, v, len) ==
  [op |-> op, p |-> p, field |-> f, type |-> t, val |-> v, len |-> len,
   ret |-> SUCCESS, rd |-> NoAccess, wr |-> NoAccess,
   outPtr |-> NULL, outLen |-> 0, top |-> 0]

(* Ends a call: record it; a failing call pushes its code.  Of a failing  *)
(* call only the operation and the code are kept: no property looks at    *)
(* the arguments of a call that changed nothing.                          *)
Return(c, ret) ==
  /\ last' = IF ret = SUCCESS THEN c
             ELSE [Call(c.op, NULL, NoField, BadType, NULL, 0)
                     EXCEPT !.ret = ret, !.top = c.top, !.field = c.field]
  /\ errTop' = IF ret = SUCCESS THEN errTop ELSE ret

-----------------------------------------------------------------------------
(* The checks of BSL_PARAM_InitValue, in the code's order.  A mutant that  *)
(* forgets the closed set of types lets an unknown type into a slot.      *)
InitValueRet_AnyType(p, f, t, v, len) ==
  IF KeyOf(f) = 0 THEN INVALID_KEY
  ELSE IF (v = NULL /\ len # 0) \/ p = NULL THEN INVALID_ARG
  ELSE SUCCESS

InitValueRet(p, f, t, v, len) ==
  IF KeyOf(f) = 0 THEN INVALID_KEY
  ELSE IF (v = NULL /\ len # 0) \/ p = NULL THEN INVALID_ARG
  ELSE IF t \in {UINT32, OCTETS, UINT32_PTR} THEN SUCCESS
  ELSE INVALID_TYPE

(* BSL_PARAM_InitValue: bind a fresh slot to caller memory.               *)
BSL_PARAM_InitValue(p, f, t, v, len) ==
  LET ret == InitValueRet(p, f, t, v, len)
  IN /\ slots' = IF ret = SUCCESS
                 THEN [slots EXCEPT ![p] = Param(f, t, v, len)]
                 ELSE slots
     /\ Return(Call("InitValue", p, f, t, v, len), ret)

(* BSL_PARAM_SetValue: write into a bound slot.  OCTETS_PTR rebinds the    *)
(* pointer; UINT32 stores one uint32_t (U32Size bytes) through the bound  *)
(* pointer; OCTETS copies len bytes into the bound buffer.                 *)
(* A mutant of the OCTETS branch that forgets the capacity check.          *)
SetValueRet_NoCapCheck(p, f, t, v, len) ==
  LET s == slots[p]
  IN IF KeyOf(f) = 0 THEN INVALID_KEY
     ELSE IF p = NULL THEN INVALID_ARG
     ELSE IF s.key # KeyOf(f) \/ s.valueType # t THEN MISMATCH
     ELSE IF t = OCTETS_PTR THEN SUCCESS
     ELSE IF t = UINT32
          THEN IF s.valueLen # len \/ v = NULL \/ s.value = NULL
               THEN INVALID_ARG ELSE SUCCESS
     ELSE IF t = OCTETS
          THEN IF v = NULL \/ s.value = NULL THEN INVALID_ARG ELSE SUCCESS
     ELSE INVALID_TYPE

(* The checks of BSL_PARAM_SetValue, in the code's order.                 *)
SetValueRet(p, f, t, v, len) ==
  LET s == slots[p]
  IN IF KeyOf(f) = 0 THEN INVALID_KEY
     ELSE IF p = NULL THEN INVALID_ARG
     ELSE IF s.key # KeyOf(f) \/ s.valueType # t THEN MISMATCH
     ELSE IF t = OCTETS_PTR THEN SUCCESS
     ELSE IF t = UINT32
          THEN IF s.valueLen # len \/ v = NULL \/ s.value = NULL
               THEN INVALID_ARG ELSE SUCCESS
     ELSE IF t = OCTETS
          THEN IF s.valueLen < len \/ v = NULL \/ s.value = NULL
               THEN INVALID_ARG ELSE SUCCESS
     ELSE INVALID_TYPE

BSL_PARAM_SetValue(p, f, t, v, len) ==
  LET s   == slots[p]
      ret == SetValueRet(p, f, t, v, len)
      n   == IF t = UINT32 THEN U32Size ELSE len
      c   == Call("SetValue", p, f, t, v, len)
  IN /\ slots' = IF ret # SUCCESS THEN slots
                 ELSE IF t = OCTETS_PTR
                      THEN [slots EXCEPT ![p].value = v, ![p].useLen = len,
                                         ![p].set = TRUE]
                      ELSE [slots EXCEPT ![p].useLen = len, ![p].set = TRUE]
     /\ IF ret = SUCCESS /\ t # OCTETS_PTR
        THEN Return([c EXCEPT !.rd = Access(v, n), !.wr = Access(s.value, n)],
                    ret)
        ELSE Return(c, ret)

(* BSL_PARAM_GetPtrValue: hand out the stored pointer and valueLen.        *)
(* `out` is NULL when the caller passes a NULL val or valueLen pointer.    *)
BSL_PARAM_GetPtrValue(p, f, t, out) ==
  LET s   == slots[p]
      ret == IF KeyOf(f) = 0 THEN INVALID_KEY
             ELSE IF p = NULL \/ out = NULL THEN INVALID_ARG
             ELSE IF s.key # KeyOf(f) \/ s.valueType # t THEN MISMATCH
             ELSE IF t \in {UINT32_PTR, OCTETS_PTR} THEN SUCCESS
             ELSE INVALID_TYPE
      c   == Call("GetPtrValue", p, f, t, NULL, 0)
  IN /\ UNCHANGED slots
     /\ IF ret = SUCCESS
        THEN Return([c EXCEPT !.outPtr = s.value, !.outLen = s.valueLen], ret)
        ELSE Return(c, ret)

(* BSL_PARAM_GetValue: copy valueLen bytes of the slot into the caller's   *)
(* buffer `d` of declared capacity `dl` (the *valueLen on entry).             *)
(* The checks of BSL_PARAM_GetValue, in the code's order.                 *)
GetValueRet(p, f, t, d, dl, lenPtrNull) ==
  LET s == slots[p]
  IN IF KeyOf(f) = 0 THEN INVALID_KEY
     ELSE IF p = NULL \/ d = NULL \/ lenPtrNull THEN INVALID_ARG
     ELSE IF s.key # KeyOf(f) \/ s.valueType # t THEN MISMATCH
     ELSE IF t \in {UINT32, OCTETS}
          THEN IF dl < s.valueLen THEN INVALID_ARG ELSE SUCCESS
     ELSE INVALID_TYPE

BSL_PARAM_GetValue(p, f, t, d, dl, lenPtrNull) ==
  LET s   == slots[p]
      ret == GetValueRet(p, f, t, d, dl, lenPtrNull)
      c   == Call("GetValue", p, f, t, d, dl)
  IN /\ UNCHANGED slots
     /\ IF ret = SUCCESS
        THEN Return([c EXCEPT !.rd = Access(s.value, s.valueLen),
                              !.wr = Access(d, s.valueLen),
                              !.outLen = s.valueLen], ret)
        ELSE Return(c, ret)

(* The key of entry i as the scan reads it.  Past the allocated array the  *)
(* read is undefined; it can only happen at index MaxNumber, where the    *)
(* loop ends whatever it reads, so 0 stands for every outcome.             *)
KeyAt(i) == IF i <= NumSlots THEN slots[i].key ELSE 0

(* The while loop of BSL_PARAM_FindParam from entry i on (1-based): the    *)
(* condition reads param[index].key before testing index < MAX.  Yields    *)
(* the entry found (or NULL) and the last entry read.                      *)
(* A mutant of the loop keeps scanning for a later match.                  *)
RECURSIVE FindFrom_Last(_, _)
FindFrom_Last(key, i) ==
  IF KeyAt(i) # 0 /\ i - 1 < MaxNumber
  THEN LET rest == FindFrom_Last(key, i + 1)
       IN IF rest.found = NULL /\ KeyAt(i) = key
          THEN [found |-> i, top |-> rest.top] ELSE rest
  ELSE [found |-> NULL, top |-> i]

RECURSIVE FindFrom(_, _)
FindFrom(key, i) ==
  IF KeyAt(i) # 0 /\ i - 1 < MaxNumber
  THEN IF KeyAt(i) = key THEN [found |-> i, top |-> i]
       ELSE FindFrom(key, i + 1)
  ELSE [found |-> NULL, top |-> i]

(* BSL_PARAM_FindParam; `arrNull` is a NULL array argument.                *)
BSL_PARAM_FindParam(f, arrNull) ==
  LET key == KeyOf(f)
      r   == FindFrom(key, 1)
      c   == Call("FindParam", NULL, f, BadType, NULL, 0)
  IN /\ UNCHANGED slots
     /\ IF key = 0 THEN Return(c, INVALID_KEY)
        ELSE IF arrNull THEN Return(c, INVALID_ARG)
        ELSE IF r.found = NULL
             THEN Return([c EXCEPT !.top = r.top], MISMATCH)
        ELSE Return([c EXCEPT !.outPtr = r.found, !.top = r.top], SUCCESS)

-----------------------------------------------------------------------------
Init ==
  /\ slots \in IF HasTerminator
               THEN {a \in [Slots -> StaticParams \cup {Sentinel}] :
                       a[NumSlots] = Sentinel}
               ELSE [Slots -> StaticParams]
  /\ last = Call("None", NULL, NoField, BadType, NULL, 0)
  /\ errTop = NoError

AnyField == Fields \cup {NoField}

Next ==
  \/ /\ "InitValue" \in Ops
     /\ \E p \in Writable \cup {NULL}, f \in AnyField, t \in Types, v \in Ptrs :
       \E len \in LenOf(v) :
         /\ (t = UINT32 /\ v # NULL) => len \in U32Lens
         /\ BSL_PARAM_InitValue(p, f, t, v, len)
  \/ /\ "SetValue" \in Ops
     /\ \E p \in Slots \cup {NULL}, f \in AnyField, t \in Types, v \in Ptrs :
       \E len \in LenOf(v) : BSL_PARAM_SetValue(p, f, t, v, len)
  \/ /\ "GetPtrValue" \in Ops
     /\ \E p \in Slots \cup {NULL}, f \in AnyField, t \in Types, out \in {NULL, "out"} :
       BSL_PARAM_GetPtrValue(p, f, t, out)
  \/ /\ "GetValue" \in Ops
     /\ \E p \in Slots \cup {NULL}, f \in AnyField, t \in Types, d \in Ptrs,
        lenPtrNull \in BOOLEAN :
       \E dl \in LenOf(d) : BSL_PARAM_GetValue(p, f, t, d, dl, lenPtrNull)
  \/ /\ "FindParam" \in Ops
     /\ \E f \in AnyField, arrNull \in BOOLEAN : BSL_PARAM_FindParam(f, arrNull)

Spec == Init /\ [][Next]_vars

-----------------------------------------------------------------------------
TypeOK ==
  /\ slots \in [Slots -> [key : {0} \cup {ParamKey[f] : f \in Fields},
                          valueType : ValueTypes, value : Ptrs,
                          valueLen : 0..MaxLen, useLen : 0..MaxLen,
                          field : AnyField, set : BOOLEAN]]
  /\ last.ret \in {SUCCESS, INVALID_KEY, INVALID_ARG, MISMATCH, INVALID_TYPE}
  /\ errTop \in {NoError, INVALID_KEY, INVALID_ARG, MISMATCH, INVALID_TYPE}

(* No call reads or writes past the end of a caller buffer, nor touches a *)
(* NULL pointer: InitValue's recorded length, SetValue's capacity and      *)
(* length checks and GetValue's destination check must together keep      *)
(* every memcpy and every uint32_t store inside the memory it targets.     *)
InBuffer(a) == IF a.buf = NULL THEN a.n = 0 ELSE a.n <= Cap[a.buf]
NoOutOfBoundsAccess == InBuffer(last.rd) /\ InBuffer(last.wr)

(* The reference result of a lookup: the first entry holding `key` among  *)
(* those before the first key-0 entry and within the first MaxNumber.     *)
FirstMatch(key) ==
  LET live    == {i \in 1..NumSlots : i <= MaxNumber /\
                                      \A j \in 1..i : slots[j].key # 0}
      matches == {i \in live : slots[i].key = key}
  IN IF matches = {} THEN NULL ELSE Min(matches)

(* P6: BSL_PARAM_FindParam returns the first entry with the key asked    *)
(* for, and reports not-found exactly when there is none.                 *)
FindParamFirstMatch ==
  (last.op = "FindParam" /\ last.ret \in {SUCCESS, MISMATCH})
    => last.outPtr = FirstMatch(KeyOf(last.field))

(* P4 of the spec, the round-trip law: after SetValue has written `len`   *)
(* bytes into a slot, GetValue reports *valueLen == len.  The code sets   *)
(* *valueLen to the slot's capacity valueLen instead of useLen.           *)
GetValueReportsSetLength ==
  (last.op = "GetValue" /\ last.ret = SUCCESS /\ slots[last.p].set)
    => last.outLen = slots[last.p].useLen

(* P2 of the spec: no accessor accepts a NULL value with a nonzero        *)
(* length.  SetValue's OCTETS_PTR branch stores the pointer and length     *)
(* without looking at either.                                              *)
NullValueRejected ==
  (last.op \in {"InitValue", "SetValue"} /\ last.ret = SUCCESS)
    => ~(last.val = NULL /\ last.len # 0)

(* A key names one field: the entry FindParam returns for a field holds   *)
(* that field, not another one the header gives the same number.          *)
FindReturnsRequestedField ==
  (last.op = "FindParam" /\ last.ret = SUCCESS)
    => slots[last.outPtr].field = last.field

=============================================================================
