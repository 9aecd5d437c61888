----------------------------- MODULE CertMethod -----------------------------
(***************************************************************************)
(* The certificate-manager method table of src/tls/cert/cert_adapt/       *)
(* cert_method.c.  A process-wide HITLS_CERT_MgrMethod (g_certMgrMethod)   *)
(* is set by HITLS_CERT_RegisterMgrMethod and zeroed by                   *)
(* HITLS_CERT_DeinitMgrMethod; every CERT_MgrCtx holds its own copy of    *)
(* the table (cert_mgr_ctx.h, field `method`), taken when the context is  *)
(* created.  The SAL_CERT_* functions call a callback of that copy, all   *)
(* but SAL_CERT_X509Free, which calls the global one.                     *)
(*                                                                         *)
(* A method table is a model value; `Has(m, cb)` says whether its          *)
(* callback `cb` is set.  Stores, certificates and keys are slots of      *)
(* `objs`, each remembering the table whose callback allocated it.  Every  *)
(* SAL call is one step; `last` records the callback it invoked and       *)
(* through which table.                                                    *)
(***************************************************************************)
EXTENDS FiniteSets

CONSTANTS
  Methods,     \* method tables a caller may register (model values)
  Incomplete,  \* tables whose certRef, encrypt and decrypt are NULL
  Invalid,     \* tables lacking certFree, a callback IsMethodValid requires
  Ctxs,        \* certificate manager contexts (model values)
  Objs,        \* slots for stores, certificates and keys (model values)
  NULL,        \* the null pointer, and the zeroed table
  Ops          \* the SAL calls the caller makes in this run

ASSUME Incomplete \subseteq Methods /\ Invalid \subseteq Methods

\* The callbacks IsMethodValid requires, and those it lets be NULL.
Required ==
  {"certStoreNew", "certStoreDup", "certStoreFree", "certStoreCtrl",
   "buildCertChain", "verifyCertChain", "certEncode", "certParse",
   "certDup", "certFree", "certCtrl", "keyParse", "keyDup", "keyFree",
   "keyCtrl", "createSign", "verifySign", "checkPrivateKey"}
Optional == {"certRef", "encrypt", "decrypt"}

Has(m, cb) ==
  /\ m # NULL
  /\ cb \in Required => m \notin Invalid \/ cb # "certFree"
  /\ cb \in Optional => m \notin Incomplete

Kinds  == {"store", "cert", "key"}
NewCb  == [store |-> "certStoreNew", cert |-> "certParse", key |-> "keyParse"]
DupCb  == [store |-> "certStoreDup", cert |-> "certDup", key |-> "keyDup"]

(* The SAL calls that use an object without creating or freeing it: the   *)
(* callback, the kind of object passed, whether the call rejects a NULL   *)
(* object first, and whether a failing callback's code is mapped through  *)
(* CheckCertCallBackRetVal (SAL_CERT_KeyDecrypt returns it unchanged).     *)
UseOps ==
  [BuildChain      |-> [cb |-> "buildCertChain",  kind |-> "cert",  guard |-> FALSE, mapped |-> TRUE],
   VerifyChain     |-> [cb |-> "verifyCertChain", kind |-> "store", guard |-> FALSE, mapped |-> TRUE],
   X509Encode      |-> [cb |-> "certEncode",      kind |-> "cert",  guard |-> FALSE, mapped |-> TRUE],
   X509Ref         |-> [cb |-> "certRef",         kind |-> "cert",  guard |-> FALSE, mapped |-> FALSE],
   StoreCtrl       |-> [cb |-> "certStoreCtrl",   kind |-> "store", guard |-> FALSE, mapped |-> TRUE],
   X509Ctrl        |-> [cb |-> "certCtrl",        kind |-> "cert",  guard |-> TRUE,  mapped |-> TRUE],
   KeyCtrl         |-> [cb |-> "keyCtrl",         kind |-> "key",   guard |-> TRUE,  mapped |-> TRUE],
   CreateSign      |-> [cb |-> "createSign",      kind |-> "key",   guard |-> TRUE,  mapped |-> TRUE],
   VerifySign      |-> [cb |-> "verifySign",      kind |-> "key",   guard |-> FALSE, mapped |-> TRUE],
   KeyEncrypt      |-> [cb |-> "encrypt",         kind |-> "key",   guard |-> FALSE, mapped |-> TRUE],
   KeyDecrypt      |-> [cb |-> "decrypt",         kind |-> "key",   guard |-> FALSE, mapped |-> FALSE],
   CheckPrivateKey |-> [cb |-> "checkPrivateKey", kind |-> "cert",  guard |-> FALSE, mapped |-> TRUE]]

\* Return codes, abstracted.
SUCCESS    == "HITLS_SUCCESS"
NULL_INPUT == "HITLS_NULL_INPUT"
CB_ERROR   == "HITLS_CERT_ERR"   \* a failing callback's code, mapped
CB_RAW     == "CALLBACK_RET"     \* a failing callback's code, unchanged
NONE       == "NONE"             \* void functions and object results

Absent  == "absent"              \* a context not created yet
FreeObj == [kind |-> "none", by |-> NULL, ctx |-> Absent]

VARIABLES
  g,     \* g_certMgrMethod
  mgr,   \* mgr[c]: the method copy of context c, or Absent
  objs,  \* objs[o]: kind of object in slot o, table that allocated it, owner
  last   \* the latest call: op, callback, table called, allocator, result

vars == <<g, mgr, objs, last>>

Call(op, cb, via, by, ret) ==
  [op |-> op, cb |-> cb, via |-> via, by |-> by, ret |-> ret]

Live(o, k) == objs[o].kind = k

-----------------------------------------------------------------------------
(* IsMethodValid: every required callback set.                           *)
IsMethodValid(m) == m # NULL /\ \A cb \in Required : Has(m, cb)

(* A registration that skips the validity check.                          *)
HITLS_CERT_RegisterMgrMethod_NoCheck(m) ==
  /\ g' = m
  /\ last' = Call("Register", NONE, m, NULL, SUCCESS)
  /\ UNCHANGED <<mgr, objs>>

(* HITLS_CERT_RegisterMgrMethod: validate, then copy into the global.      *)
HITLS_CERT_RegisterMgrMethod(m) ==
  IF IsMethodValid(m)
  THEN /\ g' = m
       /\ last' = Call("Register", NONE, m, NULL, SUCCESS)
       /\ UNCHANGED <<mgr, objs>>
  ELSE /\ last' = Call("Register", NONE, m, NULL, NULL_INPUT)
       /\ UNCHANGED <<g, mgr, objs>>

(* HITLS_CERT_DeinitMgrMethod: zero the global table.                     *)
HITLS_CERT_DeinitMgrMethod ==
  /\ g' = NULL
  /\ last' = Call("Deinit", NONE, NULL, NULL, NONE)
  /\ UNCHANGED <<mgr, objs>>

(* A config builder creating its manager context: only when              *)
(* SAL_CERT_MgrIsEnable(), and the context copies the global table         *)
(* returned by SAL_CERT_GetMgrMethod.                                      *)
MgrCtxNew(c) ==
  /\ mgr[c] = Absent
  /\ g # NULL
  /\ mgr' = [mgr EXCEPT ![c] = g]
  /\ last' = Call("MgrCtxNew", NONE, g, NULL, NONE)
  /\ UNCHANGED <<g, objs>>

-----------------------------------------------------------------------------
(* The constructors (SAL_CERT_StoreNew, SAL_CERT_X509Parse,               *)
(* SAL_CERT_KeyParse): call the context's constructor; `ok` is whether it *)
(* returned an object (a parse may fail and return NULL).                 *)
Create(op, k, c, o, ok) ==
  LET m == mgr[c]
  IN /\ mgr[c] # Absent
     /\ objs[o].kind = "none"
     /\ objs' = IF Has(m, NewCb[k]) /\ ok
                THEN [objs EXCEPT ![o] = [kind |-> k, by |-> m, ctx |-> c]]
                ELSE objs
     /\ last' = Call(op, NewCb[k], m, NULL, NONE)
     /\ UNCHANGED <<g, mgr>>

SAL_CERT_StoreNew(c, o, ok)  == Create("StoreNew", "store", c, o, ok)
SAL_CERT_X509Parse(c, o, ok) == Create("X509Parse", "cert", c, o, ok)
SAL_CERT_KeyParse(c, o, ok)  == Create("KeyParse", "key", c, o, ok)

(* The duplicators (SAL_CERT_StoreDup, SAL_CERT_X509Dup, SAL_CERT_KeyDup): *)
(* the copy o2 of o is allocated by the table of the context passed.      *)
Dup(op, k, c, o, o2, ok) ==
  LET m == mgr[c]
  IN /\ mgr[c] # Absent
     /\ Live(o, k)
     /\ objs[o2].kind = "none"
     /\ objs' = IF Has(m, DupCb[k]) /\ ok
                THEN [objs EXCEPT ![o2] = [kind |-> k, by |-> m, ctx |-> c]]
                ELSE objs
     /\ last' = Call(op, DupCb[k], m, NULL, NONE)
     /\ UNCHANGED <<g, mgr>>

SAL_CERT_StoreDup(c, o, o2, ok) == Dup("StoreDup", "store", c, o, o2, ok)
SAL_CERT_X509Dup(c, o, o2, ok)  == Dup("X509Dup", "cert", c, o, o2, ok)
SAL_CERT_KeyDup(c, o, o2, ok)   == Dup("KeyDup", "key", c, o, o2, ok)

(* Freeing object o through table m with callback cb.                     *)
Release(op, cb, m, o) ==
  /\ objs' = [objs EXCEPT ![o] = FreeObj]
  /\ last' = Call(op, cb, m, objs[o].by, NONE)
  /\ UNCHANGED <<g, mgr>>

(* A store free that calls the global table, as X509Free does.            *)
SAL_CERT_StoreFree_Global(c, o) == Release("StoreFree", "certStoreFree", g, o)

(* SAL_CERT_StoreFree: the context's certStoreFree.                       *)
SAL_CERT_StoreFree(c, o) == Release("StoreFree", "certStoreFree", mgr[c], o)

(* SAL_CERT_KeyFree: a NULL key is ignored; else the context's keyFree.   *)
SAL_CERT_KeyFree(c, o) ==
  IF o = NULL
  THEN /\ last' = Call("KeyFree", NONE, NULL, NULL, NONE)
       /\ UNCHANGED <<g, mgr, objs>>
  ELSE Release("KeyFree", "keyFree", mgr[c], o)

(* SAL_CERT_X509Free: a NULL certificate is ignored; else the GLOBAL      *)
(* table's certFree, whichever context the certificate came from.         *)
SAL_CERT_X509Free(o) ==
  IF o = NULL
  THEN /\ last' = Call("X509Free", NONE, NULL, NULL, NONE)
       /\ UNCHANGED <<g, mgr, objs>>
  ELSE Release("X509Free", "certFree", g, o)

(* CheckCertCallBackRetVal, and the functions that return the callback's  *)
(* code unchanged.                                                         *)
CheckCertCallBackRetVal(ok, mapped) ==
  IF ok THEN SUCCESS ELSE IF mapped THEN CB_ERROR ELSE CB_RAW

(* The SAL calls of UseOps: an optional NULL check, then the context's     *)
(* callback, whose result is mapped; the objects are left as they are.     *)
SAL_CERT_Use(op, c, o, ok) ==
  LET u == UseOps[op]
  IN /\ mgr[c] # Absent
     /\ o \in {NULL} \cup {x \in Objs : Live(x, u.kind)}
     /\ last' = IF u.guard /\ o = NULL
                THEN Call(op, NONE, NULL, NULL, NULL_INPUT)
                ELSE Call(op, u.cb, mgr[c], NULL,
                          CheckCertCallBackRetVal(ok, u.mapped))
     /\ UNCHANGED <<g, mgr, objs>>

-----------------------------------------------------------------------------
Init ==
  /\ g = NULL
  /\ mgr = [c \in Ctxs |-> Absent]
  /\ objs = [o \in Objs |-> FreeObj]
  /\ last = Call("None", NONE, NULL, NULL, NONE)

(* The caller frees only live objects, stores and keys with the context   *)
(* that owns them; that is the contract of the SAL free functions.        *)
Next ==
  \/ "Register" \in Ops /\ \E m \in Methods \cup {NULL} : HITLS_CERT_RegisterMgrMethod(m)
  \/ "Deinit" \in Ops /\ HITLS_CERT_DeinitMgrMethod
  \/ \E c \in Ctxs : MgrCtxNew(c)
  \/ \E c \in Ctxs, o \in Objs, ok \in BOOLEAN :
       \/ SAL_CERT_StoreNew(c, o, ok)
       \/ SAL_CERT_X509Parse(c, o, ok)
       \/ SAL_CERT_KeyParse(c, o, ok)
  \/ "Dup" \in Ops /\ \E c \in Ctxs, o, o2 \in Objs, ok \in BOOLEAN :
       \/ SAL_CERT_StoreDup(c, o, o2, ok)
       \/ SAL_CERT_X509Dup(c, o, o2, ok)
       \/ SAL_CERT_KeyDup(c, o, o2, ok)
  \/ \E o \in Objs :
       \/ Live(o, "store") /\ SAL_CERT_StoreFree(objs[o].ctx, o)
       \/ Live(o, "key") /\ SAL_CERT_KeyFree(objs[o].ctx, o)
       \/ Live(o, "cert") /\ SAL_CERT_X509Free(o)
  \/ \E c \in Ctxs : SAL_CERT_KeyFree(c, NULL) /\ mgr[c] # Absent
  \/ SAL_CERT_X509Free(NULL)
  \/ \E op \in DOMAIN UseOps \cap Ops, c \in Ctxs, o \in Objs \cup {NULL},
        ok \in BOOLEAN : SAL_CERT_Use(op, c, o, ok)

Spec == Init /\ [][Next]_vars

-----------------------------------------------------------------------------
\* The latest call invoked a callback its table does not have.
NullCall == last.cb # NONE /\ ~Has(last.via, last.cb)

(* The global table is zeroed or a table IsMethodValid accepts; contexts  *)
(* hold copies of such tables, and every object's allocator is one.       *)
TypeOK ==
  /\ g \in {m \in Methods : IsMethodValid(m)} \cup {NULL}
  /\ mgr \in [Ctxs -> {m \in Methods : IsMethodValid(m)} \cup {Absent}]
  /\ objs \in [Objs -> {FreeObj} \cup [kind : Kinds, by : Methods, ctx : Ctxs]]

(* A free goes through the same table whose constructor allocated the     *)
(* object: memory from one certificate library is never handed to         *)
(* another's free, whatever registrations and resets happened between.    *)
FreedByAllocator(ops) ==
  (last.op \in ops /\ last.cb # NONE) => last.via = last.by

(* Stores and keys: SAL_CERT_StoreFree and SAL_CERT_KeyFree use the copy   *)
(* kept in the owning context, so a re-registration or reset of the       *)
(* global table in between does not change which free is called.          *)
StoreKeyFreedByAllocator == FreedByAllocator({"StoreFree", "KeyFree"})

(* Certificates: the same promise for SAL_CERT_X509Free.                   *)
CertFreedByAllocator == FreedByAllocator({"X509Free"})

(* No SAL call invokes a callback the table it calls does not have.       *)
NoNullCallback == ~NullCall

=============================================================================
