---------------------------- MODULE ConfigDefault ----------------------------
(***************************************************************************)
(* The default-configuration builders of src/tls/config/src/              *)
(* config_default.c: DefaultConfig, DefaultTLS13Config,                    *)
(* DefaultTlsAllConfig and DefaultDtlsAllConfig fill a freshly allocated   *)
(* HITLS_Config with heap copies of the default lists, a certificate       *)
(* manager context and a session manager; any allocation may fail, and a  *)
(* failure after the first list sends the config to CFG_CleanConfig.       *)
(*                                                                         *)
(* A builder is one call and one step.  Inside it the Set* helpers are    *)
(* operators on a state record [lists, heap, ...]; the builder applies     *)
(* them in the code's order and stops at the first that fails.  Which     *)
(* allocation fails (if any) is an input, `failAt`.  A list is its        *)
(* content (a table name, or the sequence of signature schemes) and its    *)
(* recorded size; `heap[f]` counts the blocks allocated for field f and   *)
(* not freed, so a block no pointer refers to is a leak.                  *)
(*                                                                         *)
(* Of the flags InitConfig sets, the two that depend on the version are   *)
(* kept (isSupportDhAuto, isSupportExtendMasterSecret); the others are    *)
(* constants.  CFG_CleanConfig and SAL_CERT_MgrCtxNew are outside   *)
(* the repository: the cleaner is taken to free every list and context the *)
(* config points to and to set those pointers to NULL.                    *)
(***************************************************************************)
EXTENDS Integers, Sequences

CONSTANTS
  NULL,
  Tls13Built,     \* HITLS_TLS_PROTO_TLS13 is defined
  SessionBuilt,   \* HITLS_TLS_FEATURE_SESSION is defined
  CertMgrEnabled, \* SAL_CERT_MgrIsEnable()
  SchemeLists     \* the lists CFG_GetSignSchemeList may return

\* Versions.
TLS12  == "TLS12"
TLS13  == "TLS13"
TLCP11 == "TLCP11"
DTLS12 == "DTLS12"

\* The signature schemes of a list: signature and hash algorithm.
SignAlgs == {"RSA", "DSA", "ECDSA"}
HashAlgs == {"SHA1", "SHA224", "SHA256"}
Schemes  == [sign : SignAlgs, hash : HashAlgs]

\* The static tables the builders copy, by name, and their lengths.
TableLen ==
  [tls12 |-> 37, tlcp |-> 2, tls13 |-> 3, dtls |-> 11,
   uncompressed |-> 1, groupsTls |-> 7, groupsTlcp |-> 1, groupsTls13 |-> 9,
   mgr |-> 1, sess |-> 1]

Fields == {"cipherSuites", "tls13CipherSuites", "pointFormats", "groups",
           "signAlgorithms", "certMgrCtx", "sessMgr"}

SUCCESS          == "HITLS_SUCCESS"
HITLS_MEMALLOC_FAIL == "HITLS_MEMALLOC_FAIL"

\* A config as HITLS_CFG_New*Config hands it to a builder: all zero.
Fresh ==
  [minVersion |-> "none", maxVersion |-> "none", keyExchMode |-> "none",
   lists |-> [f \in Fields |-> [ptr |-> NULL, size |-> 0]],
   heap |-> [f \in Fields |-> 0], sign |-> <<>>,
   dhAuto |-> FALSE, ems |-> FALSE]

(* InitConfig with BasicInitConfig: extended master secret off, off again *)
(* for TLCP, and DH auto on unless the maximum version is TLCP 1.1.       *)
InitConfig(st) ==
  [st EXCEPT !.ems = FALSE, !.dhAuto = (st.maxVersion # TLCP11)]


VARIABLES
  cfg,      \* the config record
  phase,    \* "fresh" before the builder runs, "done" after it returned
  builder,  \* which builder ran
  ret,      \* what it returned
  schemes   \* the scheme list CFG_GetSignSchemeList returned to it

vars == <<cfg, phase, builder, ret, schemes>>

-----------------------------------------------------------------------------
(* BSL_SAL_FREE(config->f): free the block and set the pointer to NULL.    *)
FreeField(st, f) ==
  IF st.lists[f].ptr = NULL THEN st
  ELSE [st EXCEPT !.lists[f].ptr = NULL, !.heap[f] = @ - 1]

(* The pattern of SetDefaultCipherSuite, SetTLS13DefaultCipherSuites,      *)
(* SetDefaultPointFormats, SetDefaultGroups and SetDefaultTLS13Groups:    *)
(* free the old list, dump the table, record the size only on success.    *)
DumpList(st, f, tbl, ok) ==
  LET s1 == FreeField(st, f)
  IN [st |-> IF ok
             THEN [s1 EXCEPT !.lists[f] = [ptr |-> tbl, size |-> TableLen[tbl]],
                             !.heap[f] = @ + 1]
             ELSE s1,
      ok |-> ok]

SetDefaultCipherSuite(st, tbl, ok) == DumpList(st, "cipherSuites", tbl, ok)
SetTLS13DefaultCipherSuites(st, ok) == DumpList(st, "tls13CipherSuites", "tls13", ok)
SetDefaultPointFormats(st, ok)      == DumpList(st, "pointFormats", "uncompressed", ok)
SetDefaultTLS13Groups(st, ok)       == DumpList(st, "groups", "groupsTls13", ok)
SetDefaultGroups(st, ok) ==
  DumpList(st, "groups",
           IF st.maxVersion = TLCP11 THEN "groupsTlcp" ELSE "groupsTls", ok)

(* SetDefaultSignHashAlg: an empty list sets the size to 0; otherwise the *)
(* result of Calloc is stored over the old pointer without freeing it.    *)
SetDefaultSignHashAlg(st, list, ok) ==
  IF Len(list) = 0
  THEN [st |-> [st EXCEPT !.lists.signAlgorithms.size = 0], ok |-> TRUE]
  ELSE IF ok
  THEN [st |-> [st EXCEPT !.lists.signAlgorithms = [ptr |-> "block", size |-> Len(list)],
                          !.heap.signAlgorithms = @ + 1, !.sign = list],
        ok |-> TRUE]
  ELSE [st |-> [st EXCEPT !.lists.signAlgorithms.ptr = NULL], ok |-> FALSE]

(* The condition of the TLS 1.3 loop: DSA, SHA-1 and SHA-224 schemes are   *)
(* skipped (RFC 8446 4.2.3).                                              *)
Deprecated(s) == s.sign = "DSA" \/ s.hash = "SHA1" \/ s.hash = "SHA224"

(* The loop of SetTLS13DefaultSignScheme from entry i: the schemes kept,  *)
(* in order, each written at index validNum.                               *)
RECURSIVE Tls13Filter(_, _)
Tls13Filter(list, i) ==
  IF i > Len(list) THEN <<>>
  ELSE IF Deprecated(list[i]) THEN Tls13Filter(list, i + 1)
  ELSE <<list[i]>> \o Tls13Filter(list, i + 1)

(* SetTLS13DefaultSignScheme: Calloc(listSize) with no zero check (the     *)
(* result of Calloc(0, n) is NULL or not, as the allocator chooses:        *)
(* `zeroNull`), then the filtered copy; the old pointer is overwritten.   *)
SetTLS13DefaultSignScheme(st, list, ok, zeroNull) ==
  LET allocOk == ok /\ (Len(list) = 0 => ~zeroNull)
      kept    == Tls13Filter(list, 1)
  IN IF allocOk
     THEN [st |-> [st EXCEPT !.lists.signAlgorithms = [ptr |-> "block", size |-> Len(kept)],
                             !.heap.signAlgorithms = @ + 1, !.sign = kept],
           ok |-> TRUE]
     ELSE [st |-> [st EXCEPT !.lists.signAlgorithms.ptr = NULL], ok |-> FALSE]

(* SAL_CERT_MgrCtxNew and SESSMGR_New, when compiled in: a context or NULL. *)
NewCtx(st, f, enabled, ok) ==
  IF ~enabled THEN [st |-> st, ok |-> TRUE]
  ELSE IF ok
  THEN [st |-> [st EXCEPT !.lists[f] = [ptr |-> "ctx", size |-> 0], !.heap[f] = @ + 1],
        ok |-> TRUE]
  ELSE [st |-> st, ok |-> FALSE]

(* One call of a builder's sequence; `ok` is whether its allocation        *)
(* succeeds.                                                               *)
ApplyStep(tag, st, ok, list, zeroNull) ==
  CASE tag = "cipherTls12"  -> SetDefaultCipherSuite(st, "tls12", ok)
    [] tag = "cipherTlcp"   -> SetDefaultCipherSuite(st, "tlcp", ok)
    [] tag = "cipherDtls"   -> SetDefaultCipherSuite(st, "dtls", ok)
    [] tag = "tls13Cipher"  -> SetTLS13DefaultCipherSuites(st, ok)
    [] tag = "pointFormats" -> SetDefaultPointFormats(st, ok)
    [] tag = "groups"       -> SetDefaultGroups(st, ok)
    [] tag = "tls13Groups"  -> SetDefaultTLS13Groups(st, ok)
    [] tag = "signHash"     -> SetDefaultSignHashAlg(st, list, ok)
    [] tag = "tls13Sign"    -> SetTLS13DefaultSignScheme(st, list, ok, zeroNull)
    [] tag = "keyExchMode"  -> [st |-> [st EXCEPT !.keyExchMode = "PSK_WITH_DHE"], ok |-> TRUE]
    [] tag = "certMgr"      -> NewCtx(st, "certMgrCtx", CertMgrEnabled, ok)
    [] tag = "sessMgr"      -> NewCtx(st, "sessMgr", SessionBuilt, ok)

(* The calls of a builder with the return values ignored: every call is *)
(* made and the builder reports success.                                   *)
RECURSIVE Run_IgnoreFail(_, _, _, _, _, _)
Run_IgnoreFail(st, steps, i, failAt, list, zeroNull) ==
  IF i > Len(steps) THEN [st |-> st, failed |-> 0]
  ELSE Run_IgnoreFail(ApplyStep(steps[i], st, i # failAt, list, zeroNull).st,
                      steps, i + 1, failAt, list, zeroNull)

(* The calls of a builder from the i-th on, stopping at the first that    *)
(* fails; the allocation of call number failAt fails.                     *)
RECURSIVE Run(_, _, _, _, _, _)
Run(st, steps, i, failAt, list, zeroNull) ==
  IF i > Len(steps) THEN [st |-> st, failed |-> 0]
  ELSE LET r == ApplyStep(steps[i], st, i # failAt, list, zeroNull)
       IN IF r.ok THEN Run(r.st, steps, i + 1, failAt, list, zeroNull)
          ELSE [st |-> r.st, failed |-> i]

(* CFG_CleanConfig, outside the repository: frees what the config points  *)
(* to and sets the pointers to NULL.                                       *)
CFG_CleanConfig(st) ==
  [st EXCEPT !.lists = [f \in Fields |-> [ptr |-> NULL, size |-> st.lists[f].size]],
             !.heap = [f \in Fields |->
                         st.heap[f] - (IF st.lists[f].ptr = NULL THEN 0 ELSE 1)]]

Tls13Steps == IF Tls13Built THEN <<"tls13Cipher">> ELSE <<>>
CtxSteps   == <<"certMgr", "sessMgr">>

\* The calls of each builder, in the code's order.
DefaultConfigSteps(v) ==
  <<IF v = TLCP11 THEN "cipherTlcp" ELSE "cipherTls12">> \o Tls13Steps
    \o <<"signHash", "pointFormats", "groups">> \o CtxSteps
(* DefaultTLS13Config also calling SetDefaultSignHashAlg before the TLS  *)
(* 1.3 scheme list, as DefaultTlsAllConfig does.                          *)
DefaultTLS13ConfigSteps_BothSign ==
  <<"tls13Cipher", "pointFormats", "tls13Groups", "signHash", "tls13Sign",
    "keyExchMode">> \o CtxSteps
DefaultTLS13ConfigSteps ==
  <<"tls13Cipher", "pointFormats", "tls13Groups", "tls13Sign", "keyExchMode">>
    \o CtxSteps
DefaultTlsAllConfigSteps ==
  Tls13Steps \o <<"cipherTls12", "pointFormats", "groups", "signHash",
                  "keyExchMode">> \o CtxSteps
DefaultDtlsAllConfigSteps ==
  <<"cipherDtls", "pointFormats", "groups", "signHash">> \o CtxSteps

(* A builder that runs InitConfig before it sets the versions.            *)
Build_InitBeforeVersion(name, minV, maxV, steps, cleanFrom, list, failAt, zeroNull) ==
  LET st0 == [InitConfig(Fresh) EXCEPT !.minVersion = minV, !.maxVersion = maxV]
      r   == Run(st0, steps, 1, failAt, list, zeroNull)
  IN /\ phase = "fresh"
     /\ cfg' = IF r.failed # 0 /\ r.failed >= cleanFrom
               THEN CFG_CleanConfig(r.st) ELSE r.st
     /\ ret' = IF r.failed = 0 THEN SUCCESS ELSE HITLS_MEMALLOC_FAIL
     /\ phase' = "done"
     /\ builder' = name
     /\ schemes' = list

(* A builder run on a fresh config: the versions, InitConfig, then the    *)
(* calls in order; a failure at call *)
(* cleanFrom or later goes through CFG_CleanConfig.                        *)
Build(name, minV, maxV, steps, cleanFrom, list, failAt, zeroNull) ==
  LET st0 == InitConfig([Fresh EXCEPT !.minVersion = minV, !.maxVersion = maxV])
      r   == Run(st0, steps, 1, failAt, list, zeroNull)
  IN /\ phase = "fresh"
     /\ cfg' = IF r.failed # 0 /\ r.failed >= cleanFrom
               THEN CFG_CleanConfig(r.st) ELSE r.st
     /\ ret' = IF r.failed = 0 THEN SUCCESS ELSE HITLS_MEMALLOC_FAIL
     /\ phase' = "done"
     /\ builder' = name
     /\ schemes' = list

(* DefaultConfig with the early `return ret` extended to the TLS 1.3       *)
(* cipher suites: a failure there skips CFG_CleanConfig too.               *)
DefaultConfig_ReturnOnTls13Fail(v, list, failAt, zeroNull) ==
  Build("DefaultConfig", v, v, DefaultConfigSteps(v), 3, list, failAt, zeroNull)

(* DefaultConfig: a failed cipher-suite set returns at once; any later     *)
(* failure goes to ERR and CFG_CleanConfig.                                *)
DefaultConfig(v, list, failAt, zeroNull) ==
  Build("DefaultConfig", v, v, DefaultConfigSteps(v), 2, list, failAt, zeroNull)

(* DefaultTLS13Config: every failure cleans the config.                   *)
DefaultTLS13Config(list, failAt, zeroNull) ==
  Build("DefaultTLS13Config", TLS13, TLS13, DefaultTLS13ConfigSteps, 1,
        list, failAt, zeroNull)

(* DefaultTlsAllConfig: versions TLS 1.2 to 1.3; every failure cleans.     *)
DefaultTlsAllConfig(list, failAt, zeroNull) ==
  Build("DefaultTlsAllConfig", TLS12, TLS13, DefaultTlsAllConfigSteps, 1,
        list, failAt, zeroNull)

(* DefaultDtlsAllConfig: DTLS 1.2 only; every failure cleans.             *)
DefaultDtlsAllConfig(list, failAt, zeroNull) ==
  Build("DefaultDtlsAllConfig", DTLS12, DTLS12, DefaultDtlsAllConfigSteps, 1,
        list, failAt, zeroNull)

-----------------------------------------------------------------------------
Init ==
  /\ cfg = Fresh
  /\ phase = "fresh"
  /\ builder = "none"
  /\ ret = SUCCESS
  /\ schemes = <<>>

(* One builder call on the fresh config, with every scheme list the       *)
(* library may hold, every allocation that may fail first (0: none) and   *)
(* both results of a zero-size Calloc.                                     *)
Next ==
  \E list \in SchemeLists, failAt \in 0..8, zeroNull \in BOOLEAN :
    \/ \E v \in {TLS12, TLCP11, DTLS12} : DefaultConfig(v, list, failAt, zeroNull)
    \/ DefaultTLS13Config(list, failAt, zeroNull)
    \/ DefaultTlsAllConfig(list, failAt, zeroNull)
    \/ DefaultDtlsAllConfig(list, failAt, zeroNull)

Spec == Init /\ [][Next]_vars

-----------------------------------------------------------------------------
TypeOK ==
  /\ cfg.lists \in [Fields -> [ptr : {NULL, "block", "ctx"} \cup DOMAIN TableLen,
                                size : Nat]]
  /\ cfg.heap \in [Fields -> 0..1]
  /\ cfg.dhAuto \in BOOLEAN /\ cfg.ems \in BOOLEAN
  /\ phase \in {"fresh", "done"}
  /\ ret \in {SUCCESS, HITLS_MEMALLOC_FAIL}

\* The fields a successful build must have set.
Expected(b, list) ==
  {"pointFormats", "groups"}
    \cup (IF b = "DefaultTLS13Config" THEN {"tls13CipherSuites", "signAlgorithms"}
          ELSE {"cipherSuites"})
    \cup (IF b \in {"DefaultConfig", "DefaultTlsAllConfig"} /\ Tls13Built
          THEN {"tls13CipherSuites"} ELSE {})
    \cup (IF b # "DefaultTLS13Config" /\ Len(list) > 0 THEN {"signAlgorithms"} ELSE {})
    \cup (IF CertMgrEnabled THEN {"certMgrCtx"} ELSE {})
    \cup (IF SessionBuilt THEN {"sessMgr"} ELSE {})

\* The size recorded for a field matches the block it points to.
SizeMatches(f) ==
  LET p == cfg.lists[f].ptr
  IN /\ p \in DOMAIN TableLen => cfg.lists[f].size = TableLen[p]
     /\ p = "block" => cfg.lists[f].size = Len(cfg.sign)

(* A builder that fails for lack of memory, at whatever allocation,       *)
(* leaves the config holding nothing: no block allocated, no pointer set. *)
(* DefaultConfig's early return and the ERR/CFG_CleanConfig paths must    *)
(* between them cover every failure point.                                *)
FailedBuildHoldsNothing ==
  (phase = "done" /\ ret # SUCCESS)
    => \A f \in Fields : cfg.heap[f] = 0 /\ cfg.lists[f].ptr = NULL

(* A builder that returns success has set every list and context it is    *)
(* responsible for, each pointer owns exactly the one block allocated     *)
(* for it, and every size matches its block.                              *)
SuccessfulBuildComplete ==
  (phase = "done" /\ ret = SUCCESS)
    => /\ \A f \in Expected(builder, schemes) : cfg.lists[f].ptr # NULL
       /\ \A f \in Fields : /\ cfg.heap[f] = IF cfg.lists[f].ptr = NULL THEN 0 ELSE 1
                            /\ SizeMatches(f)

(* The version decides the config in three places: the cipher-suite      *)
(* table (DefaultCipherSuitesByVersion), the group table                  *)
(* (SetDefaultGroups) and the flags InitConfig sets.  They agree: a       *)
(* builder's config has DH auto off and extended master secret off        *)
(* exactly when its maximum version is TLCP 1.1, and, when the build      *)
(* succeeded, has the TLCP cipher suites and groups exactly then.         *)
TlcpSettingsAgree ==
  phase = "done" =>
    LET tlcp == cfg.maxVersion = TLCP11
    IN  /\ cfg.dhAuto = ~tlcp
        /\ tlcp => ~cfg.ems
        /\ ret = SUCCESS =>
             /\ (cfg.lists.cipherSuites.ptr = "tlcp") = tlcp
             /\ (cfg.lists.groups.ptr = "groupsTlcp") = tlcp

=============================================================================
