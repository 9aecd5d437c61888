# TLA+ models of the hitls sources

This directory holds TLA+ models of the C sources under `src/`, the TLC
configurations that check them, and `PROJECT.json`. `PROJECT.json` lists each
component, run, mutant, finding and hazard, and maps each model definition to
the source lines it translates.

## The system and its parts

| Part | Sources | Behaviour |
|---|---|---|
| Parameter container | `src/bsl/params/src/bsl_params.c`, `src/include/crypto/crypt_params_type.h` | An array of `BSL_Param` slots owned by the caller. `InitValue` binds a slot. `SetValue` writes it. `GetPtrValue` and `GetValue` read it. `FindParam` scans the array for a key. The keys are the `CRYPT_PARAM_*` numbers. |
| Provider interface | `src/include/crypto/crypt_eal_implprovider.h` | Operation IDs and per-category command codes. The provider init/free/query callback types. Only the header is here; the framework that loads providers, looks algorithms up and dispatches to their tables is not. |
| Certificate method registry | `src/tls/cert/cert_adapt/cert_method.c`, `cert_mgr_ctx.h` | One global `HITLS_CERT_MgrMethod` table. It is set by `HITLS_CERT_RegisterMgrMethod` and zeroed by `HITLS_CERT_DeinitMgrMethod`. Each `CERT_MgrCtx` holds a copy. The `SAL_CERT_*` functions dispatch through the copy, except `SAL_CERT_X509Free`, which uses the global. |
| TLS default configuration | `src/tls/config/src/config_default.c` | `DefaultConfig`, `DefaultTLS13Config`, `DefaultTlsAllConfig` and `DefaultDtlsAllConfig` fill a config with allocated lists. On a failed allocation they clean the config. |
| AES modes | `src/crypto/modes/src/asm_aes_ctr.c`, `asm_aes_ecb.c` | The CTR block loop splits a request where the 32-bit low counter wraps. ECB rejects lengths that are not a multiple of 16. |
| Headers | `crypt_rsa.h`, `bsl_pem_local.h`, `hitls_pki_errno.h`, `bsl_binlog_id.h` | Declarations and constants only. |
| TLS test harness | `src/testcode/framework/tls/rpc/src/hitls_func.c` | A client and a server process, each configuring a context (list strings split by `strtok_s`), binding a `BSL_UIO` to it, then running bounded retry loops around `HITLS_Connect`/`HITLS_Accept` and `HITLS_Write`/`HITLS_Read`. The two processes interact only through the library's connection. |
| Demo client | `src/testcode/demo/client.c` | `main()` opens a socket, builds a TLS 1.2 config with two CA certificates in its store, binds a TCP `BSL_UIO` to a new `HITLS_Ctx`, and runs one handshake, write and read. It ends in one cleanup block. |
| SDV tests | `src/testcode/sdv/...` | Unit tests. |

The parts interact only through calls. The configuration builders create a
certificate manager context (`SAL_CERT_MgrCtxNew`, whose code is outside this
repository). That context copies the registered method table. The crypto
algorithms take their inputs as `BSL_Param` arrays keyed by the
`CRYPT_PARAM_*` numbers.

The demo client and the test harness are both callers of the TLS library.
They rely on the same ownership rules for the config, the ctx and the
`BSL_UIO`, and `DemoClient` and `TlsHarness` model those rules in the same
way. They differ in one place: after `HITLS_SetUio`, only the harness drops
its own UIO reference (the `demo_uio_leak` finding).

## Modules

### `BslParams` (with `MC_BslParams`)

**State.**
- `slots`: the caller's array. Each entry records `key`, `valueType`,
  `value`, `valueLen` and `useLen` as in the C struct. Two history fields are
  added: `field`, the semantic field the caller bound, and `set`, whether
  `SetValue` has written the slot since it was bound.
- `last`: what the most recent call returned, which bytes it read (`rd`) and
  wrote (`wr`), the entry `FindParam` returned, and the last index its loop
  read (`top`).
- `errTop`: the code most recently pushed on the error stack.

**Abstraction.** Caller buffers are model values with a capacity (`Cap`).
Their contents are left out because no property is about the bytes.
`sizeof(uint32_t)` is scaled to `U32Size = 2`.

**Actions.** Each of the five accessors is one action. It checks its
conditions in the code's order (`InitValueRet`, `SetValueRet`, `GetValueRet`),
then assigns what the code assigns. `FindFrom` is the `while` loop of
`FindParam`, written as a recursive operator. Like the C condition, it reads
`param[index].key` before it tests `index < MAX`.

**Constants.**
- `Ops` says which accessors a run lets the caller call.
- `U32Lens` says which lengths callers bind `UINT32` slots with.
- `HasTerminator` says whether the array ends with a key-0 entry.

### `CertMethod` (with `MC_CertMethod`)

**State.**
- `g`: the global `g_certMgrMethod`. It is a method table (a model value) or
  `NULL` once the table has been zeroed.
- `mgr`: the method table each `CERT_MgrCtx` copied when it was created, or
  `absent` before the context exists.
- `objs`: stores, certificates and keys. Each records its kind, the table
  whose callback allocated it, and its owner context.
- `last`: the SAL function last called, the callback it reached, the table
  it reached it through, and what it returned.

**Abstraction.** A method table is a model value. `Has(m, cb)` says which of
its 21 callbacks are set. Tables in `Invalid` lack `certFree`, so
`IsMethodValid` rejects them. Tables in `Incomplete` lack the three callbacks
`IsMethodValid` does not check (`certRef`, `encrypt`, `decrypt`). Callback
results are a nondeterministic success or failure.

**Actions.**
- `HITLS_CERT_RegisterMgrMethod` copies a valid table into `g`.
- `HITLS_CERT_DeinitMgrMethod` zeroes `g`.
- `MgrCtxNew` is the context creation the config builders perform. It is
  guarded by `SAL_CERT_MgrIsEnable` and copies `g`.
- Each `SAL_CERT_*` function is one action. Creating and duplicating
  functions allocate through the context copy. `StoreFree` and `KeyFree` free
  through the context copy. `X509Free` frees through `g`. The remaining
  twelve (`UseOps`) call one callback and map its result with
  `CheckCertCallBackRetVal` where the code does.

### `ConfigDefault` (with `MC_ConfigDefault`)

**State.** A builder call is one step from a fresh (all-zero) config.
- `cfg`: each list field's pointer, which names the table copied, and its
  size. `heap` counts the blocks allocated for each field and not freed.
  `sign` is the content of the signature-scheme block.
- `ret`, `builder` and `schemes`: what the builder returned, which builder
  ran, and the scheme list it was given.

**Actions.** There is one action per builder:
- `DefaultConfig(v)` for TLS 1.2, TLCP 1.1 and DTLS 1.2;
- `DefaultTLS13Config`;
- `DefaultTlsAllConfig`;
- `DefaultDtlsAllConfig`.

Each builder runs its `Set*` helpers and context creations in the code's
order, after it sets the versions and calls `InitConfig`. `InitConfig` keeps
only the two flags that depend on the version: `dhAuto` and `ems`
(extended master secret). The others are constants. The helpers are
operators on the config record. `Run` stops at the
first failure, as the `||` chains and `goto ERR` do. The input `failAt`
chooses which allocation fails. `DefaultConfig` returns without
`CFG_CleanConfig` when its first call fails. The other failure paths clean
the config. `SetTLS13DefaultSignScheme` calls `Calloc(listSize)` without a
zero check, so the input `zeroNull` says whether `Calloc(0)` returns NULL.
`Tls13Filter` is the scheme loop, written as a recursive operator; its
result is the block and size `SuccessfulBuildComplete` compares.

**Outside the repository.** `CFG_CleanConfig` is modelled from its use. It
frees every list and context the config points to and sets those pointers to
NULL. `SAL_CERT_MgrCtxNew` and `SESSMGR_New` return a context or NULL.
The TLCP signature list is the same input as the others.

### `AesCtr` (with `MC_AesCtr`)

**State.**
- `iv`: the counter, split into the low word (`lo`, 32 bits in the code) and
  the upper 12 bytes (`hi`).
- `offset` and `buf`: the unused keystream bytes left in `ctx->buf`, and the
  counter they came from.
- `stream`: the counter whose keystream each processed byte was XORed with.
- `ctr0`: the counter the IV started at.

**Abstraction.** A byte's keystream is named by the counter it came from.
The counter is scaled to a 6-bit low word and a 1-bit upper part. Call
lengths are 6 bits wide too, because `len` and the low word are both
`uint32_t`. So one call covers fewer blocks than the low word holds, as in
the code.

**Actions.**
- `AES_CTR_EncryptBlock` and `AES_CTR_DecryptBlock` run the whole call:
  `MODE_CTR_LastHandle`, then the `while` loop (`CtrLoop` of `CtrPass`), then
  `MODE_CTR_RemHandle`. `CtrPass` cuts each pass where `beCtr32 += blocks`
  wraps, and carries into the upper bytes when the pass ends on the wrap.
- `AES_ECB_Block` is the length check of the ECB functions.

The helpers outside the repository are modelled by the contract this code
relies on:
- `CRYPT_AES_CTR_Encrypt` advances only the low word.
- `MODE_IncCounter` is a wrapping big-endian increment.
- The two `MODE_CTR_*` helpers use and refill the buffered block.

### `AesCtrCounter` (abstract)

This module states what CTR mode promises its caller: one counter of the
full width.
- `Process(len)` appends `len` bytes to the stream. Byte `p` is XORed with
  the keystream of counter `ctr0 + (p-1) div 16`.
- `ctr` is the counter of the next block that has not been encrypted yet.
- `pending` is the number of unused bytes of the last encrypted block.

`AesCtr` instantiates it with a refinement mapping:
- `ctr` is the IV read as one number.
- `pending` is `ctx->offset`.
- `Starts` is every IV the run starts from.

`OneCounter`, the abstract `Spec`, is a property of `aes_ctr_stream`. It
checks three things after every call:
- The IV and the offset are where one full-width counter would leave them.
- The bytes appended are the ones that counter gives.
- ECB calls and rejected calls change neither.

### `TlsHarness` (with `MC_TlsHarness`)

**State.**
- `pc`: where each side's test program is: `newCtx`, `setCtx`, `newSsl`,
  `setSsl`, `hs` (handshake loop), `data` (write or read loop) or `end`.
- `cfg`: the side's `HITLS_Config` as far as the harness reads it: its
  `maxVersion`, whether `HITLS_CFG_SetKeyExchMode` was called, and what
  `HitlsSetCtx` returned.
- `tries`: `tryNum` of the loop a side is in.
- `lists`: the list strings `HitlsSetCtx` passed to `HitlsSetConfig`, in
  order, and what it made of each (`ret` and the value array).
- `uioRefs` and `sslUio`: the references to the side's `BSL_UIO`, and whether
  its `HITLS_Ctx` holds it.
- `lib` and `chan`: each side's handshake state inside the library, and the
  flights in transit to each side.
- `sent` and `got`: records written and read.

**Abstraction.** A list string is a sequence of pieces: `":"` or one entry
name. Two adjacent names form one unknown name. `Known` is the harness table
(`g_cipherSuiteList` and the like), shrunk to two entries. `MaxConfig` (20 in
the code) is 2 and `MaxNameLen` (512) is 6 pieces. The library is outside the
repository. Its contract is a three-flight handshake (CH, SH, Fin) over two
in-order channels of capacity `ChanCap`:
- A call returns `HITLS_REC_NORMAL_RECV_BUF_EMPTY` while it waits for a
  flight.
- It returns `HITLS_REC_NORMAL_IO_BUSY` while the peer's channel is full.
- `HITLS_SetUio` takes a reference of its own.

**Actions.**
- `HitlsNewCtx` picks the builder for the test's `TLS_VERSION`
  (`BuilderMax`). Each builder's `Default*Config` in `config_default.c`
  sets `maxVersion`: TLS 1.2, TLS 1.3 (also for `TLS_ALL`), DTLS 1.2, or
  TLCP 1.1 when `HITLS_TLS_PROTO_TLCP11` is built. An unknown version, or a
  builder that fails to allocate, gives NULL, and the caller ends the test.
- `HitlsSetCtx` runs its whole chain on one `HLT_Ctx_Config` from
  `CtxInputs` (`SetCtxRun`):
  - `HITLS_CFG_SetVersion` runs only when both bounds are nonzero.
  - Ten flag setters follow, then the four lists in code order
    (`SetLists`: point formats, cipher suites, groups, signatures).
  - Then SNI, ALPN, certificates, PSK and callbacks, then three setters.
  - `HITLS_CFG_SetKeyExchMode` runs when `outCfg->maxVersion`, read after
    `SetVersion`, is TLS 1.3. Three more setters follow.
  - Every asserted call may fail. `failAt` names the failing group of calls,
    since their failures all return at once (`ASSERT_RETURN`). The
    unasserted `SetSessionCacheMode` and `SetCipherServerPreference` change
    nothing the model tracks.
- A list string that is empty or `"NULL"` is skipped (the `strncmp` guard).
  Otherwise `HitlsSetConfig` runs:
  - `memcpy_s` fails for a string that is too long.
  - A string of exactly the buffer size is undefined behaviour (no
    terminator).
  - The `do`-`while` loop (`SetConfigLoop`) tests the array size before the
    lookup and the token only at the end. A string with no name is therefore
    undefined behaviour (`strcmp(NULL)`).
  - A failure ends the lists and the test program (`ASSERT_RETURN`).
- `HitlsNewSsl` is `HITLS_New`, which may return NULL.
- `HitlsSetConfig` then hands the array to the `HITLS_CFG_Set*` of the
  list's type, which may fail too (`failAt` names the list); its failure is
  returned as `ERROR` (`ASSERT_RETURN` at `hitls_func.c:329`).
- `SetSsl` is `HitlsSetSsl`, where `BSL_UIO_New`, `SET_FD` and `HITLS_SetUio`
  may each fail. `HitlsSetSsl` counts the references call by call:
  `BSL_UIO_New` gives one, a successful `HITLS_SetUio` adds the ctx's, and
  each path after `BSL_UIO_New` ends in one `BSL_UIO_Free`.
- `HitlsConnect`, `HitlsAccept`, `HitlsWrite` and `HitlsRead` each take one
  iteration of their loop (`LoopStep`), so the two sides interleave between
  iterations. The client writes `NumMsgs` records and the server reads them.

### `ProviderRegistry` (with `MC_ProviderRegistry`)

Only `crypt_eal_implprovider.h` is in the repository. The model takes its
constants and table shapes from the header, and the framework's behaviour
from the spec's provider lifecycle (sections 4.2 and 5). `PROJECT.json` marks
those definitions `spec_modelled`.

**From the header.**
- `CRYPT_EAL_OPERAID_*` (1 to 10) and `CmdCodes`, the command codes of each
  category's table. KEYMGMT has codes 1-12, 15 and 16; 13 and 14 are unused.
- `NewCtxCode` and `FreeCtxCode`: the categories with a context of their
  own, and their NEWCTX/FREECTX codes.
- `PkeyOperas`: SIGN, ASYMCIPHER, KEYEXCH and KEM have no NEWCTX. Their
  functions take the key's context.
- `Entry`: a provider's QUERY answer (`CRYPT_EAL_AlgInfo`) for one category
  and algId. `Offers` gives the set of command codes each table implements.
  `Dispatch` calls one code and reports `NotFound`, a call, or a missing
  callback (`Structural`).

**State.**
- `pstate`: each provider is Unloaded, Initializing, Active or Unloading.
- `order`: the Active providers in registration order.
- `provCtx`: whether the provider's `provCtx` is live.
- `inits` and `frees`: the successful init calls and the FREE calls.
- `ctx`: each algorithm-context slot, empty or `[prov, op, alg]`.
- `call`: the last command dispatched and its result.

**Actions.**
- `ProviderLoad` starts `CRYPT_EAL_ImplProviderInit`.
- `ProviderInitReturn(p, ok)`: on success the provider becomes Active, last
  in `order`, with `provCtx` live. On failure nothing is registered and FREE
  is not called.
- `ProviderUnload`: a quiescent-state operation, taken only when no context
  of the provider is alive. It leaves `order` at once.
- `ProviderFreeReturn`: the `CRYPT_EAL_PROVCB_FREE` callback releases
  `provCtx`.
- `NewCtx` looks up (`Select`: the first provider in `order` whose answer
  has the exact algId) and calls NEWCTX. A failed lookup creates nothing.
- `CtxCmd`, `PkeyCmd` and `FreeCtx` dispatch through the table of the
  context's provider. `PkeyCmd` reaches the SIGN, ASYMCIPHER, KEYEXCH or KEM
  table of the provider that created the key.

### `ProviderCatalog` (abstract)

What a caller of the framework may observe: the registered providers in
order (`reg`) and the contexts it holds (`held`). `Register`, `Deregister`
(only when no held context came from the provider), `Create` (from the first
registered provider offering the pair) and `Release` are single steps.
`ProviderRegistry` instantiates it with `reg <- order` and `held <- ctx`
(`ImplementsCatalog`). Loading, a failed init, the FREE callback and every
command on a live context are stuttering steps of the catalogue.

### `DemoClient`

This module models `main()` of `client.c`, with one action per call in the order of the code.
- **State.** `pc` is the next call. Each handle is a reference-counted object: the socket, the config, the ctx, the UIO and the two certificates.
  - `live[r]` is the number of references to `r` still held.
  - `set[r]` is whether `main`'s variable for `r` is non-NULL.
  - `ctxHolds` is what the ctx took a reference of.
  - `store` is what the config's certificate store holds.
  - `overReleased` records a release of an object with no reference left.
- **Failure branches.** Every call can fail.
  - `Socket` fails by returning at once.
  - `SetSockOpt` fails by closing the socket and returning. This path bypasses the cleanup block.
  - Every other call fails by jumping to `exit` (`GotoExit`).
  - `UioSetFd` and `SetUio` free the UIO before they jump (`FreeUioAndExit`).
- **Successes.**
  - `AddCertToStore` covers both ignored `HITLS_CFG_AddCertToStore` calls. Each call stores a clone or fails.
  - `HitlsRead` is the last call. On success it sets `exitValue` to 0.
- **`Exit`.** This action is the whole block at label `exit`, done as one step. It runs `HITLS_Free`, `HITLS_CFG_FreeConfig`, `close` and both `HITLS_X509_CertFree` calls, in order, and each free skips a NULL handle.
  - `ReleaseSeq` folds `Release` over that sequence.
  - When `Release` drops an object's last reference, it also releases what the object owns. A ctx owns its config and UIO; a config owns the certificates its store shares.
- **Library contracts.** The library is outside the repository. The model assumes the contracts that the harness relies on:
  - `HITLS_SetUio` takes a reference of its own;
  - the frees accept NULL;
  - `clone = true` stores a copy.
- **`HITLS_New`.** Whether it keeps a reference to the config is not known from the repository. Both answers are explored (`newUpRef`, fixed in `Init`).

## Runs

| Run | Result | What it shows |
|---|---|---|
| `params_access` | pass | The caller binds `UINT32` slots to `sizeof(uint32_t)` bytes. Under that contract, no accessor reads or writes outside a buffer or through NULL (`NoOutOfBoundsAccess`). |
| `params_find` | pass | `FindParam` over a terminated array returns the first entry with the key, or not-found when there is none (`FindParamFirstMatch`). |
| `params_roundtrip` | violation | After `SetValue` of `len` bytes into a larger slot, `GetValue` reports the capacity, not `len`. The spec's round-trip law (P4) says it reports `len`. |
| `params_collide` | violation | `CURVE25519_PUBKEY` and `RAND_SEEDCTX` are both 601, so a lookup for one returns the other. |
| `certmethod_free` | pass | Tables are registered, reset and re-registered while objects live. Stores and keys are still freed by the table that allocated them (`StoreKeyFreedByAllocator`). Only valid tables are ever installed (`TypeOK`). |
| `certmethod_certfree` | violation | `SAL_CERT_X509Free` uses the global table. A certificate parsed under M1 is therefore freed by M2's `certFree` once M2 is registered. |
| `configdefault_build` | pass | Every builder, any single allocation failing, and every scheme list of up to two entries were checked. A failed build holds no block and no pointer (`FailedBuildHoldsNothing`). A successful build has every list set, each with one block and a matching size (`SuccessfulBuildComplete`). The version decides the config in three places: the cipher-suite table, the group table and `InitConfig`'s flags. All three agree on whether the config is TLCP 1.1 (`TlcpSettingsAgree`). |
| `tlsharness_run` | pass | The client and server programs interleave, and any step of either may fail. Each list string `HitlsSetCtx` passes on reaches its `HITLS_CFG_Set*` exactly when a reference that splits on delimiters accepts it, and then as exactly its entries, in order; a list the loop rejects (an unknown entry, too many) fails with the reference's result, a setter may still fail on an accepted list, and only the last list processed can have failed (`SetConfigMatchesReference`). Each `BSL_UIO` ends with one reference held by its `HITLS_Ctx`, or none, whichever call failed (`UioOwnedOnce`). Each loop stays within its budget (`TypeOK`). Both test programs end, even when the peer failed before its first flight (`Termination`). |
| `provider_registry` | pass | Two providers are loaded, fail init, are unloaded and reloaded, and two contexts run every command code. Only Active providers are in the lookup order (`TypeOK`). FREE runs once for each successful init, and `provCtx` is live exactly while the provider is Active or unloading (`ProvFreedOncePerInit`). The registry refines `ProviderCatalog` (`ImplementsCatalog`): no provider is registered twice and no context slot is overwritten. |
| `demo_client` | pass | Every call of the demo client may fail, and both `HITLS_New` contracts are explored. On every path, nothing is released twice (`NoDoubleRelease`). At return, the socket, config, ctx and both certificates have no reference left (`HandlesReleasedAtExit`). |
| `demo_uio_leak` | violation | `UioReleasedAtExit`: at return the `BSL_UIO` has no reference left either. TLC finds the path through a successful `HITLS_SetUio`: `main` keeps the reference `BSL_UIO_New` gave it, and the cleanup block has no `BSL_UIO_Free`, so one reference is left. The harness, with the same calls, frees that reference right after `HITLS_SetUio` (`hitls_func.c:603-604`). The leak rests on the `HITLS_SetUio` contract the harness relies on (it takes a reference of its own); the process exits right after `main` returns. |
| `aes_ctr_stream` | pass | The calls split the data in any way, and the IV starts at or just below the low-word wrap. Byte `p` is still XORed with counter `ctr0 + p div 16` modulo the full width (`CounterStreamMatches`). So the split loop, the carry and the partial-block buffer act as one full-width counter, and no keystream block is reused. The wrappers also refine `AesCtrCounter` (`OneCounter`). |

Each property of a passing run has a mutant in `PROJECT.json`: a plausible
bug in the mapped code that TLC must catch. Examples are a dropped
`IsMethodValid` check, a free through the global table, an extra early
return, an ignored return value, and a missing `BSL_UIO_Free` on a failure path.

**Bounds.**
- **BslParams.** Two buffers of 1 and 2 bytes, with lengths up to 2, tell
  "fits", "fits exactly" and "one too many" apart. The accessor run uses one
  writable entry plus the terminator, because every accessor touches a single
  entry. The lookup run uses two entries, so a key can be duplicated, absent
  or behind another key. `MaxNumber` equals the array length, so the bound of
  the loop is reached.
- **CertMethod.** Two valid tables, one invalid table, two contexts and two
  object slots are used. This is enough to create an object under one table,
  register the other, and free the object while a second object or context
  still holds the first table.
- **AesCtr.** The IV starts with a low word of 0, 61, 62 or 63, and the
  upper part is 0 or 1. Calls are 0, 5, 16, 37 or 48 bytes long, with up to
  100 bytes in all. A pass can therefore end exactly on the wrap or cross it,
  a partial block can precede or follow the wrap, and the upper part itself
  wraps.
- **TlsHarness.** Budgets of 3 (Connect, Accept, Read) and 2 (Write) are
  used. They are enough for a loop to succeed after waiting, and for one to
  give up. Two records over channels of capacity 2 are enough to block a
  write. The eight list strings cover:
  - skipped;
  - one entry and two entries;
  - adjacent names and an unknown entry;
  - a leading delimiter;
  - three entries against an array of two.

  These strings go in the cipher-suite list. Three more inputs carry:
  - a TLS 1.2-1.3 range with a groups list;
  - a TLS 1.2 range whose point-format list fails before the cipher list;
  - a range with only its upper bound.

  The versions passed to `HitlsNewCtx` are TLS 1.2, TLS 1.3, TLCP 1.1 (not
  built) and an unknown one.
- **ProviderRegistry.** Two providers, each loaded at most twice
  (`MaxLoads`), and two context slots are used. Both providers offer HASH 1,
  so registration order decides the lookup, and reloading reverses it.
  p2's HASH 2 table lacks CTRL, and no provider offers a key for
  algorithm 2, so the missing-callback and not-found paths are taken. Both
  providers offer a key for algorithm 1, but only p1 has a SIGN table, so a
  pkey command on a key of p2 takes the missing-table path. Two slots let one context
  hold a provider while the other provider is unloaded.
- **DemoClient.** The model has no bounds: `main` is straight-line code, and every call is either successful or failing. `AddCertToStore` takes all four outcomes of its two calls.
- **ConfigDefault.** Scheme lists have at most two entries over
  {RSA, DSA, ECDSA} × {SHA1, SHA224, SHA256}. That covers the empty list, a
  deprecated scheme before or after an allowed one, and two deprecated
  schemes, so the TLS 1.3 filter, its `validNum` size and `Calloc(0)` are
  all reached. `failAt` ranges over every call of the longest builder, plus
  "none".

**Deadlock and fairness.**
- `configdefault_build` sets `CHECK_DEADLOCK FALSE`. A builder is one call
  on a fresh config that returns, so the state after it has no successor.
- `tlsharness_run` sets `CHECK_DEADLOCK FALSE` too, because both test
  programs end. So do `demo_client` and `demo_uio_leak`, because `main`
  returns.
- In `aes_ctr_stream`, a call of 0 bytes and the ECB check are always
  enabled. The other modules always have an enabled call. In
  `ProviderRegistry` a lookup or a FREECTX is always possible, and no
  liveness is claimed, so that module has no fairness.
- The only liveness claim is `Termination`, in the harness. It assumes weak
  fairness of each side's steps (`WF_vars(Step(s))`). Each side is a process
  of its own that runs its test program straight through, and no step waits
  on a lock. A side that can take a step therefore eventually does.
- The library calls never block in the model. They return a retryable code
  instead, as they do on a non-blocking transport.

## Plan for the remaining parts

1. A property for `GetPtrValue` after an `OCTETS_PTR` rebinding, once the
   intended contract of the returned length is settled.

## Not modelled

- **Headers of declarations and constants.** They have no behaviour to model.
- **The SDV unit tests.** They exercise code that is outside this
  repository.
- **The demo client's data.** The address, the buffers and the printing are
  left out. What the server sends has no effect on which handles are
  released.
- **The rest of the test harness.** `HitlsInit`, the `Free` functions,
  `HitlsClose`, `HitlsRenegotiate`, `HitlsSetMtu`, the session wrappers and
  `GetDefaultMethod` are each one call of a library function outside the
  repository, so there is no harness logic to model. Logging is left out.
  A test that gives only one bound of the version range has it ignored
  without an error. This is kept as a hazard; nothing states what it should
  do.
- **`FindParam` on an unterminated array.** This is a further disagreement,
  kept as a hazard because the project is at its limit of runs. The loop
  reads `param[index].key` before it tests `index < BSL_PARAM_MAX_NUMBER`,
  so an array of exactly `MAX_NUMBER` entries with no terminator has entry
  `MAX_NUMBER` read, one past its end; spec P6 says the call fails without
  reading out of bounds. With `HasTerminator = FALSE` and
  `NumSlots = MaxNumber = 2`, an invariant `last.top <= NumSlots` fails
  after two non-matching entries.
- **The TLS 1.3 signature-scheme filter against RFC 8446.** The comment
  above `SetTLS13DefaultSignScheme` quotes RFC 8446 4.2.3 (MD5, SHA-224 and
  DSA must not be used), and the loop drops DSA, SHA-1 and SHA-224 but not
  MD5. The scheme list comes from `CFG_GetSignSchemeList`, outside the
  repository, so whether an MD5 scheme can reach the filter is unknown; the
  model's schemes have no MD5.
- **Harness inputs that are undefined behaviour.** Examples are a list string
  of delimiters only (`":"`) and a string of exactly 512 characters. Adding
  `<<":">>` to `MC_Names` makes `SetConfigMatchesReference` fail with the
  undefined outcome. So does a name of `MaxNameLen` pieces.
- **Functions called from here but defined outside the repository.**
  `CFG_CleanConfig`, `SAL_CERT_MgrCtxNew`, `SESSMGR_New`, the `MODE_CTR_*`
  helpers, `MODE_IncCounter` and the assembly AES routines are modelled only
  by the contract their callers rely on. `PROJECT.json` marks those
  definitions `spec_modelled`.
- **Further disagreements seen while modelling, kept as hazards rather
  than runs.**
  - `InitValue` accepts a `UINT32` slot shorter than 4 bytes. Setting
    `U32Lens` to `{1, 2}` in `BslParams_access.cfg` makes
    `NoOutOfBoundsAccess` fail.
  - `HITLS_CERT_DeinitMgrMethod` while certificates are alive makes
    `SAL_CERT_X509Free` call NULL. `CertMethod` defines `NoNullCallback`;
    adding it to `CertMethod_free.cfg`, whose `Ops` include `Deinit`, makes
    TLC find the NULL `certFree`. No run checks it with complete tables and
    no reset: it adds nothing to what `certmethod_certfree` reports about the
    global table.
  - `SetValue` stores a NULL `OCTETS_PTR` value that has a nonzero length.
    Spec P2 says that pair is rejected. `BslParams` keeps
    `NullValueRejected` for this case. A cfg with `Ops = {"SetValue"}` and
    `INVARIANT NullValueRejected` makes TLC fail in one step. The other
    constants are those of `BslParams_roundtrip.cfg`.
  - `IsMethodValid` does not require `certRef`. Setting `Incomplete` to
    `{M2}` and `Ops <- MC_NoDeinit` in a cfg checking `NoNullCallback`
    makes it fail at `SAL_CERT_X509Ref`.
- **Provider CAP callbacks and provider CTRL.** Entropy, nonce and
  manager-context callbacks pass data only; nothing the registry decides
  depends on them.
