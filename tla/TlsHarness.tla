------------------------------ MODULE TlsHarness ------------------------------
(***************************************************************************)
(* The library side of the TLS interoperability test harness,             *)
(* src/testcode/framework/tls/rpc/src/hitls_func.c, run by a client and a *)
(* server process at once.  Each side                                      *)
(*   - creates its HITLS_Config (HitlsNewCtx) and configures it           *)
(*     (HitlsSetCtx: the list strings go through HitlsSetConfig),          *)
(*   - creates its HITLS_Ctx (HitlsNewSsl),                                *)
(*   - binds a transport to its HITLS_Ctx (HitlsSetSsl),                   *)
(*   - runs the handshake (HitlsConnect / HitlsAccept),                    *)
(*   - then the client writes NumMsgs records (HitlsWrite) and the server  *)
(*     reads them (HitlsRead).                                             *)
(* Connect, Accept, Write and Read are retry loops: the library call       *)
(* returns HITLS_REC_NORMAL_RECV_BUF_EMPTY or HITLS_REC_NORMAL_IO_BUSY     *)
(* while it waits for the peer, and the loop retries up to a budget.  One  *)
(* iteration of a loop is one step, so the two sides interleave between   *)
(* iterations.                                                             *)
(*                                                                         *)
(* The library (HITLS_Connect, HITLS_Accept, HITLS_Write, HITLS_Read,      *)
(* BSL_UIO_*, HITLS_SetUio) is outside the repository.  Its handshake is  *)
(* abstracted to flights over two in-order channels of bounded capacity:  *)
(* the client sends CH, the server answers SH, the client sends Fin.       *)
(***************************************************************************)
EXTENDS Integers, Sequences

CONSTANTS
  AcceptTries,   \* FUNC_TIME_OUT_SEC * 1000 in HitlsAccept
  ConnectTries,  \* FUNC_TIME_OUT_SEC * 1000 in HitlsConnect
  WriteTries,    \* 4000 in HitlsWrite
  ReadTries,     \* 8000 in HitlsRead
  ChanCap,       \* records a transport buffers before a send blocks
  NumMsgs,       \* records the client writes and the server reads
  MaxConfig,     \* the 20 entries of configValueArray
  MaxNameLen,    \* MAX_CIPHERSUITES_LEN, the size of configArray
  Known,         \* list entries the harness table knows, with their values
  Names,         \* the list strings a test case may configure
  Versions,      \* the TLS_VERSION values a test passes to HitlsNewCtx
  Tlcp11Built,   \* whether HITLS_TLS_PROTO_TLCP11 is defined
  CtxInputs      \* the HLT_Ctx_Config records a test passes to HitlsSetCtx

Sides == {"client", "server"}
Peer(s) == IF s = "client" THEN "server" ELSE "client"

SUCCESS == "SUCCESS"                            \* 0, HITLS_SUCCESS
ERROR   == "ERROR"                              \* -1
EMPTY   == "HITLS_REC_NORMAL_RECV_BUF_EMPTY"
BUSY    == "HITLS_REC_NORMAL_IO_BUSY"
UB      == "UNDEFINED"                          \* undefined behaviour reached
NoCfg   == "NULL"                               \* a NULL HITLS_Config
TLS13   == "TLS13"                              \* HITLS_VERSION_TLS13
NoVersion == "0"                                \* a version bound left 0
Retryable == {EMPTY, BUSY}

(***************************************************************************)
(* A list string is a sequence of pieces: ":" or one entry name.  Two      *)
(* adjacent names form one unknown name.  The whole string "NULL" is the  *)
(* piece "NULL".                                                            *)
(***************************************************************************)
Delim == ":"
Unknown == "unknown"

VARIABLES
  pc,       \* where each side's test program is
  tries,    \* tryNum of the retry loop a side is in
  ret,      \* what the last harness function of a side returned
  cfg,      \* the side's HITLS_Config: maxVersion, whether the key-exchange
            \* mode was set, and what HitlsSetCtx returned
  lists,    \* the list strings HitlsSetCtx processed, with the results
  uioRefs,  \* references to the BSL_UIO a side created
  sslUio,   \* whether the side's HITLS_Ctx holds that BSL_UIO
  lib,      \* each side's handshake state inside the library
  chan,     \* records in flight to each side
  sent,     \* records HitlsWrite delivered to the transport
  got       \* records HitlsRead returned

vars == <<pc, tries, ret, cfg, lists, uioRefs, sslUio, lib, chan, sent, got>>

-----------------------------------------------------------------------------
(* strtok_s(str, ":", &rest) from position i: skip the delimiters, then   *)
(* take the name up to the next delimiter; NULL at the end of the string. *)
RECURSIVE StrTok(_, _)
StrTok(str, i) ==
  IF i > Len(str) THEN [tok |-> "NULL_TOKEN", next |-> i]
  ELSE IF str[i] = Delim THEN StrTok(str, i + 1)
  ELSE IF i < Len(str) /\ str[i + 1] # Delim     \* adjacent names: one unknown
       THEN [tok |-> Unknown, next |-> StrTok(str, i + 1).next]
       ELSE [tok |-> str[i], next |-> i + 1]

(* GetConfigVauleFromStr: the value of a name in the table, or ERROR.     *)
GetConfigVauleFromStr(tok) == IF tok \in DOMAIN Known THEN Known[tok] ELSE ERROR

(* The do-while loop of HitlsSetConfig with the size check `<=`.          *)
RECURSIVE SetConfigLoop_CapOffByOne(_, _, _)
SetConfigLoop_CapOffByOne(str, t, arr) ==
  CASE Len(arr) > MaxConfig                -> [ret |-> ERROR, arr |-> arr]
    [] t.tok = "NULL_TOKEN"                -> [ret |-> UB, arr |-> arr]
    [] GetConfigVauleFromStr(t.tok) = ERROR -> [ret |-> ERROR, arr |-> arr]
    [] OTHER ->
         LET arr2 == Append(arr, GetConfigVauleFromStr(t.tok))
             t2   == StrTok(str, t.next)
         IN IF t2.tok = "NULL_TOKEN" THEN [ret |-> SUCCESS, arr |-> arr2]
            ELSE SetConfigLoop_CapOffByOne(str, t2, arr2)

(* The do-while loop of HitlsSetConfig: at most MaxConfig entries, each a *)
(* known name; the body runs once before the NULL test, so a string with  *)
(* no name passes NULL to strcmp.                                          *)
RECURSIVE SetConfigLoop(_, _, _)
SetConfigLoop(str, t, arr) ==
  CASE Len(arr) >= MaxConfig                -> [ret |-> ERROR, arr |-> arr]
    [] t.tok = "NULL_TOKEN"                -> [ret |-> UB, arr |-> arr]
    [] GetConfigVauleFromStr(t.tok) = ERROR -> [ret |-> ERROR, arr |-> arr]
    [] OTHER ->
         LET arr2 == Append(arr, GetConfigVauleFromStr(t.tok))
             t2   == StrTok(str, t.next)
         IN IF t2.tok = "NULL_TOKEN" THEN [ret |-> SUCCESS, arr |-> arr2]
            ELSE SetConfigLoop(str, t2, arr2)

(* HitlsSetConfig: memcpy_s into the zeroed configArray fails for a       *)
(* longer string; a string of exactly MaxNameLen leaves no terminator for *)
(* strtok_s.  After the loop the array goes to the HITLS_CFG_Set* of the  *)
(* list's type (set: it was called), whose failure setOk = FALSE is       *)
(* returned as ERROR (ASSERT_RETURN).                                      *)
HitlsSetConfig(name, setOk) ==
  LET loop == SetConfigLoop(name, StrTok(name, 1), <<>>)
  IN CASE Len(name) > MaxNameLen -> [ret |-> ERROR, arr |-> <<>>, set |-> FALSE]
       [] Len(name) = MaxNameLen -> [ret |-> UB, arr |-> <<>>, set |-> FALSE]
       [] loop.ret # SUCCESS     -> [ret |-> loop.ret, arr |-> loop.arr, set |-> FALSE]
       [] OTHER ->
            [ret |-> IF setOk THEN SUCCESS ELSE ERROR, arr |-> loop.arr, set |-> TRUE]

(* The guard of HitlsSetCtx: strncmp("NULL", s, strlen(s)) != 0 skips the *)
(* empty string and "NULL".                                                 *)
Configured(name) == name \notin {<<>>, <<"NULL">>}

(* The list strings of HitlsSetCtx in code order.  Each configured one   *)
(* goes through HitlsSetConfig with its table; the first failure returns; *)
(* failAt names the HITLS_CFG_Set* that fails, if any.                    *)
ListKinds == <<"POINTFORMAT", "CIPHER", "GROUPS", "SIGNATURE">>

RECURSIVE SetLists(_, _, _, _)
SetLists(in, i, done, failAt) ==
  IF i > Len(ListKinds) THEN [ret |-> SUCCESS, done |-> done]
  ELSE LET name == in.lists[ListKinds[i]]
           r    == HitlsSetConfig(name, failAt # ListKinds[i])
           d    == Append(done, [name |-> name, res |-> r])
       IN CASE ~Configured(name) -> SetLists(in, i + 1, done, failAt)
            [] r.ret = SUCCESS   -> SetLists(in, i + 1, d, failAt)
            [] OTHER             -> [ret |-> r.ret, done |-> d]

(* The asserted calls of HitlsSetCtx that the model lets fail, in code    *)
(* order; each group is a run of HITLS_CFG_Set* calls whose failures all   *)
(* do the same (ASSERT_RETURN), and a list kind is the setter of that     *)
(* list in HitlsSetConfig.  The unasserted SetSessionCacheMode and         *)
(* SetCipherServerPreference change nothing the model tracks.             *)
FailPoints ==
  {"none", "SetVersion", "flags", "certs", "flags2", "keyExch", "flags3"}
    \cup {ListKinds[i] : i \in DOMAIN ListKinds}

(* HitlsSetCtx on a config whose builder set maxVersion `built`:          *)
(* SetVersion when both bounds are given, ten flag setters, the four      *)
(* lists, SNI/ALPN/certificates/PSK/callbacks, three more setters, the    *)
(* key-exchange mode when outCfg->maxVersion (read after SetVersion) is   *)
(* TLS 1.3, and three more setters; failAt names the call that fails.     *)
SetCtxRun(in, failAt, built) ==
  LET setV == in.minV # NoVersion /\ in.maxV # NoVersion
      max  == IF setV THEN in.maxV ELSE built
      kx   == max = TLS13
      lr   == SetLists(in, 1, <<>>, failAt)
      Out(r, k, d) == [ret |-> r, max |-> max, keyExch |-> k, done |-> d]
  IN CASE setV /\ failAt = "SetVersion"  -> [Out(ERROR, FALSE, <<>>) EXCEPT !.max = built]
       [] failAt = "flags"               -> Out(ERROR, FALSE, <<>>)
       [] lr.ret # SUCCESS               -> Out(lr.ret, FALSE, lr.done)
       [] failAt \in {"certs", "flags2"} -> Out(ERROR, FALSE, lr.done)
       [] kx /\ failAt = "keyExch"       -> Out(ERROR, TRUE, lr.done)
       [] failAt = "flags3"              -> Out(ERROR, kx, lr.done)
       [] OTHER                          -> Out(SUCCESS, kx, lr.done)

-----------------------------------------------------------------------------
(* HitlsNewCtx: the TLS_VERSION selects a builder, whose Default*Config    *)
(* sets maxVersion (config_default.c); TLCP1_1 only when the build has    *)
(* it, any other value gives NULL, and a builder may fail to allocate.    *)
(* The caller ends the test program on NULL.                               *)
BuilderMax ==
  [v \in {"DTLS1_2", "TLS1_2", "TLS1_3", "TLS_ALL"}
         \cup (IF Tlcp11Built THEN {"TLCP1_1"} ELSE {}) |->
     CASE v = "DTLS1_2" -> "DTLS12"
       [] v = "TLS1_2"  -> "TLS12"
       [] v = "TLCP1_1" -> "TLCP11"
       [] OTHER         -> TLS13]

HitlsNewCtx(s) ==
  /\ pc[s] = "newCtx"
  /\ \E v \in Versions, allocOk \in BOOLEAN :
       LET ok == v \in DOMAIN BuilderMax /\ allocOk
       IN /\ cfg' = [cfg EXCEPT ![s].max = IF ok THEN BuilderMax[v] ELSE NoCfg]
          /\ pc' = [pc EXCEPT ![s] = IF ok THEN "setCtx" ELSE "end"]
          /\ ret' = [ret EXCEPT ![s] = IF ok THEN SUCCESS ELSE ERROR]
  /\ UNCHANGED <<tries, lists, uioRefs, sslUio, lib, chan, sent, got>>

(* HitlsSetCtx; a failure ends the test program (ASSERT_RETURN).          *)
HitlsSetCtx(s) ==
  /\ pc[s] = "setCtx"
  /\ \E in \in CtxInputs, failAt \in FailPoints :
       LET r == SetCtxRun(in, failAt, cfg[s].max)
       IN /\ cfg' = [cfg EXCEPT ![s] = [max |-> r.max, keyExch |-> r.keyExch, ret |-> r.ret]]
          /\ lists' = [lists EXCEPT ![s] = r.done]
          /\ pc' = [pc EXCEPT ![s] = IF r.ret = SUCCESS THEN "newSsl" ELSE "end"]
          /\ ret' = [ret EXCEPT ![s] = IF r.ret = SUCCESS THEN SUCCESS ELSE ERROR]
  /\ UNCHANGED <<tries, uioRefs, sslUio, lib, chan, sent, got>>

(* HitlsNewSsl: HITLS_New, NULL when it fails; the caller then ends.      *)
HitlsNewSsl(s) ==
  /\ pc[s] = "newSsl"
  /\ \E ok \in BOOLEAN :
       /\ pc' = [pc EXCEPT ![s] = IF ok THEN "setSsl" ELSE "end"]
       /\ ret' = [ret EXCEPT ![s] = IF ok THEN SUCCESS ELSE ERROR]
  /\ UNCHANGED <<tries, cfg, lists, uioRefs, sslUio, lib, chan, sent, got>>

(* HitlsSetSsl with the BSL_UIO_Free after a failed HITLS_SetUio dropped. *)
HitlsSetSsl_NoFreeOnSetUioFail(s, newOk, fdOk, setOk) ==
  LET held  == newOk /\ fdOk /\ setOk
      afterNew == IF newOk THEN 1 ELSE 0
      afterSet == IF held THEN afterNew + 1 ELSE afterNew
      freed == newOk /\ (~fdOk \/ held)
  IN /\ uioRefs' = [uioRefs EXCEPT ![s] = IF freed THEN afterSet - 1 ELSE afterSet]
     /\ sslUio' = [sslUio EXCEPT ![s] = held]

(* HitlsSetSsl, call by call: BSL_UIO_New gives the harness one reference  *)
(* (ASSERT_RETURN on NULL); a successful HITLS_SetUio, after SET_FD, takes *)
(* one of its own for the HITLS_Ctx; each of the three paths after         *)
(* BSL_UIO_New ends in one BSL_UIO_Free of the harness's reference.        *)
HitlsSetSsl(s, newOk, fdOk, setOk) ==
  LET held  == newOk /\ fdOk /\ setOk
      afterNew == IF newOk THEN 1 ELSE 0
      afterSet == IF held THEN afterNew + 1 ELSE afterNew
      freed == newOk
  IN /\ uioRefs' = [uioRefs EXCEPT ![s] = IF freed THEN afterSet - 1 ELSE afterSet]
     /\ sslUio' = [sslUio EXCEPT ![s] = held]

SetSsl(s) ==
  /\ pc[s] = "setSsl"
  /\ \E newOk, fdOk, setOk \in BOOLEAN :
       /\ HitlsSetSsl(s, newOk, fdOk, setOk)
       /\ pc' = [pc EXCEPT ![s] = IF newOk /\ fdOk /\ setOk THEN "hs" ELSE "end"]
       /\ ret' = [ret EXCEPT ![s] = IF newOk /\ fdOk /\ setOk THEN SUCCESS ELSE ERROR]
  /\ UNCHANGED <<tries, cfg, lists, lib, chan, sent, got>>

-----------------------------------------------------------------------------
(* The library calls, by their contract.  Each returns the result and the *)
(* library state and channels after the call.                             *)
Send(ch, to, m) == [ch EXCEPT ![to] = Append(@, m)]
Recv(ch, s)     == [ch EXCEPT ![s] = Tail(@)]
HasRoom(to)     == Len(chan[to]) < ChanCap
Next1(s, m)     == chan[s] # <<>> /\ Head(chan[s]) = m

HITLS_Connect ==
  CASE lib.client = "start" /\ HasRoom("server") ->
         [r |-> EMPTY, lib |-> "waitSH", chan |-> Send(chan, "server", "CH")]
    [] lib.client = "start" ->
         [r |-> BUSY, lib |-> "start", chan |-> chan]
    [] Next1("client", "SH") /\ HasRoom("server") ->
         [r |-> SUCCESS, lib |-> "done",
          chan |-> Send(Recv(chan, "client"), "server", "Fin")]
    [] Next1("client", "SH") ->
         [r |-> BUSY, lib |-> "waitSH", chan |-> chan]
    [] OTHER -> [r |-> EMPTY, lib |-> lib.client, chan |-> chan]

HITLS_Accept ==
  CASE lib.server = "waitCH" /\ Next1("server", "CH") /\ HasRoom("client") ->
         [r |-> EMPTY, lib |-> "waitFin",
          chan |-> Send(Recv(chan, "server"), "client", "SH")]
    [] lib.server = "waitCH" /\ Next1("server", "CH") ->
         [r |-> BUSY, lib |-> "waitCH", chan |-> chan]
    [] lib.server = "waitFin" /\ Next1("server", "Fin") ->
         [r |-> SUCCESS, lib |-> "done", chan |-> Recv(chan, "server")]
    [] OTHER -> [r |-> EMPTY, lib |-> lib.server, chan |-> chan]

HITLS_Write ==
  IF HasRoom("server")
  THEN [r |-> SUCCESS, lib |-> "done", chan |-> Send(chan, "server", "Data")]
  ELSE [r |-> BUSY, lib |-> "done", chan |-> chan]

HITLS_Read ==
  IF Next1("server", "Data")
  THEN [r |-> SUCCESS, lib |-> "done", chan |-> Recv(chan, "server")]
  ELSE [r |-> EMPTY, lib |-> "done", chan |-> chan]

-----------------------------------------------------------------------------
(* One iteration of a harness retry loop with the bound test `<=`.         *)
LoopStep_OffByOne(s, call, max, n, then) ==
  LET stay == call.r \in Retryable /\ tries[s] + n <= max
  IN /\ lib' = [lib EXCEPT ![s] = call.lib]
     /\ chan' = call.chan
     /\ tries' = [tries EXCEPT ![s] = IF stay THEN @ + n ELSE 0]
     /\ ret' = [ret EXCEPT ![s] = call.r]
     /\ pc' = [pc EXCEPT ![s] = IF stay THEN @ ELSE IF call.r = SUCCESS THEN then ELSE "end"]

(* One iteration of a harness retry loop: call, usleep, tryNum += n; stay *)
(* while the call returned a retryable code and tryNum < max, else go on  *)
(* to `then` after a success and end the test program after a failure.   *)
(* n is 1; a loop that forgets to count passes 0.                         *)
LoopStep(s, call, max, n, then) ==
  LET stay == call.r \in Retryable /\ tries[s] + n < max
  IN /\ lib' = [lib EXCEPT ![s] = call.lib]
     /\ chan' = call.chan
     /\ tries' = [tries EXCEPT ![s] = IF stay THEN @ + n ELSE 0]
     /\ ret' = [ret EXCEPT ![s] = call.r]
     /\ pc' = [pc EXCEPT ![s] = IF stay THEN @ ELSE IF call.r = SUCCESS THEN then ELSE "end"]

HitlsAccept_NoCount ==
  /\ pc.server = "hs"
  /\ LoopStep("server", HITLS_Accept, AcceptTries, 0, "data")
  /\ UNCHANGED <<cfg, lists, uioRefs, sslUio, sent, got>>

HitlsAccept ==
  /\ pc.server = "hs"
  /\ LoopStep("server", HITLS_Accept, AcceptTries, 1, "data")
  /\ UNCHANGED <<cfg, lists, uioRefs, sslUio, sent, got>>

HitlsConnect ==
  /\ pc.client = "hs"
  /\ LoopStep("client", HITLS_Connect, ConnectTries, 1, "data")
  /\ UNCHANGED <<cfg, lists, uioRefs, sslUio, sent, got>>

(* The client's test program calls HitlsWrite once per record.           *)
HitlsWrite ==
  /\ pc.client = "data"
  /\ LoopStep("client", HITLS_Write, WriteTries, 1,
               IF sent + 1 < NumMsgs THEN "data" ELSE "end")
  /\ sent' = IF HITLS_Write.r = SUCCESS THEN sent + 1 ELSE sent
  /\ UNCHANGED <<cfg, lists, uioRefs, sslUio, got>>

(* The server's test program calls HitlsRead once per record.            *)
HitlsRead ==
  /\ pc.server = "data"
  /\ LoopStep("server", HITLS_Read, ReadTries, 1,
               IF got + 1 < NumMsgs THEN "data" ELSE "end")
  /\ got' = IF HITLS_Read.r = SUCCESS THEN got + 1 ELSE got
  /\ UNCHANGED <<cfg, lists, uioRefs, sslUio, sent>>

-----------------------------------------------------------------------------
Init ==
  /\ pc = [s \in Sides |-> "newCtx"]
  /\ tries = [s \in Sides |-> 0]
  /\ ret = [s \in Sides |-> SUCCESS]
  /\ cfg = [s \in Sides |-> [max |-> NoCfg, keyExch |-> FALSE, ret |-> ERROR]]
  /\ lists = [s \in Sides |-> <<>>]
  /\ uioRefs = [s \in Sides |-> 0]
  /\ sslUio = [s \in Sides |-> FALSE]
  /\ lib = [client |-> "start", server |-> "waitCH"]
  /\ chan = [s \in Sides |-> <<>>]
  /\ sent = 0
  /\ got = 0

\* The steps of one side's test program.
Step(s) ==
  \/ HitlsNewCtx(s)
  \/ HitlsSetCtx(s)
  \/ HitlsNewSsl(s)
  \/ SetSsl(s)
  \/ s = "client" /\ (HitlsConnect \/ HitlsWrite)
  \/ s = "server" /\ (HitlsAccept \/ HitlsRead)

Next == \E s \in Sides : Step(s)

(* Each side is its own process of the test framework and keeps running: *)
(* weak fairness on each side's steps.                                    *)
Spec == Init /\ [][Next]_vars /\ \A s \in Sides : WF_vars(Step(s))

-----------------------------------------------------------------------------
\* The tryNum bound of the loop a side is in.
Budget(s) ==
  IF pc[s] = "hs" THEN IF s = "client" THEN ConnectTries ELSE AcceptTries
  ELSE IF s = "client" THEN WriteTries ELSE ReadTries

TypeOK ==
  /\ pc \in [Sides -> {"newCtx", "setCtx", "newSsl", "setSsl", "hs", "data", "end"}]
  /\ \A s \in Sides : tries[s] \in 0..Budget(s) - 1
  /\ uioRefs \in [Sides -> 0..1]
  /\ \A s \in Sides : Len(chan[s]) <= ChanCap

(* The reference of HitlsSetConfig: the names between the delimiters;     *)
(* the list when there are 1 to MaxConfig of them and each is known,     *)
(* ERROR otherwise.                                                         *)
RECURSIVE Names2(_, _)
Names2(str, i) ==
  IF i > Len(str) THEN <<>>
  ELSE IF str[i] = Delim THEN Names2(str, i + 1)
  ELSE LET j == CHOOSE k \in i..Len(str) + 1 :
                  /\ \A m \in i..k - 1 : str[m] # Delim
                  /\ (k > Len(str) \/ str[k] = Delim)
       IN <<IF j = i + 1 THEN str[i] ELSE Unknown>> \o Names2(str, j)

RefSetConfig(name) ==
  LET ns == Names2(name, 1)
  IN IF /\ Len(name) < MaxNameLen
        /\ 1 <= Len(ns) /\ Len(ns) <= MaxConfig
        /\ \A i \in 1..Len(ns) : ns[i] \in DOMAIN Known
     THEN [ret |-> SUCCESS, arr |-> [i \in 1..Len(ns) |-> Known[ns[i]]]]
     ELSE [ret |-> ERROR]

(* Each list string HitlsSetCtx passed on reaches its HITLS_CFG_Set*     *)
(* exactly when the reference accepts it, and then as exactly its         *)
(* entries in order; a list the strtok_s loop rejects (an unknown entry,  *)
(* more than configValueArray holds) fails with the reference's result;   *)
(* a list accepted is one the reference accepts; and only the last list   *)
(* processed may have failed (the ones after it are skipped).             *)
SetConfigMatchesReference ==
  \A s \in Sides :
    \A i \in 1..Len(lists[s]) :
      LET ref == RefSetConfig(lists[s][i].name)
          res == lists[s][i].res
      IN /\ res.set <=> ref.ret = SUCCESS
         /\ res.set => res.arr = ref.arr
         /\ ~res.set => res.ret = ref.ret
         /\ i < Len(lists[s]) => res.ret = SUCCESS

(* A side's BSL_UIO has exactly one reference when its HITLS_Ctx holds   *)
(* it and none otherwise, whichever of BSL_UIO_New, SET_FD and           *)
(* HITLS_SetUio failed: no leak, and no reference the harness freed.     *)
UioOwnedOnce ==
  \A s \in Sides : uioRefs[s] = IF sslUio[s] THEN 1 ELSE 0

(* Every harness loop gives up within its budget, so both test programs  *)
(* end, whatever the peer does: a peer that failed before sending its    *)
(* first flight cannot keep the other side waiting.                      *)
Termination == <>(\A s \in Sides : pc[s] = "end")

=============================================================================
