----------------------------- MODULE DemoClient -----------------------------
(***************************************************************************)
(* The demo TLS client, src/testcode/demo/client.c: main() opens a socket, *)
(* builds a TLS 1.2 config, parses two CA certificates into its store,     *)
(* creates a HITLS_Ctx bound to a TCP BSL_UIO, and runs one handshake,     *)
(* write and read.  Every call may fail; all but the first two failures    *)
(* jump to the cleanup block at label exit.                                *)
(*                                                                         *)
(* The handles are reference-counted objects.  live[r] counts the          *)
(* references to object r that are still held by somebody; an object     *)
(* whose last reference goes owns nothing any more and drops what it      *)
(* held: a HITLS_Ctx its config and BSL_UIO, a config the certificates    *)
(* its store shares.  A release of an object with no reference left is    *)
(* recorded in overReleased.  The library calls are outside the           *)
(* repository; the contracts assumed for them are those the TLS test      *)
(* harness relies on (HITLS_SetUio takes a reference of its own;          *)
(* HITLS_Free, HITLS_CFG_FreeConfig, HITLS_X509_CertFree and BSL_UIO_Free *)
(* accept NULL; AddCertToStore with clone = true stores a copy), and      *)
(* both answers for whether HITLS_New keeps a reference of the config.    *)
(* Printing, addresses and buffers are left out.                          *)
(***************************************************************************)
EXTENDS Integers, FiniteSets, SequencesExt, FiniteSetsExt

\* The objects main() holds a variable for; "fd" is the socket.
Res == {"fd", "config", "ctx", "uio", "root", "sub"}
Certs == {"root", "sub"}

VARIABLES
  pc,            \* the next call of main()
  live,          \* live[r]: references to object r still held
  set,           \* set[r]: main's variable for r is non-NULL (fd valid)
  ctxHolds,      \* the objects the HITLS_Ctx took a reference of
  store,         \* store[c]: "none", "clone" or "shared" in the cert store
  exitValue,     \* main's exitValue
  overReleased,  \* the objects released with no reference left
  newUpRef       \* whether HITLS_New takes a reference of the config

vars == <<pc, live, set, ctxHolds, store, exitValue, overReleased, newUpRef>>

(***************************************************************************)
(* Releasing one reference of r in state st = [live, over]: when it was   *)
(* the last one, the references r held go too (HITLS_Free drops the       *)
(* ctx's config and UIO; freeing the config frees the certificates its    *)
(* store shares).                                                          *)
(***************************************************************************)
Owns(r) ==
  CASE r = "ctx"    -> ctxHolds
    [] r = "config" -> {c \in Certs : store[c] = "shared"}
    [] OTHER        -> {}

RECURSIVE Release(_, _)
Release(st, r) ==
  IF st.live[r] = 0
  THEN [st EXCEPT !.over = @ \cup {r}]
  ELSE LET s1 == [st EXCEPT !.live[r] = @ - 1]
       IN  IF s1.live[r] > 0 THEN s1
           ELSE FoldSet(LAMBDA o, acc : Release(acc, o), s1, Owns(r))

Now == [live |-> live, over |-> overReleased]

\* Applies the releases of seq, in order, to the current state.
ReleaseSeq(seq) == FoldLeft(Release, Now, seq)

\* A call that returns a new handle with one reference.
Acquire(r) ==
  /\ live' = [live EXCEPT ![r] = 1]
  /\ set' = [set EXCEPT ![r] = TRUE]

\* A failed call that jumps to the label exit.
GotoExit ==
  /\ pc' = "exit"
  /\ UNCHANGED <<live, set, ctxHolds, store, exitValue, overReleased>>

\* socket(): on failure main returns -1 at once.
Socket ==
  /\ pc = "socket"
  /\ \/ /\ Acquire("fd")
        /\ pc' = "setsockopt"
     \/ /\ pc' = "done"
        /\ UNCHANGED <<live, set>>
  /\ UNCHANGED <<ctxHolds, store, exitValue, overReleased>>

(***************************************************************************)
(* setsockopt(SO_REUSEADDR): on failure main closes fd and returns -1,     *)
(* without going through the cleanup block.                                *)
(***************************************************************************)
SetSockOpt_NoClose ==
  /\ pc = "setsockopt"
  /\ \/ pc' = "connect"
     \/ pc' = "done"
  /\ UNCHANGED <<live, set, ctxHolds, store, exitValue, overReleased>>

SetSockOpt ==
  /\ pc = "setsockopt"
  /\ \/ /\ pc' = "connect"
        /\ UNCHANGED <<live, overReleased>>
     \/ /\ pc' = "done"
        /\ LET st == ReleaseSeq(<<"fd">>)
           IN  live' = st.live /\ overReleased' = st.over
  /\ UNCHANGED <<set, ctxHolds, store, exitValue>>

\* A call whose failure jumps to exit and whose success changes nothing.
Step(from, to) ==
  /\ pc = from
  /\ \/ /\ pc' = to
        /\ UNCHANGED <<live, set, ctxHolds, store, exitValue, overReleased>>
     \/ GotoExit

\* connect(), HITLS_CFG_SetCheckKeyUsage, HITLS_Connect and HITLS_Write.
Connect == Step("connect", "newConfig")
SetCheckKeyUsage == Step("checkKeyUsage", "parseRoot")
HitlsConnect == Step("hitlsConnect", "hitlsWrite")
HitlsWrite == Step("hitlsWrite", "hitlsRead")

\* A call returning a new handle r, or NULL and a jump to exit.
NewHandle(from, r, to) ==
  /\ pc = from
  /\ \/ /\ Acquire(r)
        /\ pc' = to
        /\ UNCHANGED <<ctxHolds, store, exitValue, overReleased>>
     \/ GotoExit

\* HITLS_CFG_NewTLS12Config, HITLS_X509_CertParseFile twice, BSL_UIO_New.
NewTLS12Config == NewHandle("newConfig", "config", "checkKeyUsage")
CertParseFile(c) ==
  NewHandle(IF c = "root" THEN "parseRoot" ELSE "parseSub", c,
            IF c = "root" THEN "parseSub" ELSE "addCerts")
UioNew == NewHandle("uioNew", "uio", "setFd")

(***************************************************************************)
(* HITLS_CFG_AddCertToStore with a store sharing the certificate instead   *)
(* of cloning it.                                                          *)
(***************************************************************************)
AddCertToStore_NoClone ==
  /\ pc = "addCerts"
  /\ \E added \in SUBSET Certs :
       store' = [c \in Certs |-> IF c \in added THEN "shared" ELSE "none"]
  /\ pc' = "hitlsNew"
  /\ UNCHANGED <<live, set, ctxHolds, exitValue, overReleased>>

(***************************************************************************)
(* The two HITLS_CFG_AddCertToStore calls, clone = true: each either      *)
(* stores a copy or fails, and main ignores the result.                    *)
(***************************************************************************)
AddCertToStore ==
  /\ pc = "addCerts"
  /\ \E added \in SUBSET Certs :
       store' = [c \in Certs |-> IF c \in added THEN "clone" ELSE "none"]
  /\ pc' = "hitlsNew"
  /\ UNCHANGED <<live, set, ctxHolds, exitValue, overReleased>>

(***************************************************************************)
(* HITLS_New(config).  Whether the new ctx keeps a reference of the       *)
(* config, or only a copy, is decided outside the repository: both are    *)
(* explored (newUpRef).                                                    *)
(***************************************************************************)
HitlsNew ==
  /\ pc = "hitlsNew"
  /\ \/ /\ live' = [live EXCEPT !["ctx"] = 1,
                                !["config"] = IF newUpRef THEN @ + 1 ELSE @]
        /\ set' = [set EXCEPT !["ctx"] = TRUE]
        /\ ctxHolds' = IF newUpRef THEN {"config"} ELSE {}
        /\ pc' = "uioNew"
        /\ UNCHANGED <<store, exitValue, overReleased>>
     \/ GotoExit

(***************************************************************************)
(* BSL_UIO_Ctrl(SET_FD) and HITLS_SetUio: a failure frees the UIO and     *)
(* jumps to exit; HITLS_SetUio's success gives the ctx a reference.       *)
(***************************************************************************)
FreeUioAndExit ==
  /\ LET st == ReleaseSeq(<<"uio">>)
     IN  live' = st.live /\ overReleased' = st.over
  /\ pc' = "exit"
  /\ UNCHANGED <<set, ctxHolds, store, exitValue>>

UioSetFd ==
  /\ pc = "setFd"
  /\ \/ /\ pc' = "setUio"
        /\ UNCHANGED <<live, set, ctxHolds, store, exitValue, overReleased>>
     \/ FreeUioAndExit

SetUio ==
  /\ pc = "setUio"
  /\ \/ /\ live' = [live EXCEPT !["uio"] = @ + 1]
        /\ ctxHolds' = ctxHolds \cup {"uio"}
        /\ pc' = "hitlsConnect"
        /\ UNCHANGED <<set, store, exitValue, overReleased>>
     \/ FreeUioAndExit

\* HITLS_Read: on success main sets exitValue = 0 and falls into exit.
HitlsRead ==
  /\ pc = "hitlsRead"
  /\ \/ exitValue' = 0
     \/ UNCHANGED exitValue
  /\ pc' = "exit"
  /\ UNCHANGED <<live, set, ctxHolds, store, overReleased>>

(***************************************************************************)
(* The block at label exit, in its order: HITLS_Close and HITLS_Free of    *)
(* ctx, HITLS_CFG_FreeConfig, close(fd), HITLS_X509_CertFree of both       *)
(* certificates; the frees skip NULL.  HITLS_Close changes no handle.      *)
(***************************************************************************)
ExitReleases ==
  SelectSeq(<<"ctx", "config", "fd", "root", "sub">>, LAMBDA r : set[r])

Exit ==
  /\ pc = "exit"
  /\ LET st == ReleaseSeq(ExitReleases)
     IN  live' = st.live /\ overReleased' = st.over
  /\ pc' = "done"
  /\ UNCHANGED <<set, ctxHolds, store, exitValue>>

Init ==
  /\ pc = "socket"
  /\ live = [r \in Res |-> 0]
  /\ set = [r \in Res |-> FALSE]
  /\ ctxHolds = {}
  /\ store = [c \in Certs |-> "none"]
  /\ exitValue = -1
  /\ overReleased = {}
  /\ newUpRef \in BOOLEAN

Next ==
  \/ Socket \/ SetSockOpt \/ Connect \/ NewTLS12Config \/ SetCheckKeyUsage
  \/ \E c \in Certs : CertParseFile(c)
  \/ AddCertToStore \/ HitlsNew \/ UioNew \/ UioSetFd \/ SetUio
  \/ HitlsConnect \/ HitlsWrite \/ HitlsRead \/ Exit

Spec == Init /\ [][Next /\ UNCHANGED newUpRef]_vars

-----------------------------------------------------------------------------
(***************************************************************************)
(* No path through main() releases an object that has no reference left:  *)
(* the UIO freed on a failed SET_FD or HITLS_SetUio is not freed again by  *)
(* the cleanup block, and the certificates main frees at exit are not     *)
(* also freed with the config's store.                                     *)
(***************************************************************************)
NoDoubleRelease == overReleased = {}

(***************************************************************************)
(* When main() returns, on every path, the socket, config, ctx and both   *)
(* certificates have no reference left: the early return after a failed   *)
(* setsockopt closes the socket, and the cleanup block frees every other  *)
(* handle main holds, whatever the config's store and the ctx share.      *)
(***************************************************************************)
HandlesReleasedAtExit ==
  pc = "done" => \A r \in Res \ {"uio"} : live[r] = 0

(***************************************************************************)
(* When main() returns, the BSL_UIO has no reference left either.  After  *)
(* a successful HITLS_SetUio main keeps the reference BSL_UIO_New gave it  *)
(* and the cleanup block has no BSL_UIO_Free, while the test harness,     *)
(* with the same HITLS_SetUio contract, frees that reference at           *)
(* hitls_func.c:603-604.                                                   *)
(***************************************************************************)
UioReleasedAtExit == pc = "done" => live["uio"] = 0
=============================================================================
