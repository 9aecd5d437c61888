------------------------------- MODULE AesCtr -------------------------------
(***************************************************************************)
(* The AES-CTR and AES-ECB block wrappers of src/crypto/modes/src/        *)
(* asm_aes_ctr.c and asm_aes_ecb.c.                                        *)
(*                                                                         *)
(* The 16-byte IV is a counter: the assembly routine CRYPT_AES_CTR_Encrypt *)
(* increments only its low 32 bits (wrapping), so AES_CTR_EncryptBlock    *)
(* splits a request where the low word wraps and carries into the upper   *)
(* 12 bytes itself.  Here the low word is W bits wide and the upper part H *)
(* bits; a call's length is W bits wide too, as len and the low word are   *)
(* both uint32_t, so one call never spans more than one wrap.             *)
(*                                                                         *)
(* The keystream is abstracted to the counter value each byte was XORed    *)
(* with: `stream[p]` is the counter of the block whose encryption gave     *)
(* byte p of all the data processed since the IV was set.  MODE_CTR_*,     *)
(* MODE_IncCounter and CRYPT_AES_CTR_Encrypt are outside the repository;   *)
(* they are modelled by the contract the code here relies on.             *)
(***************************************************************************)
EXTENDS Integers, Sequences

CONSTANTS
  W,          \* width of the low counter word and of len (32 in the code)
  H,          \* width of the upper part of the counter (96 in the code)
  IvLows,     \* low words the IV may start with
  IvHighs,    \* upper parts the IV may start with
  Lens,       \* lengths a caller passes
  MaxBytes,   \* bound on the bytes processed in one behaviour
  CiphCtxSet  \* ctx->ciphCtx is non-NULL (a key has been set)

BlockSize == 16
LowMod  == 2^W
HighMod == 2^H
CtrMod  == 2^(W + H)

CRYPT_SUCCESS            == "CRYPT_SUCCESS"
CRYPT_NULL_INPUT         == "CRYPT_NULL_INPUT"
CRYPT_MODE_ERR_INPUT_LEN == "CRYPT_MODE_ERR_INPUT_LEN"

VARIABLES
  iv,      \* ctx->iv as [hi, lo]
  offset,  \* ctx->offset: keystream bytes of ctx->buf not used yet
  buf,     \* the counter whose encryption is in ctx->buf
  stream,  \* the counter each processed byte was XORed with
  ctr0,    \* the counter the IV held when it was set
  ret      \* what the last call returned

vars == <<iv, offset, buf, stream, ctr0, ret>>

\* The IV as one number, the upper part most significant.
CtrOf(v) == v.hi * LowMod + v.lo

\* n bytes XORed with the keystream of counter c.
Bytes(c, n) == [i \in 1..n |-> c]

(* MODE_CTR_LastHandle: the first bytes use what is left of ctx->buf.     *)
MODE_CTR_LastHandle(st, len) ==
  LET n == IF len < st.offset THEN len ELSE st.offset
  IN [st EXCEPT !.offset = @ - n, !.stream = @ \o Bytes(st.buf, n), !.done = n]

(* MODE_IncCounter over the upper 12 bytes: a big-endian increment that   *)
(* wraps.  A variant that forgets the wrap of the top byte.              *)
IncHigh_NoWrap(hi) == hi + 1

IncHigh(hi) == (hi + 1) % HighMod

(* CRYPT_AES_CTR_Encrypt of `blocks` blocks: block k uses the IV with its *)
(* low word increased by k, wrapping without carry; the IV written back   *)
(* has its low word increased by `blocks`.                                 *)
CRYPT_AES_CTR_Encrypt(st, blocks) ==
  [st EXCEPT !.stream = @ \o [i \in 1..blocks * BlockSize |->
                                st.iv.hi * LowMod
                                  + ((st.iv.lo + (i - 1) \div BlockSize) % LowMod)],
             !.iv.lo = (@ + blocks) % LowMod]

(* One pass of the while loop of AES_CTR_EncryptBlock with a variant that *)
(* does not stop the pass at the wrap of the low word.                   *)
CtrPass_NoSplit(st, left) ==
  LET blocks == left \div BlockSize
      beCtr  == (st.iv.lo + blocks) % LowMod
      s1     == CRYPT_AES_CTR_Encrypt(st, blocks)
  IN [IF beCtr = 0 THEN [s1 EXCEPT !.iv.hi = IncHigh(@)] ELSE s1
        EXCEPT !.left = left - blocks * BlockSize]

(* One pass of the while loop: as many blocks as fit, cut at the wrap of  *)
(* the low word (`beCtr32 < blocks`); a pass that ends on the wrap        *)
(* carries into the upper part.                                            *)
CtrPass(st, left) ==
  LET whole  == left \div BlockSize
      sum    == (st.iv.lo + whole) % LowMod
      blocks == IF sum < whole THEN whole - sum ELSE whole
      beCtr  == IF sum < whole THEN 0 ELSE sum
      s1     == CRYPT_AES_CTR_Encrypt(st, blocks)
  IN [IF beCtr = 0 THEN [s1 EXCEPT !.iv.hi = IncHigh(@)] ELSE s1
        EXCEPT !.left = left - blocks * BlockSize]

(* The while loop, while a whole block is left.                           *)
RECURSIVE CtrLoop(_)
CtrLoop(st) ==
  IF st.left >= BlockSize THEN CtrLoop(CtrPass(st, st.left)) ELSE st

(* MODE_CTR_RemHandle with a variant that fills ctx->buf but leaves the   *)
(* IV on the block it just encrypted.                                     *)
MODE_CTR_RemHandle_NoInc(st) ==
  IF st.left = 0 THEN st
  ELSE [st EXCEPT !.buf = CtrOf(st.iv),
                  !.stream = @ \o Bytes(CtrOf(st.iv), st.left),
                  !.offset = BlockSize - st.left]

(* MODE_CTR_RemHandle: a tail shorter than a block encrypts the IV into   *)
(* ctx->buf, increments the whole counter and keeps the unused bytes.     *)
MODE_CTR_RemHandle(st) ==
  IF st.left = 0 THEN st
  ELSE LET c == CtrOf(st.iv)
       IN [st EXCEPT !.buf = c,
                     !.iv = [hi |-> ((c + 1) \div LowMod) % HighMod,
                             lo |-> (c + 1) % LowMod],
                     !.stream = @ \o Bytes(c, st.left),
                     !.offset = BlockSize - st.left]

(* AES_CTR_EncryptBlock (and AES_CTR_DecryptBlock, which calls it).        *)
AES_CTR_EncryptBlock(len) ==
  /\ Len(stream) + len <= MaxBytes
  /\ IF ~CiphCtxSet \/ len = 0
     THEN /\ ret' = CRYPT_NULL_INPUT
          /\ UNCHANGED <<iv, offset, buf, stream, ctr0>>
     ELSE LET s0 == [iv |-> iv, offset |-> offset, buf |-> buf,
                     stream |-> stream, done |-> 0, left |-> 0]
              s1 == MODE_CTR_LastHandle(s0, len)
              s2 == CtrLoop([s1 EXCEPT !.left = len - s1.done])
              s3 == MODE_CTR_RemHandle(s2)
          IN /\ iv' = s3.iv
             /\ offset' = s3.offset
             /\ buf' = s3.buf
             /\ stream' = s3.stream
             /\ ret' = CRYPT_SUCCESS
             /\ UNCHANGED ctr0

AES_CTR_DecryptBlock(len) == AES_CTR_EncryptBlock(len)

(* AES_ECB_EncryptBlock / AES_ECB_DecryptBlock: whole blocks only; ECB    *)
(* leaves the counter state alone.                                         *)
AES_ECB_Block(len) ==
  /\ ret' = CASE ~CiphCtxSet             -> CRYPT_NULL_INPUT
              [] len % BlockSize # 0     -> CRYPT_MODE_ERR_INPUT_LEN
              [] OTHER                   -> CRYPT_SUCCESS
  /\ UNCHANGED <<iv, offset, buf, stream, ctr0>>

-----------------------------------------------------------------------------
(* A context whose IV has just been set: no buffered keystream.           *)
Init ==
  /\ iv \in [hi : IvHighs, lo : IvLows]
  /\ offset = 0
  /\ buf = 0
  /\ stream = <<>>
  /\ ctr0 = CtrOf(iv)
  /\ ret = CRYPT_SUCCESS

Next ==
  \E len \in Lens :
    \/ AES_CTR_EncryptBlock(len)
    \/ AES_CTR_DecryptBlock(len)
    \/ AES_ECB_Block(len)

Spec == Init /\ [][Next]_vars

-----------------------------------------------------------------------------
TypeOK ==
  /\ iv \in [hi : 0..HighMod - 1, lo : 0..LowMod - 1]
  /\ offset \in 0..BlockSize - 1
  /\ buf \in 0..CtrMod - 1
  /\ stream \in Seq(0..CtrMod - 1)

(* AES_CTR_EncryptBlock implements one full-width counter: the IV between *)
(* calls is the counter of the next unused block and ctx->offset the      *)
(* bytes of the buffered block still to use, so that a caller may split    *)
(* its data at any byte; ECB and rejected calls leave the counter alone.  *)
Counter == INSTANCE AesCtrCounter WITH
  Starts  <- {h * LowMod + l : h \in IvHighs, l \in IvLows},
  ctr     <- CtrOf(iv),
  pending <- offset

OneCounter == Counter!Spec

(* Whatever the split of the data into calls, and wherever the low 32 bits *)
(* of the counter wrap, byte p of the data is XORed with the keystream of *)
(* the counter the IV started at plus p div 16, modulo the full counter   *)
(* width: the wrap-splitting loop, the carry into the upper bytes and the  *)
(* partial-block buffer together behave like one 128-bit counter, so no   *)
(* keystream block is used twice.                                         *)
CounterStreamMatches ==
  \A p \in 1..Len(stream) :
    stream[p] = (ctr0 + (p - 1) \div BlockSize) % CtrMod

=============================================================================
