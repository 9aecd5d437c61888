---------------------------- MODULE AesCtrCounter ----------------------------
(***************************************************************************)
(* What CTR mode promises its caller: one counter of the full width.       *)
(* The data of all calls since the IV was set is one stream; byte p of it  *)
(* is XORed with the keystream of counter ctr0 + (p-1) div 16.  Between    *)
(* calls the context remembers where the stream stopped: `ctr` is the      *)
(* counter of the next block not yet encrypted and `pending` the bytes of  *)
(* the last encrypted block not yet used.  A call with no work leaves it  *)
(* as it was.                                                              *)
(***************************************************************************)
EXTENDS Integers, Sequences

CONSTANTS
  CtrMod,     \* 2^128 in the code
  Starts,     \* counters an IV may hold
  Lens,       \* lengths a caller passes
  MaxBytes    \* bound on the bytes processed in one behaviour

VARIABLES ctr0, stream, ctr, pending

BlockSize == 16

\* The counter whose keystream encrypts byte p of the stream.
CounterOfByte(p) == (ctr0 + (p - 1) \div BlockSize) % CtrMod

Init ==
  /\ ctr0 \in Starts
  /\ stream = <<>>
  /\ ctr = ctr0
  /\ pending = 0

\* Encrypt or decrypt len more bytes of the stream.
Process(len) ==
  LET pos == Len(stream) + len
  IN /\ pos <= MaxBytes
     /\ stream' = stream \o [i \in 1..len |-> CounterOfByte(Len(stream) + i)]
     /\ ctr' = (ctr0 + (pos + BlockSize - 1) \div BlockSize) % CtrMod
     /\ pending' = (BlockSize - (pos % BlockSize)) % BlockSize
     /\ UNCHANGED ctr0

Next == \E len \in Lens : Process(len)

Spec == Init /\ [][Next]_<<ctr0, stream, ctr, pending>>
=============================================================================
