------------------------------ MODULE MC_AesCtr ------------------------------
(* AesCtr with a 6-bit low word (a call covers at most 3 blocks, as a     *)
(* uint32_t length covers at most 2^28 blocks of a 32-bit word) and a     *)
(* 1-bit upper part, so both the low wrap and the full wrap are reached.  *)
EXTENDS AesCtr
=============================================================================
