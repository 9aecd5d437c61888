------------------------- MODULE MC_ProviderRegistry -------------------------
(* Two providers that both offer HASH algorithm 1, so that registration   *)
(* order decides a lookup; p1 offers a key and SIGN for algorithm 1, p2   *)
(* a key for algorithm 1 with no SIGN table (so a key of p2 meets a SIGN   *)
(* table of p1) and a HASH table for algorithm 2 without its CTRL         *)
(* callback.  No provider offers a key for algorithm 2.                   *)
EXTENDS ProviderRegistry

CONSTANTS p1, p2, c1, c2

Full(op) == CmdCodes[op]

MC_Offers ==
  [p \in {p1, p2} |->
     IF p = p1
     THEN { [op |-> CRYPT_EAL_OPERAID_HASH, alg |-> 1, cmds |-> Full(7)],
            [op |-> CRYPT_EAL_OPERAID_KEYMGMT, alg |-> 1, cmds |-> Full(2)],
            [op |-> CRYPT_EAL_OPERAID_SIGN, alg |-> 1, cmds |-> Full(3)] }
     ELSE { [op |-> CRYPT_EAL_OPERAID_HASH, alg |-> 1, cmds |-> Full(7)],
            [op |-> CRYPT_EAL_OPERAID_HASH, alg |-> 2, cmds |-> Full(7) \ {7}],
            [op |-> CRYPT_EAL_OPERAID_KEYMGMT, alg |-> 1, cmds |-> Full(2)] }]
=============================================================================
