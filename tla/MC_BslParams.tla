---------------------------- MODULE MC_BslParams ----------------------------
(* Instantiates BslParams for TLC: two caller buffers of 1 and 2 bytes,    *)
(* uint32_t scaled to 2 bytes, field sets chosen per run.                  *)
EXTENDS BslParams

MC_Cap == [b \in Buffers |-> IF b = "b1" THEN 1 ELSE 2]

\* Two fields with distinct keys.
MC_Fields == {"RSA_N", "KDF_SALT"}
\* Two fields that crypt_params_type.h gives the same key.
MC_CollidingFields == {"RAND_SEEDCTX", "CURVE25519_PUBKEY"}
=============================================================================
