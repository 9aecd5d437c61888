--------------------------- MODULE MC_CertMethod ---------------------------
(* Instantiates CertMethod for TLC: two complete method tables, one that   *)
(* IsMethodValid rejects, two manager contexts and two object slots.       *)
EXTENDS CertMethod

\* Every SAL call of the module.
MC_AllOps == {"Register", "Deinit", "Dup"} \cup DOMAIN UseOps
\* Every call but the reset of the global table.
MC_NoDeinit == MC_AllOps \ {"Deinit"}
=============================================================================
