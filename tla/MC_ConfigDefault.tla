--------------------------- MODULE MC_ConfigDefault ---------------------------
(* ConfigDefault with the scheme lists CFG_GetSignSchemeList may return   *)
(* bounded to at most two entries over the modelled schemes: the empty    *)
(* list (the Calloc(0) case), and lists with a deprecated scheme before,   *)
(* after or instead of an allowed one.                                     *)
EXTENDS ConfigDefault

MC_SchemeLists ==
  {<<>>} \cup {<<s>> : s \in Schemes} \cup {<<s, t>> : s, t \in Schemes}
=============================================================================
