---------------------------- MODULE MC_TlsHarness ----------------------------
(* TlsHarness with a two-entry table and list strings that reach every    *)
(* branch of HitlsSetCtx and HitlsSetConfig: skipped, one entry, two      *)
(* entries, an unknown entry, adjacent names, a leading delimiter and one *)
(* entry too many for a two-entry array.                                  *)
EXTENDS TlsHarness

MC_Known == [A |-> "CIPHER_A", B |-> "CIPHER_B"]

MC_Names ==
  { <<>>, <<"NULL">>, <<"A">>, <<"A", ":", "B">>, <<"A", "B">>,
    <<":", "A">>, <<"A", ":", "A", ":", "B">>, <<"Z">> }

\* Only the CIPHER list set, to each of the strings above, with no version
\* range; then a range up to TLS 1.3 with a GROUPS list, a TLS 1.2 range
\* whose first list fails before the CIPHER one, and a range with only the
\* upper bound, which HitlsSetCtx ignores.
Lists(pf, cs, gr, sg) == [POINTFORMAT |-> pf, CIPHER |-> cs, GROUPS |-> gr, SIGNATURE |-> sg]
Off == <<"NULL">>

MC_CtxInputs ==
  { [minV |-> NoVersion, maxV |-> NoVersion, lists |-> Lists(Off, n, Off, Off)] : n \in MC_Names }
  \cup
  { [minV |-> "TLS12", maxV |-> TLS13, lists |-> Lists(Off, Off, <<"A">>, Off)],
    [minV |-> "TLS12", maxV |-> "TLS12", lists |-> Lists(<<"Z">>, <<"A">>, Off, Off)],
    [minV |-> NoVersion, maxV |-> "TLS12", lists |-> Lists(Off, Off, Off, <<"A", ":", "B">>)] }
=============================================================================
