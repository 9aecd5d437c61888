--------------------------- MODULE ProviderCatalog ---------------------------
(***************************************************************************)
(* What the provider framework promises a caller, with loading, init and  *)
(* free collapsed into single steps: a catalogue of registered providers  *)
(* in registration order.  A provider is registered at most once, and is  *)
(* deregistered only when no context the caller holds came from it.  A    *)
(* context is created from the first registered provider whose QUERY     *)
(* answer has the category and algId, and is released by the caller.     *)
(* ProviderRegistry is checked to implement this specification.           *)
(***************************************************************************)
EXTENDS Sequences, SequencesExt

CONSTANTS
  Providers,  \* provider libraries
  Has,        \* Has[p]: the <<operaId, algId>> pairs p's QUERY answers
  CtxIds,     \* context slots of the caller
  NoCtx       \* an empty slot

VARIABLES
  reg,   \* the registered providers, in registration order
  held   \* each slot: NoCtx or [prov, op, alg]

Holds(p) == \E c \in CtxIds : held[c] # NoCtx /\ held[c].prov = p

\* The registered providers offering <<op, alg>>, earliest first.
Offering(op, alg) == SelectSeq(reg, LAMBDA p : <<op, alg>> \in Has[p])

Register(p) ==
  /\ p \notin Range(reg)
  /\ reg' = Append(reg, p)
  /\ UNCHANGED held

Deregister(p) ==
  /\ p \in Range(reg)
  /\ ~Holds(p)
  /\ reg' = Remove(reg, p)
  /\ UNCHANGED held

Create(c, op, alg) ==
  /\ held[c] = NoCtx
  /\ Offering(op, alg) # <<>>
  /\ held' = [held EXCEPT ![c] = [prov |-> Head(Offering(op, alg)),
                                  op |-> op, alg |-> alg]]
  /\ UNCHANGED reg

Release(c) ==
  /\ held[c] # NoCtx
  /\ held' = [held EXCEPT ![c] = NoCtx]
  /\ UNCHANGED reg

Init ==
  /\ reg = <<>>
  /\ held = [c \in CtxIds |-> NoCtx]

Next ==
  \/ \E p \in Providers : Register(p) \/ Deregister(p)
  \/ \E c \in CtxIds :
       \/ \E p \in Providers : \E pair \in Has[p] : Create(c, pair[1], pair[2])
       \/ Release(c)

Spec == Init /\ [][Next]_<<reg, held>>
=============================================================================
