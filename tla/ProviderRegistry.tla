--------------------------- MODULE ProviderRegistry ---------------------------
(***************************************************************************)
(* The provider framework behind src/include/crypto/crypt_eal_implprovider.h: *)
(* providers are loaded (their CRYPT_EAL_ImplProviderInit runs and hands   *)
(* back provCtx and the FREE/QUERY/CTRL callbacks), answer QUERY with the  *)
(* algorithms they implement per operation category, and are unloaded     *)
(* (the FREE callback runs).  Callers look an algorithm up by category    *)
(* and algId, create a context through the category's NEWCTX command,     *)
(* drive it with the category's other commands and end it with FREECTX.  *)
(* SIGN, ASYMCIPHER, KEYEXCH and KEM tables have no NEWCTX/FREECTX: they   *)
(* operate on a KEYMGMT context, through the table of the provider that   *)
(* created it.                                                              *)
(*                                                                         *)
(* The header gives the operation IDs, the command codes and the shape of *)
(* the tables; the registry that uses them is not in the repository and   *)
(* its behaviour is taken from the spec (sections 4.2 and 5): only Active *)
(* providers are visible, a lookup matches algId exactly within the       *)
(* category, the first-registered provider wins, a failed init leaves     *)
(* nothing registered, and (un)loading happens in a quiescent state.      *)
(***************************************************************************)
EXTENDS Integers, Sequences, SequencesExt, FiniteSetsExt, Functions

CONSTANTS
  Providers,  \* provider libraries that may be loaded
  AlgIds,     \* algorithm IDs a caller asks for
  Offers,     \* Offers[p]: what p's QUERY returns, as [op, alg, cmds] entries
  CtxIds,     \* algorithm contexts a caller may hold at once
  MaxLoads,   \* bound on the times one provider is loaded
  NoCtx       \* an unused context slot

\* Operation-category IDs.
CRYPT_EAL_OPERAID_SYMMCIPHER == 1
CRYPT_EAL_OPERAID_KEYMGMT    == 2
CRYPT_EAL_OPERAID_SIGN       == 3
CRYPT_EAL_OPERAID_ASYMCIPHER == 4
CRYPT_EAL_OPERAID_KEYEXCH    == 5
CRYPT_EAL_OPERAID_KEM        == 6
CRYPT_EAL_OPERAID_HASH       == 7
CRYPT_EAL_OPERAID_MAC        == 8
CRYPT_EAL_OPERAID_KDF        == 9
CRYPT_EAL_OPERAID_RAND       == 10
OperaIds == 1..10

\* The command codes of each category's function table.
CmdCodes ==
  [o \in OperaIds |->
     CASE o = CRYPT_EAL_OPERAID_SYMMCIPHER -> 1..7
       [] o = CRYPT_EAL_OPERAID_KEYMGMT    -> (1..12) \cup {15, 16}
       [] o = CRYPT_EAL_OPERAID_SIGN       -> 1..6
       [] o = CRYPT_EAL_OPERAID_ASYMCIPHER -> 1..3
       [] o = CRYPT_EAL_OPERAID_KEYEXCH    -> 1..2
       [] o = CRYPT_EAL_OPERAID_KEM        -> 1..3
       [] o = CRYPT_EAL_OPERAID_HASH       -> 1..8
       [] o = CRYPT_EAL_OPERAID_MAC        -> 1..7
       [] o = CRYPT_EAL_OPERAID_KDF        -> 1..6
       [] o = CRYPT_EAL_OPERAID_RAND       -> 1..7]

\* The categories with a context of their own, and their NEWCTX/FREECTX codes.
NewCtxCode  == [o \in {1, 2, 7, 8, 9, 10} |-> 1]
FreeCtxCode == (1 :> 7) @@ (2 :> 16) @@ (7 :> 8) @@ (8 :> 7) @@ (9 :> 6) @@ (10 :> 7)

\* The categories that run on a KEYMGMT context.
PkeyOperas == {CRYPT_EAL_OPERAID_SIGN, CRYPT_EAL_OPERAID_ASYMCIPHER,
               CRYPT_EAL_OPERAID_KEYEXCH, CRYPT_EAL_OPERAID_KEM}

NotFound == "AlgorithmNotFound"     \* no Active provider offers it
Structural == "ProviderStructural"  \* the table has no such callback

VARIABLES
  pstate,   \* each provider: Unloaded, Initializing, Active or Unloading
  order,    \* the Active providers in registration order
  provCtx,  \* whether a provider's provCtx is live
  inits,    \* successful CRYPT_EAL_ImplProviderInit calls per provider
  frees,    \* CRYPT_EAL_PROVCB_FREE calls per provider
  ctx,      \* each context slot: NoCtx or [prov, op, alg]
  call      \* the last command dispatched: [prov, op, alg, cmd, res]

vars == <<pstate, order, provCtx, inits, frees, ctx, call>>

-----------------------------------------------------------------------------
\* The entry of p's QUERY answer for category op and algorithm alg, if any.
Entry(p, op, alg) == {e \in Offers[p] : e.op = op /\ e.alg = alg}

(* The lookup: scan the Active providers in registration order and take   *)
(* the first whose QUERY answer for the category has the exact algId.     *)
RECURSIVE SelectFrom(_, _, _, _)
SelectFrom(seq, op, alg, i) ==
  IF i > Len(seq) THEN NotFound
  ELSE IF Entry(seq[i], op, alg) # {} THEN seq[i]
  ELSE SelectFrom(seq, op, alg, i + 1)

Select(op, alg) == SelectFrom(order, op, alg, 1)

\* Call command cmd of p's op table for alg.
Dispatch(p, op, alg, cmd) ==
  LET es == Entry(p, op, alg)
  IN [prov |-> p, op |-> op, alg |-> alg, cmd |-> cmd,
      res |-> CASE es = {}                            -> NotFound
                [] cmd \in (CHOOSE e \in es : TRUE).cmds -> "called"
                [] OTHER                                -> Structural]

LiveCtxOf(p) == {c \in CtxIds : ctx[c] # NoCtx /\ ctx[c].prov = p}

-----------------------------------------------------------------------------
(* Loading that registers the provider before its init has returned.     *)
ProviderLoad_Visible(p) ==
  /\ pstate[p] = "Unloaded"
  /\ inits[p] < MaxLoads
  /\ pstate' = [pstate EXCEPT ![p] = "Initializing"]
  /\ order' = Append(order, p)
  /\ UNCHANGED <<provCtx, inits, frees, ctx, call>>

(* Loading: the framework calls the provider's init function.             *)
ProviderLoad(p) ==
  /\ pstate[p] = "Unloaded"
  /\ inits[p] < MaxLoads
  /\ pstate' = [pstate EXCEPT ![p] = "Initializing"]
  /\ UNCHANGED <<order, provCtx, inits, frees, ctx, call>>

(* Init returns, with a failure path that calls the provider's FREE.      *)
ProviderInitReturn_FreeOnFail(p, ok) ==
  /\ pstate[p] = "Initializing"
  /\ IF ok
     THEN /\ pstate' = [pstate EXCEPT ![p] = "Active"]
          /\ order' = Append(order, p)
          /\ provCtx' = [provCtx EXCEPT ![p] = TRUE]
          /\ inits' = [inits EXCEPT ![p] = @ + 1]
          /\ UNCHANGED frees
     ELSE /\ pstate' = [pstate EXCEPT ![p] = "Unloaded"]
          /\ frees' = [frees EXCEPT ![p] = @ + 1]
          /\ UNCHANGED <<order, provCtx, inits>>
  /\ UNCHANGED <<ctx, call>>

(* Init returns: on success the provider becomes visible, last in the     *)
(* registration order; on failure nothing of it is registered.            *)
ProviderInitReturn(p, ok) ==
  /\ pstate[p] = "Initializing"
  /\ IF ok
     THEN /\ pstate' = [pstate EXCEPT ![p] = "Active"]
          /\ order' = Append(order, p)
          /\ provCtx' = [provCtx EXCEPT ![p] = TRUE]
          /\ inits' = [inits EXCEPT ![p] = @ + 1]
     ELSE /\ pstate' = [pstate EXCEPT ![p] = "Unloaded"]
          /\ UNCHANGED <<order, provCtx, inits>>
  /\ UNCHANGED <<frees, ctx, call>>

(* Unloading, a quiescent-state operation: no context created from the    *)
(* provider's tables is alive.  It leaves the registration order at once. *)
ProviderUnload(p) ==
  /\ pstate[p] = "Active"
  /\ LiveCtxOf(p) = {}
  /\ pstate' = [pstate EXCEPT ![p] = "Unloading"]
  /\ order' = Remove(order, p)
  /\ UNCHANGED <<provCtx, inits, frees, ctx, call>>

(* The FREE callback returns and releases provCtx.                        *)
ProviderFreeReturn(p) ==
  /\ pstate[p] = "Unloading"
  /\ pstate' = [pstate EXCEPT ![p] = "Unloaded"]
  /\ provCtx' = [provCtx EXCEPT ![p] = FALSE]
  /\ frees' = [frees EXCEPT ![p] = @ + 1]
  /\ UNCHANGED <<order, inits, ctx, call>>

-----------------------------------------------------------------------------
(* Creation that does not check the slot is free, dropping the context   *)
(* it held.                                                                 *)
NewCtx_NoSlotCheck(c, op, alg) ==
  /\ LET p == Select(op, alg)
     IN IF p = NotFound
        THEN /\ call' = [prov |-> NotFound, op |-> op, alg |-> alg,
                         cmd |-> NewCtxCode[op], res |-> NotFound]
             /\ UNCHANGED ctx
        ELSE /\ call' = Dispatch(p, op, alg, NewCtxCode[op])
             /\ ctx' = [ctx EXCEPT ![c] = [prov |-> p, op |-> op, alg |-> alg]]
  /\ UNCHANGED <<pstate, order, provCtx, inits, frees>>

(* Look the algorithm up and call NEWCTX of the table found; a failed     *)
(* lookup is reported and creates nothing.                                 *)
NewCtx(c, op, alg) ==
  /\ ctx[c] = NoCtx
  /\ LET p == Select(op, alg)
     IN IF p = NotFound
        THEN /\ call' = [prov |-> NotFound, op |-> op, alg |-> alg,
                         cmd |-> NewCtxCode[op], res |-> NotFound]
             /\ UNCHANGED ctx
        ELSE /\ call' = Dispatch(p, op, alg, NewCtxCode[op])
             /\ ctx' = [ctx EXCEPT ![c] = [prov |-> p, op |-> op, alg |-> alg]]
  /\ UNCHANGED <<pstate, order, provCtx, inits, frees>>

(* Any other command of the context's own table.                          *)
CtxCmd(c, cmd) ==
  /\ ctx[c] # NoCtx
  /\ cmd \in CmdCodes[ctx[c].op] \ {NewCtxCode[ctx[c].op], FreeCtxCode[ctx[c].op]}
  /\ call' = Dispatch(ctx[c].prov, ctx[c].op, ctx[c].alg, cmd)
  /\ UNCHANGED <<pstate, order, provCtx, inits, frees, ctx>>

(* A SIGN, ASYMCIPHER, KEYEXCH or KEM command on a KEYMGMT context, through *)
(* the table of the provider that created the key.                        *)
PkeyCmd(c, op, cmd) ==
  /\ ctx[c] # NoCtx
  /\ ctx[c].op = CRYPT_EAL_OPERAID_KEYMGMT
  /\ cmd \in CmdCodes[op]
  /\ call' = Dispatch(ctx[c].prov, op, ctx[c].alg, cmd)
  /\ UNCHANGED <<pstate, order, provCtx, inits, frees, ctx>>

FreeCtx(c) ==
  /\ ctx[c] # NoCtx
  /\ call' = Dispatch(ctx[c].prov, ctx[c].op, ctx[c].alg, FreeCtxCode[ctx[c].op])
  /\ ctx' = [ctx EXCEPT ![c] = NoCtx]
  /\ UNCHANGED <<pstate, order, provCtx, inits, frees>>

-----------------------------------------------------------------------------
Init ==
  /\ pstate = [p \in Providers |-> "Unloaded"]
  /\ order = <<>>
  /\ provCtx = [p \in Providers |-> FALSE]
  /\ inits = [p \in Providers |-> 0]
  /\ frees = [p \in Providers |-> 0]
  /\ ctx = [c \in CtxIds |-> NoCtx]
  /\ call = [prov |-> NotFound, op |-> 0, alg |-> 0, cmd |-> 0, res |-> NotFound]

Next ==
  \/ \E p \in Providers :
       \/ ProviderLoad(p)
       \/ \E ok \in BOOLEAN : ProviderInitReturn(p, ok)
       \/ ProviderUnload(p)
       \/ ProviderFreeReturn(p)
  \/ \E c \in CtxIds :
       \/ \E op \in DOMAIN NewCtxCode, alg \in AlgIds : NewCtx(c, op, alg)
       \/ \E cmd \in 1..16 : CtxCmd(c, cmd)
       \/ \E op \in PkeyOperas, cmd \in 1..6 : PkeyCmd(c, op, cmd)
       \/ FreeCtx(c)

Spec == Init /\ [][Next]_vars

-----------------------------------------------------------------------------
Active == {p \in Providers : pstate[p] = "Active"}

TypeOK ==
  /\ pstate \in [Providers -> {"Unloaded", "Initializing", "Active", "Unloading"}]
  /\ IsInjective(order) /\ Range(order) = Active
  /\ inits \in [Providers -> 0..MaxLoads] /\ frees \in [Providers -> 0..MaxLoads]
  /\ \A c \in CtxIds : ctx[c] = NoCtx \/ ctx[c].op \in DOMAIN NewCtxCode

(* Spec P7, exactly-once free: over any sequence of loads, failed inits   *)
(* and unloads, each provider's FREE callback has run once for every      *)
(* successful init except the current one, whose provCtx is live exactly  *)
(* while the provider is Active or being unloaded.                        *)
ProvFreedOncePerInit ==
  \A p \in Providers :
    /\ frees[p] + (IF provCtx[p] THEN 1 ELSE 0) = inits[p]
    /\ provCtx[p] <=> pstate[p] \in {"Active", "Unloading"}

(* The registry implements the catalogue its callers see: the Active     *)
(* providers in registration order are the registered ones, the contexts  *)
(* are the held ones, and loading, a failed init, FREE and every command   *)
(* on a live context are invisible steps.  So a provider is never         *)
(* registered twice, never leaves while a context of it is held, a slot    *)
(* is never overwritten, and a context always comes from the first        *)
(* registered provider offering it.                                        *)
Catalog == INSTANCE ProviderCatalog
             WITH Has  <- [p \in Providers |-> {<<e.op, e.alg>> : e \in Offers[p]}],
                  reg  <- order,
                  held <- ctx
ImplementsCatalog == Catalog!Spec

=============================================================================
