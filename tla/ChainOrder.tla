----------------------------- MODULE ChainOrder -----------------------------
(***************************************************************************)
(* What both ledgers of verifier/src/ledger.ts ask of a Zcash transaction  *)
(* before they look inside it: its place in the chain, and that the place  *)
(* is final.                                                               *)
(***************************************************************************)
EXTENDS Integers, Sequences

CONSTANTS
  Confirmations,  \* params.zcash.confirmations
  None            \* an absent value (null, undefined)

(* Chain order: by height, a transaction that is not mined after all mined
   ones, then by position in the block. *)
Before(y, z) ==
  \/ y.height # None /\ z.height = None
  \/ y.height # None /\ z.height # None /\ y.height < z.height
  \/ y.height = z.height /\ y.index < z.index

(* Z1 *)
Final(z) == z.height # None /\ z.confirmations >= Confirmations

=============================================================================
