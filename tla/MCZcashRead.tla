----------------------------- MODULE MCZcashRead ----------------------------
(***************************************************************************)
(* ZcashRead and OrderScan with two transactions, two confirmations, and   *)
(* reorganizations of one block.  Among the payouts, t1 does not parse and *)
(* touches the first order of an exit key since retired; t2 spends that    *)
(* key's third order and pays the first order of the key that follows.  A  *)
(* batch is two addresses, so t2 is beyond a gap if t1 is not mined.       *)
(***************************************************************************)
EXTENDS OrderScan, TLC

CONSTANTS t1, t2

MCKeys == <<[from |-> 2, to |-> 3], [from |-> 3, to |-> None]>>

MCTouches == t1 :> {<<1, 0>>} @@ t2 :> {<<1, 2>>, <<2, 0>>}

MCSpends == t1 :> None @@ t2 :> {<<1, 2>>}

=============================================================================
