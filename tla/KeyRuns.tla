------------------------------- MODULE KeyRuns -------------------------------
(***************************************************************************)
(* The runs of consecutive inputs of one key that a payout stamp spends,   *)
(* as buildPayoutLedger (verifier/src/ledger.ts) and shape_of              *)
(* (payout/proof.rs) split its inputs into them.  keys is the key of each  *)
(* input.                                                                  *)
(***************************************************************************)
EXTENDS Naturals, FiniteSets

(* The inputs at which the key changes. *)
RunStarts(keys) == {i \in DOMAIN keys : i = 1 \/ keys[i] # keys[i - 1]}

(* Which run input i is in. *)
RunAt(keys, i) == Cardinality({s \in RunStarts(keys) : s <= i})

(* The key of each run. *)
RunKeys(keys) ==
  [j \in 1..Cardinality(RunStarts(keys)) |->
     keys[CHOOSE i \in DOMAIN keys : RunAt(keys, i) = j]]

(* The inputs of the j-th run. *)
RunInputs(keys, j) == {i \in DOMAIN keys : RunAt(keys, i) = j}

=============================================================================
