------------------------------- MODULE Stamper -------------------------------
(***************************************************************************)
(* The stamper's signing tool, `stamper sign` of bin/stamper.rs: it loads  *)
(* the issuer key from its file (KeyFile), builds a transaction (Build)    *)
(* and signs it (Wire), while other runs make and read keys; a node then   *)
(* mines what was signed, or does not.                                     *)
(*                                                                         *)
(* A request also has [coins, branch, expiry]: the coins it spends, whose  *)
(* values it may state wrongly, and what the node said of its chain.       *)
(***************************************************************************)
EXTENDS Build, KeyFile

CONSTANTS
  IssuerPath,       \* --key
  Worth(_),         \* what a coin is worth
  Owner(_),         \* the key that may spend it
  NodeBranch,       \* the consensus branch of the node that mines
  MaxSequence       \* 0xffffffff

(* The transaction, to be signed with key k, its inputs not signed yet. *)
Unsigned(k, r, res) ==
  [branch |-> r.branch, lockTime |-> 0, expiry |-> r.expiry,
   inputs |-> [i \in DOMAIN r.coins |->
                 [prevout |-> r.coins[i], sequence |-> MaxSequence, sig |-> None]],
   outputs |-> r.outputs \o
     IF res.change > 0
     THEN <<[value |-> res.change, script |-> PayTo(k)]>>
     ELSE << >>]

(* The coins as the request states them: all of key k's. *)
Stated(k, r) ==
  [i \in DOMAIN r.coins |-> [value |-> r.inputs[i], script |-> PayTo(k)]]

Signed(k, r, t) ==
  [t EXCEPT !.inputs = [i \in DOMAIN @ |->
     [@[i] EXCEPT !.sig = [by |-> k, over |-> SighashAll(t, i, Stated(k, r))]]]]

(* A request states a value for each coin; None is nothing the tool makes. *)
ASSUME StamperAssumption ==
  /\ IssuerPath \in Paths /\ None \notin Keys /\ None # [error |-> "no key"]
  /\ \A r \in Inputs :
       /\ DOMAIN r.coins = DOMAIN r.inputs
       /\ r.outputs \in Seq({r.outputs[i] : i \in DOMAIN r.outputs})
       /\ \A i \in DOMAIN r.outputs : r.outputs[i].value \in Nat
       /\ \A k \in Keys, res \in {WithChange(r), WithoutChange(r)} :
            Signed(k, r, Unsigned(k, r, res)) # None

VARIABLES
  signer,   \* the key that was loaded, None before that
  tx,       \* the transaction that was printed, else None
  mined     \* it is in the chain

stamperVars == <<vars, keyVars, signer, tx, mined>>

-----------------------------------------------------------------------------
StamperInit ==
  /\ Init /\ KeyInit
  /\ signer = None /\ tx = None /\ mined = FALSE

Load ==
  /\ signer = None /\ result = None
  /\ Loads(IssuerPath)
  /\ signer' = file[IssuerPath].key
  /\ UNCHANGED <<vars, keyVars, tx, mined>>

NoKey ==
  /\ signer = None /\ result = None
  /\ ~Loads(IssuerPath)
  /\ Fail("no key")
  /\ UNCHANGED <<keyVars, signer, tx, mined>>

(* The rest of build, once the amounts are known. *)
Signing(step) ==
  /\ signer # None
  /\ step
  /\ tx' = IF "fee" \in DOMAIN result'
           THEN Signed(signer, request, Unsigned(signer, request, result')) ELSE None
  /\ UNCHANGED <<keyVars, signer, mined>>

-----------------------------------------------------------------------------
(* The coins a transaction really spends. *)
Spends(t) ==
  [i \in DOMAIN t.inputs |->
     [value |-> Worth(t.inputs[i].prevout), script |-> PayTo(Owner(t.inputs[i].prevout))]]

Sum(values) == MapThenSumSet(LAMBDA i : values[i].value, DOMAIN values)

(* What a node takes: each coin once, signed for by its owner with what the
   node knows of the coins, and no more paid out than they are worth. *)
Valid(t) ==
  /\ t.branch = NodeBranch
  /\ \A i, j \in DOMAIN t.inputs :
       t.inputs[i].prevout = t.inputs[j].prevout => i = j
  /\ \A i \in DOMAIN t.inputs :
       t.inputs[i].sig = [by |-> Owner(t.inputs[i].prevout),
                          over |-> SighashAll(t, i, Spends(t))]
  /\ Sum(t.outputs) <= Sum(Spends(t)) /\ Sum(Spends(t)) < Word

Mine ==
  /\ tx # None /\ ~mined
  /\ Valid(tx)
  /\ mined' = TRUE
  /\ UNCHANGED <<vars, keyVars, signer, tx>>

StamperNext ==
  \/ KeyNext /\ UNCHANGED <<vars, signer, tx, mined>>
  \/ Load \/ NoKey
  \/ Signing(Refuse) \/ Signing(NotCovered)
  \/ Signing(MakeWithChange) \/ Signing(MakeWithout)
  \/ Mine

StamperSpec == StamperInit /\ [][StamperNext]_stamperVars
-----------------------------------------------------------------------------
(* What the tool must satisfy.                                             *)

(* Every variable has its type; nothing is built without a key, nothing mined
   that was not printed. *)
StamperTypeOK ==
  /\ TypeOK \/ result = [error |-> "no key"]
  /\ KeyTypeOK
  /\ signer \in Keys \cup {None}
  /\ tx # None <=> Built
  /\ Built => signer # None
  /\ mined \in BOOLEAN /\ (mined => tx # None)

(* What the tool prints is so once the transaction is mined, though the values
   of the coins were only stated and the key file is shared with other runs:
   the fee paid is the fee printed, every coin was the issuer's, the outputs
   are those asked for, and the change goes to a key that is still in its file. *)
MinedAsPrinted ==
  mined =>
    /\ Sum(Spends(tx)) - Sum(tx.outputs) = result.fee
    /\ \A i \in DOMAIN tx.inputs : Owner(tx.inputs[i].prevout) = signer
    /\ SubSeq(tx.outputs, 1, Len(request.outputs)) = request.outputs
    /\ Sum(tx.outputs) = Sum(request.outputs) + result.change
    /\ IssuerPath \in Kept /\ file[IssuerPath].key = signer

=============================================================================
