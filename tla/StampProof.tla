----------------------------- MODULE StampProof ------------------------------
(***************************************************************************)
(* Stamp proofs, as stamper-core makes and checks them from a              *)
(* transaction's bytes alone: private/proof.rs (splg-proof:1, a private    *)
(* stamp) and payout/proof.rs (splg-proof:2, a payout stamp).  Nothing     *)
(* here has state; CheckProof.tla is the verifier's command around it.     *)
(*                                                                         *)
(* What a transaction's bytes say is a record                              *)
(*   [txid, version, parses, intoPool, otherPool                           *)
(*                     as in StampRules                                    *)
(*    outputs          a sequence of [value, script] of Wire               *)
(*    inputs           a sequence of [form, key, over]: how its two pushes *)
(*                     are written, the hash of the key pushed (None if    *)
(*                     the input is nothing of the kind) and the digest    *)
(*                     that the signature pushed is one of by that key     *)
(*                     (None: of nothing)                                  *)
(*    notes]           of its Ironwood actions, in order, each             *)
(*                     [receiver, value, rseed, memo]                      *)
(* The form is "plain" for two pushes of the lengths signatures and keys   *)
(* have, "long" if the first is longer or shorter than any signature,      *)
(* "pushdata" if its length is in a byte of its own, else "other".         *)
(* A memo is a text as in Receipts.  The txid stands for everything but    *)
(* the inputs' two pushes, which it does not cover.                        *)
(*                                                                         *)
(* A proof is [kind, txid, pool, action, receiver, value, rseed, account,  *)
(* index]; account and index are of a payout stamp.                        *)
(***************************************************************************)
EXTENDS StampRules, PayoutRules, Receipts, Wire

CONSTANTS
  Hash,       \* signature -> its hash in a record (sha256, cut to 18 bytes)
  MaxIndex,   \* MAX_INDEX, the largest order index
  MaxAction   \* the last action that a byte can name

(* Two signatures do not share a hash. *)
ASSUME HashAssumption == IsInjective(Hash)

(* exit_hash of exit_id, for a signature or a name. *)
ExitHash(s) == Hash[s]

(* input_key_hashes, input_keys: the key of each input, None for one that is
   not two pushes. *)
KeysOf(b) ==
  [i \in DOMAIN b.inputs |->
     IF b.inputs[i].form \in {"plain", "long"} THEN b.inputs[i].key ELSE None]

(* The OP_RETURN scripts, in any order as only a lone one is looked into, and
   the other outputs. *)
ReturnsOf(b) ==
  LET at == SetToSeq({i \in DOMAIN b.outputs : b.outputs[i].script.ops = "return"})
  IN  [n \in DOMAIN at |-> b.outputs[at[n]].script]

OthersOf(b) == {o \in Range(b.outputs) : o.script.ops # "return"}

(* The record a proof is read into, whichever kind it is of. *)
ProofOf(kind, b, a, account, index) ==
  [kind |-> kind, txid |-> b.txid, pool |-> "ironwood", action |-> a,
   receiver |-> b.notes[a].receiver, value |-> b.notes[a].value,
   rseed |-> b.notes[a].rseed, account |-> account, index |-> index]

(* Proof::decode and PayoutProof::decode. *)
DecodesStamp(p) == p.kind = "stamp"

DecodesPayout(p) == p.kind = "payout" /\ p.index <= MaxIndex

-----------------------------------------------------------------------------
(* What the library this code calls does: the named action's note is the   *)
(* one the proof opens.                                                    *)
Delivers(b, p) ==
  /\ p.action \in DOMAIN b.notes
  /\ LET n == b.notes[p.action]
     IN  n.receiver = p.receiver /\ n.value = p.value /\ n.rseed = p.rseed

(* What input i of a transaction signs, given the values of all the coins the
   inputs spend and the keys they pay (ZIP 244). *)
Digest(txid, i, values, keys) == <<txid, i, values, keys>>

(* A slip: an input speaks for the key it names. *)
Claims(b, values) ==
  Len(values) = Len(b.inputs) /\ None \notin Range(KeysOf(b))

(* sig::verify: the coins are taken to pay the keys that are pushed. *)
Pushed(b) == [i \in DOMAIN b.inputs |-> b.inputs[i].key]

Verifies(b, values) ==
  /\ Len(values) = Len(b.inputs)
  /\ \A i \in DOMAIN b.inputs :
       /\ b.inputs[i].form = "plain"
       /\ b.inputs[i].over = Digest(b.txid, i, values, Pushed(b))

-----------------------------------------------------------------------------
(* Private stamps.                                                         *)

(* issuers_from_params *)
AllIssuers == {i.hash : i \in Issuers}

(* stamp_shape *)
StampShape(b, issuers) ==
  /\ ~b.otherPool
  /\ b.intoPool = Postage
  /\ b.inputs # << >> /\ Range(KeysOf(b)) \subseteq issuers
  /\ \A o \in OthersOf(b) : ScriptKind(o.script) = "P2PKH" /\ o.script.to \in issuers
  /\ Len(ReturnsOf(b)) = 1 /\ RecordHash(ReturnsOf(b)[1]) # << >>

(* check.  values are those of the spent coins (None: not given, and then no
   signature is verified). *)
ChecksStamp(b, p, issuers, values) ==
  /\ issuers # {}
  /\ b.parses /\ b.txid = p.txid
  /\ p.pool = "ironwood" /\ p.value = Postage
  /\ StampShape(b, issuers)
  /\ values = None \/ Verifies(b, values)
  /\ Delivers(b, p)
  /\ LET receipt == ParseStamp(b.notes[p.action].memo)
     IN  /\ receipt # None
         /\ RecordHash(ReturnsOf(b)[1]) = <<ExitHash(receipt.signature)>>

(* make: of the notes a viewing key finds, the first worth the postage. *)
MakesStamp(b, mine) ==
  LET found == {a \in DOMAIN b.notes :
                  b.notes[a].receiver \in mine /\ b.notes[a].value = Postage}
  IN  IF b.intoPool = None \/ found = {} \/ Min(found) > MaxAction THEN {}
      ELSE {ProofOf("stamp", b, Min(found), 0, 0)}

-----------------------------------------------------------------------------
(* Payout stamps.                                                          *)

(* The exits its record names. *)
Named(b) == ParseV3Script(b.outputs[1].script)

(* shape_of *)
PayoutShape(b) ==
  /\ ~b.otherPool
  /\ b.intoPool # None /\ b.intoPool > 0
  /\ Len(b.outputs) = 1 /\ Named(b) # << >>
  /\ IsInjective(Named(b)) /\ Len(Named(b)) <= Len(b.notes)
  /\ None \notin Range(KeysOf(b))
  /\ IsInjective(RunKeys(KeysOf(b)))
  /\ Len(RunKeys(KeysOf(b))) = Len(Named(b))

(* order_pubkey: no two orders have one key, whatever the exit keys. *)
OrderPubkey(k, index) == <<k.key, index>>

(* The key of run j is that of the proof's order, under one of the keys. *)
AnyoneOrdered(b, p, keys, j) == TRUE   \* a slip

Ordered(b, p, keys, j) ==
  \E k \in keys :
    k.account = p.account /\ RunKeys(KeysOf(b))[j] = OrderPubkey(k, p.index)

(* The value of the coins run j spends; a slip: of all the coins. *)
AllCoins(b, values, j) == SumFunctionOnSet(values, DOMAIN b.inputs)

Coins(b, values, j) == SumFunctionOnSet(values, RunInputs(KeysOf(b), j))

(* check.  Without the values of the spent coins neither the signatures nor
   the bridged amount are verified. *)
ChecksPayout(b, p, keys, values) ==
  /\ \E k \in keys : k.account = p.account
  /\ b.parses /\ b.txid = p.txid
  /\ p.pool = "ironwood"
  /\ PayoutShape(b)
  /\ values = None \/ Verifies(b, values)
  /\ Delivers(b, p)
  /\ LET receipt == ParsePayout(b.notes[p.action].memo)
     IN  /\ receipt # None /\ receipt.received = p.value
         /\ \E j \in DOMAIN Named(b) :
              /\ Named(b)[j] = ExitHash(receipt.signature)
              /\ Ordered(b, p, keys, j)
              /\ values = None \/ receipt.bridged = Coins(b, values, j)

(* make: of the notes a viewing key finds, the first with a receipt of this
   kind, whatever exit it is of; the account and the index are the caller's. *)
MakesPayout(b, mine, account, index) ==
  LET found == {a \in DOMAIN b.notes :
                  /\ b.notes[a].receiver \in mine
                  /\ ParsePayout(b.notes[a].memo) # None}
  IN  IF index > MaxIndex \/ b.intoPool = None \/ found = {} THEN {}
      ELSE {ProofOf("payout", b, Min(found), account, index)}

=============================================================================
