---------------------------- MODULE PrivateBuild -----------------------------
(***************************************************************************)
(* build_private of stamper-core/src/private/build.rs: the transaction of  *)
(* a private stamp, as StampProof reads transactions, or a refusal; and    *)
(* the seal of private/seal.rs that its receiver comes in.  Nothing here   *)
(* has state.                                                              *)
(*                                                                         *)
(* A request to the builder is                                             *)
(*   [branch, ours     the consensus branch the node names, and the one    *)
(*                     the library has for the target height, which is     *)
(*                     ironwood or not                                     *)
(*    ironwood                                                             *)
(*    target, expiry   heights                                             *)
(*    marginal         zatoshi per logical action                          *)
(*    issuer, coin     the key of the coin spent, and its value            *)
(*    receipt          of a harvest, as in Receipts, not checked yet       *)
(*    sealed           as in the memo of the harvest                       *)
(*    kid, holder      the request key it is said to be sealed to, and the *)
(*                     wallet of the harvest                               *)
(*    key].            the request key in the stamper's file               *)
(*                                                                         *)
(* Sealed bytes are [key, kid, holder, type, receiver]: the key whose      *)
(* owner can open them, what they are bound to and what is inside, a       *)
(* receiver that is None being no point of the curve; or None, if they     *)
(* have another length or were changed.                                    *)
(***************************************************************************)
EXTENDS StampProof

CONSTANT
  Dust    \* DUST

-----------------------------------------------------------------------------
(* seal, as the site does it in the browser. *)
Seal(key, kid, holder, receiver) ==
  [key |-> key, kid |-> kid, holder |-> holder, type |-> "orchard",
   receiver |-> receiver]

(* RequestKey::open and open_receiver: the receiver, None if undeliverable. *)
Open(key, kid, holder, sealed) ==
  IF /\ sealed # None
     /\ sealed.key = key /\ sealed.kid = kid /\ sealed.holder = holder
     /\ sealed.type = "orchard"
  THEN sealed.receiver ELSE None

ReceiverOf(r) == Open(r.key, r.kid, r.holder, r.sealed)

(* The library's builder charges four logical actions for one coin, the
   record, the change and two Ironwood actions. *)
BuildFee(r) == 4 * r.marginal

BuildChange(r) == r.coin - (Postage + BuildFee(r))

Refuses(r) ==
  \/ r.marginal = 0
  \/ r.expiry <= r.target
  \/ r.receipt.fee > r.receipt.harvested \/ ~StampReceiptOk(r.receipt)
  \/ ReceiverOf(r) = None
  \/ r.branch # r.ours \/ ~r.ironwood
  \/ BuildChange(r) < Dust

(* The postage to the receiver, with the receipt and no way to tell whose it
   is, among the library's padding in any order. *)
BuildNotes(r) ==
  LET note == [receiver |-> ReceiverOf(r), value |-> Postage, rseed |-> 1,
               memo |-> StampText(r.receipt)]
      padding == [receiver |-> None, value |-> 0, rseed |-> 2, memo |-> None]
  IN  {<<note, padding>>, <<padding, note>>}

(* The transactions built for r under a txid of its own, signed. *)
Builds(r, txid) ==
  IF Refuses(r) THEN {}
  ELSE {[txid |-> txid, version |-> 6, parses |-> TRUE,
         inputs |-> <<[form |-> "plain", key |-> r.issuer,
                       over |-> <<txid, 1, <<r.coin>>, <<r.issuer>>>>]>>,
         outputs |-> <<[value |-> 0, script |-> RecordV2Script(ExitHash(r.receipt.signature))],
                       [value |-> BuildChange(r), script |-> PayTo(r.issuer)]>>,
         intoPool |-> Postage, otherPool |-> FALSE, notes |-> n] :
        n \in BuildNotes(r)}

=============================================================================
