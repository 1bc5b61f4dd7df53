-------------------------------- MODULE Wire ---------------------------------
(***************************************************************************)
(* The bytes of transactions and of records, as stamper-core writes and    *)
(* reads them: tx.rs, record.rs and the scripts of address.rs; and, at the *)
(* end, as the verifier reads them.  Pure operators.                       *)
(*                                                                         *)
(* A transaction is [branch, lockTime, expiry, inputs, outputs], an input  *)
(* [prevout, sequence, ..] and an output [value, script].                  *)
(* A script is [ops, length, ..]: the opcodes it is framed in, "p2pkh",    *)
(* "p2sh", "return" (it begins with OP_RETURN) or "other", and its length. *)
(* One that pays a key hash has it as `to`; of an OP_RETURN, push holds    *)
(* the bytes between the opcode and the data.  Data is                     *)
(* [version, hashes, extra]: the version after the tag (0: no such tag),   *)
(* as many hashes of 18 bytes as fit, and the bytes that are left.         *)
(* A digest is the pair of its personalization and of what it covers:      *)
(* distinct data have distinct digests, as every part has a fixed length   *)
(* or its length before it.                                                *)
(***************************************************************************)
EXTENDS Integers, Sequences

-----------------------------------------------------------------------------
(* Scripts.                                                                *)

PayTo(h) == [ops |-> "p2pkh", length |-> 25, to |-> h]

ScriptKind(s) ==
  CASE s.ops = "p2pkh" /\ s.length = 25 -> "P2PKH"
    [] s.ops = "p2sh" /\ s.length = 23 -> "P2SH"
    [] s.ops = "return" -> "OP_RETURN"
    [] OTHER -> "other"

-----------------------------------------------------------------------------
(* Transaction ids and signature digests (ZIP 244).                        *)

Blake2b(personal, data) == <<personal, data>>

HeaderDigest(t) == Blake2b("ZTxIdHeadersHash", <<t.branch, t.lockTime, t.expiry>>)

PrevoutsDigest(t) ==
  Blake2b("ZTxIdPrevoutHash", [i \in DOMAIN t.inputs |-> t.inputs[i].prevout])

SequenceDigest(t) ==
  Blake2b("ZTxIdSequencHash", [i \in DOMAIN t.inputs |-> t.inputs[i].sequence])

OutputsDigest(t) == Blake2b("ZTxIdOutputsHash", t.outputs)

TransparentDigest(t) ==
  Blake2b("ZTxIdTranspaHash",
         IF t.inputs = << >> /\ t.outputs = << >> THEN << >>
         ELSE <<PrevoutsDigest(t), SequenceDigest(t), OutputsDigest(t)>>)

Top(t, transparent) ==
  Blake2b(<<"ZcashTxHash_", t.branch>>, <<HeaderDigest(t), transparent>>)

TxId(t) == Top(t, TransparentDigest(t))

(* A slip: the amounts of the coins are left out, as they were before v5. *)
SighashWithoutAmounts(t, i, spent) ==
  Top(t, Blake2b("ZTxIdTranspaHash",
           <<PrevoutsDigest(t), SequenceDigest(t), OutputsDigest(t),
             t.inputs[i].prevout, spent[i].script>>))

(* The digest input i signs, the inputs spending these coins. *)
SighashAll(t, i, spent) ==
  Top(t, Blake2b("ZTxIdTranspaHash",
           <<PrevoutsDigest(t),
             Blake2b("ZTxTrAmountsHash", [j \in DOMAIN spent |-> spent[j].value]),
             Blake2b("ZTxTrScriptsHash", [j \in DOMAIN spent |-> spent[j].script]),
             SequenceDigest(t), OutputsDigest(t),
             Blake2b("Zcash___TxInHash",
                    <<t.inputs[i].prevout, spent[i].value, spent[i].script,
                      t.inputs[i].sequence>>)>>))

-----------------------------------------------------------------------------
(* Records.                                                                *)

HashLen == 18
MaxExits == 4

Size(data) == 5 + HashLen * Len(data.hashes) + data.extra

Return(push, data) ==
  [ops |-> "return", length |-> 1 + Len(push) + Size(data), push |-> push,
   data |-> data]

RecordV2(h) == [version |-> 2, hashes |-> <<h>>, extra |-> 0]

RecordV2Script(h) == Return(<<Size(RecordV2(h))>>, RecordV2(h))

(* record_v3; << >> stands for the error. *)
RecordV3(hashes) ==
  IF Len(hashes) \in 1..MaxExits
  THEN <<[version |-> 3, hashes |-> hashes, extra |-> 0]>>
  ELSE << >>

RecordV3Script(r) ==
  Return(IF Size(r) > 75 THEN <<76, Size(r)>> ELSE <<Size(r)>>, r)

(* The hashes a record names, << >> if it is not one. *)
ParseV3(data) ==
  IF /\ data.version = 3
     /\ data.extra = 0
     /\ Len(data.hashes) \in 1..MaxExits
  THEN data.hashes ELSE << >>

(* A slip: any push that holds the data will do. *)
ParseV3AnyPush(s) == IF s.ops = "return" THEN ParseV3(s.data) ELSE << >>

Minimal(push, n) == \/ push = <<76, n>> /\ n > 75
                    \/ push = <<n>> /\ n \in 1..75

ParseV3Script(s) ==
  IF s.ops = "return" /\ Minimal(s.push, Size(s.data))
  THEN ParseV3(s.data) ELSE << >>

(* record_hash of one script: its hash alone, or << >>. *)
RecordHash(s) ==
  IF s.ops = "return" /\ s.length = 25 /\ s.push = <<23>> /\ s.data.version = 2
  THEN s.data.hashes ELSE << >>

-----------------------------------------------------------------------------
(* The same scripts as the verifier reads them.                            *)

RecordV2Hash(s) ==
  IF s.ops = "return" /\ s.length = 25 /\ s.push = <<23>> /\ s.data.version = 2
  THEN s.data.hashes ELSE << >>

RecordV3Hashes(s) ==
  IF /\ s.ops = "return"
     /\ \/ Len(s.push) = 2 /\ s.push[1] = 76 /\ s.push[2] > 75
           /\ s.push[2] = Size(s.data)
        \/ Len(s.push) = 1 /\ s.push[1] \in 1..75 /\ s.push[1] = Size(s.data)
     /\ s.data.version = 3 /\ s.data.extra = 0
     /\ s.data.hashes # << >> /\ Len(s.data.hashes) <= MaxExits
  THEN s.data.hashes ELSE << >>

=============================================================================
