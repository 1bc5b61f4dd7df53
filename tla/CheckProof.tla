----------------------------- MODULE CheckProof ------------------------------
(***************************************************************************)
(* The check-proof command: checkProof and checkPayoutProof of             *)
(* verifier/src/checkproof.ts.  A proof, made by the wallet that received  *)
(* the note or simply given, is checked against what a Zcash node says of  *)
(* the transaction it names and of the coins that transaction spends, then *)
(* against the harvest or exit on Solana, then by the ledger's own rules.  *)
(* The two functions take the same steps; kind tells them apart.  A proof   *)
(* may also be checked offline, by the stamp-proof tool, against bytes and *)
(* values of the coins that come from anywhere.                            *)
(*                                                                         *)
(* input = [mined, height, confirmations, coins, built]: the transaction   *)
(* as it is in the chain, its place, the values of the coins it spends,    *)
(* and the request it was built for if the stamper built it (else None).   *)
(***************************************************************************)
EXTENDS PrivateBuild

CONSTANTS
  Requests, Exits,   \* the finalized requests and exits, by signature
  Wallets,           \* sets of receivers: who may make a proof
  GivenFor(_),       \* the proofs that may be given for a transaction
  Served(_),         \* the bytes a node may answer with for it
  Worth,             \* what the node may say a coin is worth
  Inputs

VARIABLES
  input,
  at,       \* the next step
  wanted,   \* [wallet, account, index] of a proof that was made, else None
  proof,
  bytes,    \* the transaction the node answered with
  values,   \* the values it gave for the coins
  answer    \* None or [ok, why]; why is "offline" if no chain was asked

vars == <<input, at, wanted, proof, bytes, values, answer>>

-----------------------------------------------------------------------------
(* What is relied on outside this code.                                    *)

(* Bytes that are read as a transaction. *)
IsScript(s) ==
  s.ops = "return" =>
    /\ s.push \in Seq(Nat)
    /\ s.data \in [version : Nat, hashes : Seq(Range(s.data.hashes)) \ {None},
                   extra : Nat]
    /\ s = Return(s.push, s.data)

IsTransaction(b) ==
  /\ b.inputs \in Seq(Range(b.inputs))
  /\ b.outputs \in Seq(Range(b.outputs))
  /\ b.notes \in Seq(Range(b.notes))
  /\ \A i \in DOMAIN b.outputs : IsScript(b.outputs[i].script)
  /\ b.intoPool # None => b.version = 6

(* A transaction in the chain was signed for the coins it spends, which are of
   the keys it pushes. *)
ASSUME MinedAssumption ==
  \A x \in Inputs :
    /\ IsTransaction(x.mined) /\ x.mined.parses
    /\ DOMAIN x.coins = DOMAIN x.mined.inputs
    /\ \A i \in DOMAIN x.mined.inputs :
         x.mined.inputs[i].key # None =>
           /\ x.mined.inputs[i].form \in {"plain", "pushdata"}
           /\ x.mined.inputs[i].over =
                 Digest(x.mined.txid, i, x.coins, Pushed(x.mined))

(* The published keys, of issuers and of orders. *)
Published == AllIssuers \cup {OrderPubkey(k, n) : k \in ExitKeys, n \in 0..MaxIndex}

ASSUME IndexAssumption ==
  /\ MaxIndex \in Nat
  /\ \A x \in Inputs : \A p \in GivenFor(x.mined) : p.index \in Nat

(* Whoever answers, a txid is that of one transaction but for its inputs'
   pushes; and of the digests of that txid, a published key has signed those of
   the coins the transaction spends alone. *)
ASSUME ServedAssumption ==
  \A x \in Inputs : \A b \in Served(x.mined) :
    /\ IsTransaction(b)
    /\ b.parses /\ b.txid = x.mined.txid =>
         /\ b.outputs = x.mined.outputs /\ b.notes = x.mined.notes
         /\ b.intoPool = x.mined.intoPool /\ b.otherPool = x.mined.otherPool
         /\ b.version = x.mined.version
         /\ DOMAIN b.inputs = DOMAIN x.mined.inputs
         /\ \A i \in DOMAIN b.inputs :
              /\ b.inputs[i].key \in Published
              /\ b.inputs[i].over # None /\ b.inputs[i].over[1] = b.txid
              => b.inputs[i].over = Digest(b.txid, i, x.coins, Pushed(x.mined))

Reasons ==
  {"offline", "not a proof", "chains not read", "not mined", "no key", "no value",
   "note", "other account", "solana", "checked", "ledger"}

(* What the stamper built was built as it was asked to, in words of the amounts'
   width. *)
ASSUME BuiltAssumption ==
  \A x \in Inputs :
    x.built # None =>
      /\ x.mined \in Builds(x.built, x.mined.txid) /\ x.coins = <<x.built.coin>>
      /\ x.built.receipt \in
           [coin : Tokens \cup {None}, burned : 0..MaxAmount, harvested : 0..MaxAmount,
            fee : 0..MaxAmount, signature : Signatures, time : Int]

(* None is no answer, no key, no receipt, no text, no transaction, no values, no
   digest. *)
ASSUME NoneAssumption ==
  /\ \A ok \in BOOLEAN, why \in Reasons : [ok |-> ok, why |-> why] # None
  /\ None \notin Published
  /\ \A x \in Inputs : x.built # None =>
       x.built.receipt # None /\ StampText(x.built.receipt) # None
  /\ \A x \in Inputs : \A b \in Served(x.mined) :
       /\ b # None
       /\ \A v \in [DOMAIN b.inputs -> Worth] :
            v # None /\ \A i \in DOMAIN v : Digest(b.txid, i, v, Pushed(b)) # None

(* Harvests and exits are named by the hashes of their signatures. *)
ASSUME SolanaAssumption ==
  /\ DOMAIN Requests \cup DOMAIN Exits \subseteq DOMAIN Hash
  /\ \A s \in DOMAIN Requests : Requests[s].hash[2] = Hash[s]
  /\ \A e \in DOMAIN Exits : Exits[e].hash = Hash[e] /\ Exits[e].index \in Nat

-----------------------------------------------------------------------------
Init ==
  /\ input \in Inputs
  /\ at = "make"
  /\ wanted = None /\ proof = None /\ bytes = None /\ values = None
  /\ answer = None

(* stamp-proof make and make --payout; make and make_payout of the
   WebAssembly module. *)
Makes(p, w, account, index) ==
  /\ at = "make"
  /\ proof' = p
  /\ wanted' = [wallet |-> w, account |-> account, index |-> index]
  /\ at' \in {"name", "offline"}
  /\ UNCHANGED <<input, bytes, values, answer>>

Make(w) == \E p \in MakesStamp(input.mined, w) : Makes(p, w, 0, 0)

MakePayout(w, e) ==
  \E p \in MakesPayout(input.mined, w, 0, Exits[e].index) :
    Makes(p, w, 0, Exits[e].index)

Given(p) ==
  /\ at = "make"
  /\ proof' = p
  /\ at' \in {"name", "offline"}
  /\ UNCHANGED <<input, wanted, bytes, values, answer>>

-----------------------------------------------------------------------------
Conclude(ok, why) ==
  /\ at' = "done"
  /\ answer' = [ok |-> ok, why |-> why]
  /\ UNCHANGED <<input, wanted, proof>>

Fail(why) == Conclude(FALSE, why) /\ UNCHANGED <<bytes, values>>

IsPayout == proof.kind = "payout"

(* check and check_payout of the WebAssembly module, and of the tool. *)
Checks(b, issuers, keys, v) ==
  \/ DecodesStamp(proof) /\ ChecksStamp(b, proof, issuers, v)
  \/ DecodesPayout(proof) /\ ChecksPayout(b, proof, keys, v)

(* stamp-proof check, given the values of the coins or not; stamp-proof make
   does it without them before it prints the proof. *)
CheckOffline(b, v) ==
  /\ at = "offline"
  /\ bytes' = b /\ values' = v
  /\ Conclude(Checks(b, AllIssuers, ExitKeys, v), "offline")

(* proofTxid.  A string of the right length without a prefix passes. *)
Decoded == proof.kind \in {"stamp", "payout", "bare"}

NotAProof == at = "name" /\ ~Decoded /\ Fail("not a proof")

Name ==
  /\ at = "name" /\ Decoded
  /\ at' = "tx"
  /\ UNCHANGED <<input, wanted, proof, bytes, values, answer>>

(* Exits of other accounts are not looked for on Solana. *)
AsksSolana == at = "solana" /\ (IsPayout => proof.account = 0)

(* A call fails for good. *)
CallFails ==
  /\ at = "tx" \/ (at = "coins" /\ bytes.inputs # << >>) \/ AsksSolana
  /\ Fail("chains not read")

NodePlace == [height |-> input.height, confirmations |-> input.confirmations]

NotFinal == at = "tx" /\ ~Final(NodePlace) /\ Fail("not mined")

ValidKeys == IF IsPayout THEN KeysAt(proof.account, input.height)
                         ELSE IssuersAt(input.height)

NoKey == at = "tx" /\ Final(NodePlace) /\ ValidKeys = {} /\ Fail("no key")

(* inspectTx throws. *)
Unparsed(b) ==
  /\ at = "tx" /\ Final(NodePlace) /\ ValidKeys # {}
  /\ ~b.parses
  /\ Fail("chains not read")

ReadTx(b) ==
  /\ at = "tx" /\ Final(NodePlace) /\ ValidKeys # {}
  /\ b.parses
  /\ bytes' = b
  /\ at' = "coins"
  /\ UNCHANGED <<input, wanted, proof, values, answer>>

(* A slip: a coin without a value is passed over. *)
PassOver ==
  /\ at = "coins"
  /\ bytes.inputs # << >>
  /\ values' = Tail([i \in DOMAIN bytes.inputs |-> CHOOSE v \in Worth : TRUE])
  /\ at' = "note"
  /\ UNCHANGED <<input, wanted, proof, bytes, answer>>

(* spentValue of every input. *)
NoValue ==
  /\ at = "coins"
  /\ bytes.inputs # << >>
  /\ Fail("no value")

ReadCoins(v) ==
  /\ at = "coins"
  /\ values' = v
  /\ at' = "note"
  /\ UNCHANGED <<input, wanted, proof, bytes, answer>>

-----------------------------------------------------------------------------
(* The WebAssembly checker.  No values at all are an empty string, which it
   takes for values not given: it then says so, and that is not enough. *)
NoteChecks ==
  LET v == IF values = << >> THEN None ELSE values
  IN  v # None /\ Checks(bytes, ValidKeys, ValidKeys, v)

BadNote == at = "note" /\ ~NoteChecks /\ Fail("note")

GoodNote ==
  /\ at = "note" /\ NoteChecks
  /\ at' = "solana"
  /\ UNCHANGED <<input, wanted, proof, bytes, values, answer>>

Receipt == ReadReceipt(proof.kind, bytes.notes[proof.action].memo)

(* Nothing more to check. *)
OtherAccount ==
  /\ at = "solana" /\ ~AsksSolana
  /\ Conclude(TRUE, "other account")
  /\ UNCHANGED <<bytes, values>>

(* A slip: the amounts on Solana are not compared. *)
SomeRequest ==
  /\ Receipt.signature \in DOMAIN Requests
  /\ Requests[Receipt.signature].mode = "private"
  /\ Deliverable(Requests[Receipt.signature])

TheRequest ==
  /\ Receipt.signature \in DOMAIN Requests
  /\ LET r == Requests[Receipt.signature]
     IN  /\ r.mode = "private"
         /\ Deliverable(r)
         /\ Receipt.burned = r.burned /\ Receipt.harvested = r.harvested
         /\ Receipt.fee = r.fee

TheExit ==
  /\ Receipt.signature \in DOMAIN Exits
  /\ LET e == Exits[Receipt.signature]
     IN  e.index = proof.index /\ Receipt.sent = e.sent /\ Receipt.time = e.time

OnSolana == IF IsPayout THEN TheExit ELSE TheRequest

NotOnSolana ==
  /\ AsksSolana
  /\ ~OnSolana
  /\ Fail("solana")

ReadSolana ==
  /\ AsksSolana
  /\ OnSolana
  /\ at' = "ledger"
  /\ UNCHANGED <<input, wanted, proof, bytes, values, answer>>

-----------------------------------------------------------------------------
(* What the verifier reads in bytes b, which inspect gives it. *)
SpendersOf(b) ==
  [i \in DOMAIN b.inputs |->
     IF b.inputs[i].form \in {"plain", "pushdata"} THEN b.inputs[i].key ELSE None]

ReadRecord(script) ==
  LET h == RecordV2Hash(script)
  IN  [version |-> IF h = << >> THEN 0 ELSE 2,
       hash |-> IF h = << >> THEN None ELSE h[1], burned |-> 0, harvested |-> 0]

Payee(script) == IF ScriptKind(script) = "P2PKH" THEN script.to ELSE None

ReadExits(b) ==
  LET h == IF b.outputs = << >> THEN << >> ELSE RecordV3Hashes(b.outputs[1].script)
  IN  IF h = << >> THEN None ELSE h

(* The transactions the ledgers are given for bytes b. *)
StampCandidate(b) ==
  [height |-> input.height, confirmations |-> input.confirmations,
   index |-> 0, time |-> None,
   version |-> b.version, parses |-> b.parses, ownTxid |-> b.txid = proof.txid,
   spenders |-> Range(SpendersOf(b)),
   opReturns |-> [i \in DOMAIN ReturnsOf(b) |-> ReadRecord(ReturnsOf(b)[i])],
   outs |-> {[script |-> Payee(o.script), value |-> o.value] : o \in OthersOf(b)},
   intoPool |-> b.intoPool, otherPool |-> b.otherPool]

PayoutCandidate(b) ==
  [height |-> input.height, confirmations |-> input.confirmations, index |-> 0,
   version |-> b.version, parses |-> b.parses, ownTxid |-> b.txid = proof.txid,
   spenders |-> SpendersOf(b), record |-> ReadExits(b),
   outputs |-> Len(b.outputs), actions |-> Len(b.notes),
   intoPool |-> b.intoPool, otherPool |-> b.otherPool]

Alone(f) == [s \in {Receipt.signature} |-> f[s]]

(* buildLedger of this request and this transaction takes it as a stamp. *)
TakenAsStamp ==
  Qualifies([requests |-> Alone(Requests), refunds |-> {},
             candidates |-> <<StampCandidate(bytes)>>], 1, Receipt.signature)

(* buildPayoutLedger of this exit and this transaction takes it as a payout
   stamp, or rejects it at a hash that is not this exit's. *)
TakenAsPayout ==
  LET E == Alone(Exits)
      z == PayoutCandidate(bytes)
  IN  /\ Final(z) /\ IsV6(z) /\ Shields(z) /\ OneRunPerExit(z)
      /\ LET bad == {j \in DOMAIN z.record : ~PaidAt(E, z, j)}
         IN  bad # {} => ~KnownAt(E, z, Min(bad))

Taken == IF IsPayout THEN TakenAsPayout ELSE TakenAsStamp

Judge ==
  /\ at = "ledger"
  /\ Conclude(Taken, IF Taken THEN "checked" ELSE "ledger")
  /\ UNCHANGED <<bytes, values>>

(* The command has printed its result. *)
Printed == at = "done" /\ UNCHANGED vars

Next ==
  \/ \E w \in Wallets : Make(w) \/ \E e \in DOMAIN Exits : MakePayout(w, e)
  \/ \E p \in GivenFor(input.mined) : Given(p)
  \/ \E b \in Served(input.mined) :
       \E v \in [DOMAIN b.inputs -> Worth] \cup {None} : CheckOffline(b, v)
  \/ NotAProof \/ Name \/ CallFails \/ NotFinal \/ NoKey
  \/ \E b \in Served(input.mined) : Unparsed(b) \/ ReadTx(b)
  \/ NoValue
  \/ at = "coins" /\ \E v \in [DOMAIN bytes.inputs -> Worth] : ReadCoins(v)
  \/ BadNote \/ GoodNote \/ OtherAccount \/ NotOnSolana \/ ReadSolana
  \/ Judge \/ Printed

Spec == Init /\ [][Next]_vars

-----------------------------------------------------------------------------
(* What check-proof must satisfy.  The transaction in the chain is          *)
(* input.mined, whatever bytes the node answered with.                      *)

Passed == answer # None /\ answer.ok

(* The chains were asked. *)
Online == answer # None /\ answer.why # "offline"

mined == input.mined

(* The receipt of the note the proof opens in the transaction itself. *)
MinedReceipt == ReadReceipt(proof.kind, mined.notes[proof.action].memo)

(* Every variable has its type, and a verdict is reached at the end only. *)
TypeOK ==
  /\ input \in Inputs
  /\ at \in {"make", "offline", "name", "tx", "coins", "note", "solana", "ledger", "done"}
  /\ bytes \in Served(mined) \cup {None}
  /\ values # None => DOMAIN values = DOMAIN bytes.inputs
  /\ answer # None <=> at = "done"

(* The published keys that vouch for a proof: offline, of any height. *)
Vouching ==
  IF IsPayout
  THEN {k \in ExitKeys : k.account = proof.account
                            /\ (Online => k \in KeysAt(proof.account, input.height))}
  ELSE IF Online THEN IssuersAt(input.height) ELSE AllIssuers

(* A proof passes, the values of the coins given, only for a transaction spent
   by published keys, online by keys published for its height, though a txid
   does not cover the signatures and whoever gives the bytes may give any
   signatures and any values: for a private stamp every input, for a payout
   stamp the run of the exit the receipt names. *)
Unforged ==
  Passed /\ values # None /\ proof.txid = mined.txid =>
    IF IsPayout
    THEN \E j \in DOMAIN Named(mined) :
           /\ Named(mined)[j] = ExitHash(MinedReceipt.signature)
           /\ \A i \in RunInputs(Pushed(mined), j) :
                \E k \in Vouching : mined.inputs[i].key = OrderPubkey(k, proof.index)
    ELSE Range(Pushed(mined)) \subseteq Vouching

(* The coins of an order that the transaction spends hold this amount. *)
Bridged(keys, index, amount) ==
  \E k \in keys :
    amount = SumFunctionOnSet(input.coins,
               {i \in DOMAIN mined.inputs : mined.inputs[i].key = OrderPubkey(k, index)})

(* What a passed proof shows is so: the note is in the transaction, its receipt
   says what the coins in the chain were worth, if values of them were given,
   and, online, what the harvest or the exit on Solana says. *)
ReceiptIsTrue ==
  Passed /\ proof.txid = mined.txid =>
    /\ Delivers(mined, proof)
    /\ LET m == MinedReceipt
       IN  IF IsPayout
           THEN /\ m.received = proof.value
                /\ values # None => Bridged(Vouching, proof.index, m.bridged)
                /\ Online /\ proof.account = 0 =>
                     /\ m.signature \in DOMAIN Exits
                     /\ LET e == Exits[m.signature]
                        IN  m.sent = e.sent /\ m.time = e.time
           ELSE Online =>
             /\ m.signature \in DOMAIN Requests
             /\ LET r == Requests[m.signature]
                IN  <<m.burned, m.harvested, m.fee>>
                      = <<r.burned, r.harvested, r.fee>>

(* By rules V1 to V3 the transaction is a stamp of s, all requests known. *)
ValidStamp(s) ==
  Qualifies([requests |-> Requests, refunds |-> {},
             candidates |-> <<StampCandidate(mined)>>], 1, s)

(* The full verifier, which reads everything, could reject what a passed proof
   vouches for by the rules it says it did not check alone: V4 and V5 for a
   private stamp, V4 and the other exits of the forward for a payout stamp. *)
VouchedFor ==
  Passed /\ Online /\ proof.txid = mined.txid =>
    LET z == PayoutCandidate(mined)
        s == MinedReceipt.signature
    IN  IF ~IsPayout
        THEN ValidStamp(s)
        ELSE proof.account = 0 =>
               /\ Final(z) /\ IsV6(z) /\ Shields(z) /\ OneRunPerExit(z)
               /\ \E j \in DOMAIN z.record :
                    z.record[j] = ExitHash(s) /\ PaidAt(Exits, z, j)

(* SPEC.md:475: check-proof checks steps 1 to 6 of 10.5, except V4.  Step 6
   has the transaction be a valid payout stamp of the exit, which by 10.4 it is
   only if every exit its record names is one and was paid from its own order's
   address. *)
PassedIsStamp ==
  Passed /\ Online /\ IsPayout /\ proof.account = 0 =>
    Forwards(Exits, PayoutCandidate(mined))

(* The rules, and the readers of scripts and records they go by, are written
   twice, in stamper-core and in ledger.ts: what stamper-core accepts ledger.ts
   does too.  The converse is not so: stamper-core reads only inputs that are
   signed in plain pushes. *)
RulesAgree == answer # None => answer.why # "ledger"

(* The node told the truth, of a transaction signed as the stamper signs. *)
Honest ==
  /\ answer.why # "chains not read" /\ answer.why # "no value"
  /\ bytes \in {None, mined}
  /\ values \in {None, input.coins}
  /\ \A i \in DOMAIN mined.inputs : mined.inputs[i].form = "plain"

(* The wallet has the note of the exit, or of the harvest, it made a proof for,
   and the transaction is a valid stamp of it with a truthful receipt. *)
OwnStamp(a) ==
  LET m == ReadReceipt(proof.kind, mined.notes[a].memo)
      z == PayoutCandidate(mined)
  IN  /\ mined.notes[a].receiver \in wanted.wallet
      /\ m # None
      /\ IF proof.kind = "stamp"
         THEN /\ m.signature \in DOMAIN Requests
              /\ LET r == Requests[m.signature]
                 IN  <<m.burned, m.harvested, m.fee>>
                       = <<r.burned, r.harvested, r.fee>>
              /\ mined.notes[a].value = Postage
              /\ ValidStamp(m.signature)
         ELSE /\ m.signature \in DOMAIN Exits
              /\ LET e == Exits[m.signature]
                 IN  /\ <<m.sent, m.time>> = <<e.sent, e.time>>
                     /\ wanted.account = 0 /\ wanted.index = e.index
              /\ m.received = mined.notes[a].value
              /\ Forwards(Exits, z)
              /\ \E j \in DOMAIN z.record :
                   /\ z.record[j] = ExitHash(m.signature)
                   /\ m.bridged = SumFunctionOnSet(input.coins,
                                                 RunInputs(Pushed(mined), j))

(* A wallet's proof of its own stamp passes when the node tells the truth. *)
GenuineAccepted ==
  answer # None /\ wanted # None /\ Honest /\ OwnStamp(proof.action) => answer.ok

(* What the stamper builds is never in vain: for a receipt with the amounts of
   a private request whose key was in force, once it is final under an issuer
   key still published, the wallet the request was sealed to can prove it. *)
BuiltIsAccepted ==
  /\ answer # None /\ wanted # None /\ ~IsPayout /\ Honest
  /\ input.built # None
  /\ Final(NodePlace) /\ input.built.issuer \in IssuersAt(input.height)
  /\ input.built.sealed.receiver \in wanted.wallet
  /\ LET m == input.built.receipt
     IN  /\ m.signature \in DOMAIN Requests
         /\ LET q == Requests[m.signature]
            IN  /\ q.mode = "private" /\ RequestKeyInForce(q.kid, q.time)
                /\ <<m.burned, m.harvested, m.fee>> = <<q.burned, q.harvested, q.fee>>
  => answer.ok

(* stamp-proof make and make_payout: a wallet that was paid for an exit makes
   that exit's proof by giving its order index. *)
MadeIsAccepted ==
  /\ answer # None /\ wanted # None /\ IsPayout /\ Honest
  /\ \E a \in DOMAIN mined.notes : OwnStamp(a)
  => answer.ok

=============================================================================
