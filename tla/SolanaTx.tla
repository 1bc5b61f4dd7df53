------------------------------ MODULE SolanaTx ------------------------------
(***************************************************************************)
(* classify, classifyExit and programData of verifier/src/solana/tx.ts,    *)
(* and requiredFee of verifier/src/params.ts: what a Solana transaction is *)
(* to the verifier.  Nothing here has state.                               *)
(*                                                                         *)
(* A transaction is [failed, time, signer, ixs, logs]: whether it has no   *)
(* status or an error, its block time (None: not given), its first         *)
(* account, its top-level instructions and its log lines.  An instruction  *)
(* is a record with a kind:                                                *)
(*   "redeem"    [holder, source]  accounts #0 and #7 (None: too few)      *)
(*   "transfer"  [source, mint, destination, authority, amount]            *)
(*   "memo"      [text], text a record with a kind of its own:             *)
(*                 "refund"  [of]       "public"  [address]                *)
(*                 "private" [kid]      "exit"    [index]                  *)
(*                 "none"    anything else                                 *)
(*               (None: the rest of the text breaks its form)              *)
(*   "other"                                                               *)
(* A log line is one the runtime writes ("invoke" [program], "return",     *)
(* "data" [parts]) or the text of a program ("text" [like]) together with  *)
(* the runtime's line it could be taken for ("invoke", "return" or None).  *)
(* A part is None when it is not a Redeemed event, else                    *)
(* [whole, mint, holder, burned, harvested].                               *)
(***************************************************************************)
EXTENDS Integers, SequencesExt

CONSTANTS
  Program,     \* params.solana.programId
  FeeAccount,  \* params.solana.feeAccount
  FeeOwner,    \* params.solana.feeOwner
  ZecMint,     \* params.solana.zecMint
  Fees,        \* params.fees: a sequence of [from, amount]
  Day,         \* how long a lower fee is still enough
  None

(* checkParams refuses fees that are not in ascending order of from. *)
ASSUME FeesAssumption ==
  /\ Fees \in Seq(Range(Fees)) /\ Fees # << >> /\ Day \in Nat
  /\ \A i \in DOMAIN Fees : Fees[i].from \in Int /\ Fees[i].amount \in Nat
  /\ \A i, j \in DOMAIN Fees : i < j => Fees[i].from < Fees[j].from
  /\ None \notin Int /\ None # Program

IsTransaction(tx) ==
  /\ tx.time = None \/ tx.time \in Int
  /\ tx.ixs \in Seq(Range(tx.ixs)) /\ tx.logs \in Seq(Range(tx.logs))
  /\ \A i \in DOMAIN tx.ixs : tx.ixs[i].kind = "transfer" => tx.ixs[i].amount \in Nat
  /\ \A i \in DOMAIN tx.logs : tx.logs[i].kind = "data" =>
       tx.logs[i].parts \in Seq(Range(tx.logs[i].parts))
-----------------------------------------------------------------------------
(* The log lines, and which program was executing.                         *)

(* What a line is taken for: a program's text is told from the runtime's own
   lines by its wording only, and would start a program named "log:". *)
TakenFor(line) ==
  CASE line.kind = "text" /\ line.like = "invoke" -> [kind |-> "invoke", program |-> "log:"]
    [] line.kind = "text" /\ line.like = "return" -> [kind |-> "return"]
    [] OTHER -> line

(* A slip: the payloads of programs called by the program count as its own. *)
Inside(stack) == Program \in Range(stack)

Executing(stack) == stack # << >> /\ Last(stack) = Program

AfterLine(stack, line) ==
  CASE line.kind = "invoke" -> Append(stack, line.program)
    [] line.kind = "return" /\ stack # << >> -> Front(stack)
    [] OTHER -> stack

(* The stack after each line; before the first it is empty. *)
Stacks(logs) ==
  LET stack[n \in 0..Len(logs)] ==
        IF n = 0 THEN << >> ELSE AfterLine(stack[n - 1], TakenFor(logs[n]))
  IN  stack

(* The payloads logged while the program was executing, each as its line and
   its part of the line. *)
ProgramData(logs) ==
  UNION {{i} \X DOMAIN logs[i].parts :
           i \in {l \in DOMAIN logs : logs[l].kind = "data" /\ Executing(Stacks(logs)[l - 1])}}

EventAt(tx, e) == tx.logs[e[1]].parts[e[2]]

RedeemedEvents(tx) == {e \in ProgramData(tx.logs) : EventAt(tx, e) # None}
-----------------------------------------------------------------------------
(* The fees.                                                               *)

FeesOfTheDay(t) ==
  {Fees[i].amount : i \in {j \in DOMAIN Fees :
     Fees[j].from <= t /\ (j = Len(Fees) \/ Fees[j + 1].from > t - Day)}}

RequiredFee(t) == IF FeesOfTheDay(t) = {} THEN None ELSE Min(FeesOfTheDay(t))
-----------------------------------------------------------------------------
(* The instructions.  What the code filters out of them is told by their    *)
(* places; One is its test of the length, Only the element it then takes.  *)

One(S) == Cardinality(S) = 1

Only(S) == CHOOSE x \in S : TRUE

OfKind(tx, k) == {i \in DOMAIN tx.ixs : tx.ixs[i].kind = k}
Redeems(tx) == OfKind(tx, "redeem")
Memos(tx) == OfKind(tx, "memo")
Transfers(tx) == OfKind(tx, "transfer")

FromFeeAccount(tx) == {i \in Transfers(tx) : tx.ixs[i].source = FeeAccount}
ToFeeAccount(tx) == {i \in Transfers(tx) : tx.ixs[i].destination = FeeAccount}
ZecTransfers(tx) == {i \in Transfers(tx) : tx.ixs[i].mint = ZecMint}

TheRedeem(tx) == tx.ixs[Only(Redeems(tx))]
TheFee(tx) == tx.ixs[Only(ToFeeAccount(tx))]
TheReturn(tx) == tx.ixs[Only(FromFeeAccount(tx))]
TheZec(tx) == tx.ixs[Only(ZecTransfers(tx))]
TheEvent(tx) == EventAt(tx, Only(RedeemedEvents(tx)))

OnlyMemo(tx) ==
  IF One(Memos(tx)) THEN tx.ixs[Only(Memos(tx))].text ELSE [kind |-> "none"]
-----------------------------------------------------------------------------
(* Refunds (SPEC.md 5), requests (SPEC.md 2) and exits (SPEC.md 10.2), the *)
(* rules in the order of the code: the first that is broken is the reason. *)

Other(rule) == [kind |-> "other", reason |-> rule]

Settled(tx) == ~tx.failed /\ tx.time # None

Refunding(tx) == OnlyMemo(tx).kind = "refund"

RefundTransfer(tx) ==
  /\ One(FromFeeAccount(tx))
  /\ TheReturn(tx).mint = ZecMint /\ TheReturn(tx).authority = FeeOwner

RefundOf(tx) ==
  [kind |-> "refund", of |-> OnlyMemo(tx).of, to |-> TheReturn(tx).destination,
   amount |-> TheReturn(tx).amount, time |-> tx.time]

R2(tx) ==
  /\ One(Redeems(tx))
  /\ TheRedeem(tx).holder # None /\ TheRedeem(tx).source # None

R3(tx) ==
  /\ One(RedeemedEvents(tx))
  /\ TheEvent(tx).whole
  /\ TheEvent(tx).holder = TheRedeem(tx).holder

R4(tx) ==
  \/ OnlyMemo(tx).kind = "private" /\ OnlyMemo(tx).kid # None
  \/ OnlyMemo(tx).kind = "public" /\ OnlyMemo(tx).address # None

R5(tx) ==
  LET need == RequiredFee(tx.time)
  IN  /\ One(ToFeeAccount(tx))
      /\ TheFee(tx).source = TheRedeem(tx).source
      /\ TheFee(tx).mint = ZecMint
      /\ TheFee(tx).authority = TheRedeem(tx).holder
      /\ need # None /\ TheFee(tx).amount >= need

RequestOf(tx) ==
  LET redeem == TheRedeem(tx)
      event  == TheEvent(tx)
      memo   == OnlyMemo(tx)
  IN  [kind |-> "request", mode |-> memo.kind, mint |-> event.mint,
       holder |-> redeem.holder, source |-> redeem.source,
       burned |-> event.burned, harvested |-> event.harvested,
       fee |-> TheFee(tx).amount, time |-> tx.time,
       address |-> IF memo.kind = "public" THEN memo.address ELSE None,
       kid |-> IF memo.kind = "private" THEN memo.kid ELSE None]

Classify(tx) ==
  CASE ~Settled(tx) -> Other("R1")
    [] Settled(tx) /\ Refunding(tx) ->
         IF RefundTransfer(tx) THEN RefundOf(tx) ELSE Other("refund")
    [] OTHER ->
         IF ~R2(tx) THEN Other("R2")
         ELSE IF ~R3(tx) THEN Other("R3")
         ELSE IF ~R4(tx) THEN Other("R4")
         ELSE IF ~R5(tx) THEN Other("R5") ELSE RequestOf(tx)

E2(tx) == OnlyMemo(tx).kind = "exit" /\ OnlyMemo(tx).index # None

E3(tx) ==
  One(ZecTransfers(tx)) /\ TheZec(tx).authority = tx.signer /\ TheZec(tx).amount # 0

ExitOf(tx) ==
  [kind |-> "exit", holder |-> tx.signer, sent |-> TheZec(tx).amount,
   index |-> OnlyMemo(tx).index, time |-> tx.time]

ClassifyExit(tx) ==
  IF ~Settled(tx) THEN Other("E1")
  ELSE IF ~E2(tx) THEN Other("E2")
  ELSE IF ~E3(tx) THEN Other("E3") ELSE ExitOf(tx)

=============================================================================
