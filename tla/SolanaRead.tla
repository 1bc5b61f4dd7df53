----------------------------- MODULE SolanaRead -----------------------------
(***************************************************************************)
(* readSolana and readExitRequests of verifier/src/rpc/solana.ts: the      *)
(* history of the fee account is listed page by page, newest first, while  *)
(* new transactions arrive; then each transaction of the list is fetched   *)
(* and classified, and then each given exit.  A page that cannot be read   *)
(* fails the run; a transaction that cannot be read is set aside.          *)
(*                                                                         *)
(* The signature of a fee account transaction stands for its place in the  *)
(* account's history: 1 is the oldest.                                     *)
(***************************************************************************)
EXTENDS SolanaTx

CONSTANTS
  Limit,      \* the size of a page
  MaxTxs,     \* bound: transactions that touch the fee account
  Exits,      \* signatures of other transactions
  Inputs      \* a set of [tx, given]: what each signature's transaction is,
              \* and the exit signatures the run is given

ASSUME ReadAssumption ==
  /\ Limit \in Nat \ {0} /\ MaxTxs \in Nat
  /\ Exits \cap (1..MaxTxs) = {}
  /\ \A in \in Inputs :
       /\ DOMAIN in.tx = 1..MaxTxs \cup Exits
       /\ \A s \in DOMAIN in.tx : IsTransaction(in.tx[s])
       /\ in.given \in Seq(DOMAIN in.tx)

VARIABLES
  input,
  length,      \* of the fee account's history
  listed,      \* its length when the first page was read
  pc,          \* "page", "txs", "exits", "read" or "failed"
  before,      \* the last signature of the last page (None: no page yet)
  sigs,        \* signatures still to fetch
  found,       \* what was found, in order: <<signature, classification>>
  unreadable,  \* of the fee account's transactions
  exits,       \* as found, of the given exits
  lostExits    \* given exits that could not be read

vars == <<input, length, listed, pc, before, sigs, found, unreadable, exits,
          lostExits>>

Tx(s) == input.tx[s]
-----------------------------------------------------------------------------
Init ==
  /\ input \in Inputs
  /\ length \in 0..MaxTxs
  /\ listed = 0
  /\ pc = "page"
  /\ before = None
  /\ sigs = << >>
  /\ found = << >>
  /\ unreadable = << >>
  /\ exits = << >>
  /\ lostExits = << >>

(* Another transaction touches the fee account. *)
Arrive ==
  /\ length < MaxTxs
  /\ length' = length + 1
  /\ UNCHANGED <<input, listed, pc, before, sigs, found, unreadable, exits, lostExits>>

(* What the node answers to getSignaturesForAddress. *)
Page ==
  LET newest == IF before = None THEN length ELSE before - 1
  IN  [i \in 1..Min({Limit, newest}) |-> newest - i + 1]

(* The members of the page that succeeded, in its order. *)
Succeeded(page) ==
  LET ok     == {i \in DOMAIN page : ~Tx(page[i]).failed}
      nth(k) == CHOOSE i \in ok : Cardinality({j \in ok : j <= i}) = k
  IN  [k \in 1..Cardinality(ok) |-> page[nth(k)]]

(* Slips: a page with few successes is taken for the last; the cursor is the
   last success; failed ones are fetched too. *)
ShortOfSuccesses(page) == Len(Succeeded(page)) < Limit

LastSuccess(page) ==
  IF Succeeded(page) = << >> THEN before ELSE Last(Succeeded(page))

Everyone(page) == page

IsLast(page) == Len(page) < Limit

Cursor(page) == IF page = << >> THEN before ELSE Last(page)

Kept(page) == Succeeded(page)

GetSignatures ==
  /\ pc = "page"
  /\ sigs' = sigs \o Kept(Page)
  /\ before' = Cursor(Page)
  /\ listed' = IF before = None THEN length ELSE listed
  /\ pc' = IF IsLast(Page) THEN "txs" ELSE "page"
  /\ UNCHANGED <<input, length, found, unreadable, exits, lostExits>>

(* The call has failed too often (jsonrpc.ts). *)
ListingFails ==
  /\ pc = "page"
  /\ pc' = "failed"
  /\ UNCHANGED <<input, length, listed, before, sigs, found, unreadable, exits,
                 lostExits>>

Fetch(phase) ==
  /\ pc = phase
  /\ sigs # << >>
  /\ sigs' = Tail(sigs)
  /\ UNCHANGED <<input, length, listed, pc, before>>

GetTransaction ==
  /\ Fetch("txs")
  /\ found' = Append(found, <<Head(sigs), Classify(Tx(Head(sigs)))>>)
  /\ UNCHANGED <<unreadable, exits, lostExits>>

(* The call has failed too often, or the node does not know the transaction. *)
TransactionLost ==
  /\ Fetch("txs")
  /\ unreadable' = Append(unreadable, Head(sigs))
  /\ UNCHANGED <<found, exits, lostExits>>

(* The signatures given are read once each. *)
TurnToExits ==
  /\ pc = "txs" /\ sigs = << >>
  /\ pc' = "exits"
  /\ sigs' = SetToSeq(Range(input.given))
  /\ UNCHANGED <<input, length, listed, before, found, unreadable, exits, lostExits>>

GetExit ==
  /\ Fetch("exits")
  /\ exits' = Append(exits, <<Head(sigs), ClassifyExit(Tx(Head(sigs)))>>)
  /\ UNCHANGED <<found, unreadable, lostExits>>

ExitLost ==
  /\ Fetch("exits")
  /\ lostExits' = Append(lostExits, Head(sigs))
  /\ UNCHANGED <<found, unreadable, exits>>

Finish ==
  /\ pc = "exits" /\ sigs = << >>
  /\ pc' = "read"
  /\ UNCHANGED <<input, length, listed, before, sigs, found, unreadable, exits, lostExits>>

(* The run goes on to Zcash, or ends. *)
Over == pc \in {"read", "failed"} /\ UNCHANGED vars

GoesOn ==
  \/ GetSignatures \/ GetTransaction \/ TransactionLost \/ TurnToExits
  \/ GetExit \/ ExitLost \/ Finish

Next == Arrive \/ GoesOn \/ ListingFails \/ Over

(* Every call ends, since fetch is given 30 seconds: unless the listing fails,
   the reader goes on.  A page asked for and got in vain changes nothing, so it
   does not count as going on. *)
Spec == Init /\ [][Next]_vars /\ WF_vars(GoesOn)
-----------------------------------------------------------------------------
(* What the read must satisfy.                                             *)

(* Every variable has its type, and only what succeeded is fetched. *)
TypeOK ==
  /\ length \in 0..MaxTxs /\ listed \in 0..length
  /\ pc \in {"page", "txs", "exits", "read", "failed"}
  /\ before = None \/ before \in 1..length
  /\ Range(sigs) \subseteq DOMAIN input.tx
  /\ \A i \in DOMAIN found : found[i][2].kind \in {"request", "refund", "other"}
  /\ \A i \in DOMAIN exits : exits[i][2].kind \in {"exit", "other"}
  /\ pc \in {"page", "txs"} => \A i \in DOMAIN sigs : ~Tx(sigs[i]).failed

Names(list) == [i \in DOMAIN list |-> list[i][1]]

(* A read that succeeds has each transaction that was there when it started
   exactly once, as found or as unreadable, whatever arrived meanwhile: a
   request listed twice would share its hash with itself and could never be
   stamped (V1).  So it has each exit it was given, however often that was. *)
EachReadOnce ==
  pc = "read" =>
    /\ LET all == Names(found) \o unreadable
       IN  IsInjective(all) /\ Range(all) = {s \in 1..listed : ~Tx(s).failed}
    /\ LET all == Names(exits) \o lostExits
       IN  IsInjective(all) /\ Range(all) = Range(input.given)

-----------------------------------------------------------------------------
(* SPEC.md 2, 5 and 10.2 in their own words.                               *)

Exactly(S, x) == S = {x}

IxsOf(tx, k) == {i \in DOMAIN tx.ixs : tx.ixs[i].kind = k}

(* The program executing at line i is the one the runtime has started last and
   not yet ended. *)
RunningAt(logs, i) ==
  LET ended(j) == \E m \in j + 1..i - 1 :
        Cardinality({l \in j + 1..m : logs[l].kind = "return"})
          > Cardinality({l \in j + 1..m : logs[l].kind = "invoke"})
      open == {j \in 1..i - 1 : logs[j].kind = "invoke" /\ ~ended(j)}
  IN  IF open = {} THEN None ELSE logs[Max(open)].program

(* The Redeemed events the program emitted: where they are. *)
Emitted(tx) ==
  UNION {{i} \X {p \in DOMAIN tx.logs[i].parts : tx.logs[i].parts[p] # None} :
           i \in {l \in DOMAIN tx.logs :
                   tx.logs[l].kind = "data" /\ RunningAt(tx.logs, l) = Program}}

(* The fee in force at a moment: that of the last entry that has begun. *)
InForce(m) ==
  {Fees[i].amount : i \in {j \in DOMAIN Fees :
     Fees[j].from <= m /\ \A k \in DOMAIN Fees : Fees[k].from <= m => k <= j}}

EnoughAt(t, amount) ==
  \E m \in t - Day..t : \E fee \in InForce(m) : amount >= fee

(* The fee of SPEC.md 2 R5: what is counted is the transfers that move ZEC from
   the holder's account of the redeem to the fee account, by the holder. *)
FeesPaid(tx, redeem) ==
  {i \in IxsOf(tx, "transfer") :
     /\ tx.ixs[i].source = redeem.source /\ tx.ixs[i].mint = ZecMint
     /\ tx.ixs[i].destination = FeeAccount /\ tx.ixs[i].authority = redeem.holder}

SpecRequest(tx) ==
  /\ ~tx.failed /\ tx.time # None
  /\ \E r, m, f \in DOMAIN tx.ixs, e \in Emitted(tx) :
       LET redeem == tx.ixs[r]
           event  == tx.logs[e[1]].parts[e[2]]
           memo   == tx.ixs[m]
       IN  /\ Exactly(IxsOf(tx, "redeem"), r)
           /\ None \notin {redeem.holder, redeem.source}
           /\ Exactly(Emitted(tx), e)
           /\ event.whole /\ event.holder = redeem.holder
           /\ Exactly(IxsOf(tx, "memo"), m)
           /\ \/ memo.text.kind = "public" /\ memo.text.address # None
              \/ memo.text.kind = "private" /\ memo.text.kid # None
           /\ Exactly(FeesPaid(tx, redeem), f)
           /\ EnoughAt(tx.time, tx.ixs[f].amount)

(* What SPEC.md 5 counts of the refund of a request: the transfers of its fee
   back to its source by the fee account's owner, and the memos that name it. *)
FeesReturned(tx, to, amount) ==
  {i \in IxsOf(tx, "transfer") :
     /\ tx.ixs[i].source = FeeAccount /\ tx.ixs[i].mint = ZecMint
     /\ tx.ixs[i].destination = to /\ tx.ixs[i].authority = FeeOwner
     /\ tx.ixs[i].amount = amount}

MemosNaming(tx, s) ==
  {i \in IxsOf(tx, "memo") : tx.ixs[i].text.kind = "refund" /\ tx.ixs[i].text.of = s}

(* tx refunds the request whose signature is s, which paid amount from the
   account to. *)
SpecRefund(tx, s, to, amount) ==
  /\ ~tx.failed /\ tx.time # None
  /\ \E f \in DOMAIN tx.ixs : Exactly(FeesReturned(tx, to, amount), f)
  /\ \E m \in DOMAIN tx.ixs : Exactly(MemosNaming(tx, s), m)

(* tx refunds some request: the one its memo m names, of what its transfer f
   moves. *)
SpecRefundBy(tx, m, f) ==
  /\ m \in IxsOf(tx, "memo") /\ tx.ixs[m].text.kind = "refund"
  /\ f \in IxsOf(tx, "transfer")
  /\ SpecRefund(tx, tx.ixs[m].text.of, tx.ixs[f].destination, tx.ixs[f].amount)

(* What the code asks for and SPEC.md 2 and 5 do not, since it counts before it
   compares (tx.ts:132-137, 170-173): beside the fee nothing goes to the fee
   account, and beside the refund and its memo nothing comes from it and nothing
   else is noted. *)
AtMostOne(S) == \A x, y \in S : x = y

FeeAlone(tx) ==
  AtMostOne({i \in IxsOf(tx, "transfer") : tx.ixs[i].destination = FeeAccount})

RefundAlone(tx) ==
  /\ AtMostOne({i \in IxsOf(tx, "transfer") : tx.ixs[i].source = FeeAccount})
  /\ AtMostOne(IxsOf(tx, "memo"))

SpecExit(tx) ==
  /\ ~tx.failed /\ tx.time # None
  /\ \E m, f \in DOMAIN tx.ixs :
       LET out == tx.ixs[f]
       IN  /\ Exactly(IxsOf(tx, "memo"), m)
           /\ tx.ixs[m].text.kind = "exit" /\ tx.ixs[m].text.index # None
           /\ Exactly({i \in IxsOf(tx, "transfer") : tx.ixs[i].mint = ZecMint}, f)
           /\ out.authority = tx.signer /\ out.amount > 0

(* How what classify and classifyExit find differs from SPEC.md 2, 5 and 10.2:
   in FeeAlone and RefundAlone, and in nothing else.  A request is taken for one
   exactly when its fee is also all that goes to the fee account, the fee held
   to the smallest in force at any moment of the day before it.  A refund is
   taken for one exactly when it is also all that comes from there and its memo
   the only one, and then for that of the request, account and amount it
   refunds.  An exit is taken for one always, and nothing else is. *)
ClassifiedByTheRules ==
  /\ \A i \in DOMAIN found :
       LET tx == Tx(found[i][1])
           c  == found[i][2]
       IN  /\ c.kind = "request" <=> SpecRequest(tx) /\ FeeAlone(tx)
           /\ c.kind = "refund" <=>
                RefundAlone(tx) /\ \E m, f \in DOMAIN tx.ixs : SpecRefundBy(tx, m, f)
           /\ c.kind = "refund" => SpecRefund(tx, c.of, c.to, c.amount)
  /\ \A i \in DOMAIN exits :
       exits[i][2].kind = "exit" <=> SpecExit(Tx(exits[i][1]))

(* tx.ts:75: what is read of the logs are the payloads logged while the
   program was the executing program, all of them and no others. *)
EventsAsDocumented ==
  \A i \in DOMAIN found :
    LET tx == Tx(found[i][1])
    IN  RedeemedEvents(tx) = Emitted(tx)

(* The read ends, though transactions keep arriving and pages may hold none
   that succeeded. *)
ReadEnds == <>(pc \in {"read", "failed"})

=============================================================================
