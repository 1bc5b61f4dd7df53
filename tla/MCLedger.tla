------------------------------ MODULE MCLedger ------------------------------
(***************************************************************************)
(* Ledger on small inputs: requests of both modes, a shared hash, requests *)
(* that cannot be delivered, refunds that match, fall short or repeat, and *)
(* candidates that break each rule in turn, at every place of a short      *)
(* chain.                                                                  *)
(***************************************************************************)
EXTENDS Ledger, TLC

CONSTANTS k1, k2, stranger   \* two issuer keys and somebody else's

MCIssuers == {[hash |-> k1, from |-> 1, to |-> 2],
              [hash |-> k2, from |-> 2, to |-> None]}

MCRequestKeys == {[id |-> 1, from |-> 0, to |-> 3]}

-----------------------------------------------------------------------------
(* Requests.                                                               *)

Public(h, d) ==
  [mode |-> "public", hash |-> <<h, h>>, burned |-> 7, harvested |-> 5,
   fee |-> 1, source |-> h, dest |-> d, kid |-> 0, time |-> 1]

Private(h, kid, fee) ==
  [mode |-> "private", hash |-> <<h, h>>, burned |-> 7, harvested |-> 5,
   fee |-> fee, source |-> h, dest |-> None, kid |-> kid, time |-> 1]

Both    == "s1" :> Public("h1", "d1") @@ "s2" :> Private("h2", 1, 1)
Shared  == "s1" :> Public("h1", "d1") @@ "s2" :> Public("h1", "d1")
Hopeless == "s1" :> Public("h1", None) @@ "s2" :> Private("h2", 2, 1)
Greedy  == "s1" :> Public("h1", "d1") @@ "s2" :> Private("h2", 1, 6)

-----------------------------------------------------------------------------
(* Refunds.                                                                *)

Refund(id, of, to, amount, time) ==
  [id |-> id, of |-> of, to |-> to, amount |-> amount, time |-> time]

MCRefunds ==
  { {},
    {Refund("r1", "s1", "h1", 1, 2)},
    {Refund("r1", "s2", "h2", 1, 2), Refund("r2", "s2", "h2", 1, 3)},
    {Refund("r1", "s1", "h1", 2, 1), Refund("r2", "s1", "h1", 1, 3)},
    {Refund("r1", "s9", "h1", 1, 2), Refund("r2", "s1", "h1", 1, 1)} }

-----------------------------------------------------------------------------
(* Candidates: what a transaction holds, and where it is.                  *)

Record(v, h) == [version |-> v, hash |-> h, burned |-> 7, harvested |-> 5]

PublicTx(h, d) ==
  [version |-> 5, parses |-> TRUE, ownTxid |-> TRUE, spenders |-> {k1},
   opReturns |-> <<Record(1, h)>>, outs |-> {[script |-> d, value |-> 2]},
   intoPool |-> None, otherPool |-> FALSE]

PrivateTx(h) ==
  [version |-> 6, parses |-> TRUE, ownTxid |-> TRUE, spenders |-> {k2},
   opReturns |-> <<Record(2, h)>>, outs |-> {[script |-> k2, value |-> 9]},
   intoPool |-> 2, otherPool |-> FALSE]

GoodTxs == {PublicTx("h1", "d1"), PrivateTx("h2")}

OddTxs ==
  { [PublicTx("h1", "d1") EXCEPT !.parses = FALSE],
    [PublicTx("h1", "d1") EXCEPT !.spenders = {k1, stranger}],
    [PublicTx("h1", "d1") EXCEPT !.spenders = {k1, None}],
    [PublicTx("h1", "d1") EXCEPT !.spenders = {}],
    [PublicTx("h1", "d1") EXCEPT !.opReturns = <<Record(0, "h1")>>],
    [PublicTx("h1", "d1") EXCEPT !.opReturns = @ \o @],
    [PublicTx("h1", "d1") EXCEPT !.opReturns[1].harvested = 4],
    [PublicTx("h1", "d1") EXCEPT !.outs = {[script |-> "d1", value |-> 1]}],
    PublicTx("h1", "d9"), PublicTx("h9", "d1"), PublicTx("h2", "d1"),
    PrivateTx("h1"),
    [PrivateTx("h2") EXCEPT !.ownTxid = FALSE],
    [PrivateTx("h2") EXCEPT !.intoPool = 3],
    [PrivateTx("h2") EXCEPT !.intoPool = None],
    [PrivateTx("h2") EXCEPT !.otherPool = TRUE],
    [PrivateTx("h2") EXCEPT !.opReturns[1].version = 1],
    [PrivateTx("h2") EXCEPT !.outs = {[script |-> k2, value |-> 9],
                                      [script |-> stranger, value |-> 1]}] }

Place(h, i, c, time) ==
  [height |-> h, index |-> i, confirmations |-> c, time |-> time]

Places ==
  { Place(1, 1, 4, 1), Place(2, -1, 3, 2), Place(2, 1, 3, 2),
    Place(2, 2, 3, 3), Place(3, 1, 2, 3), Place(2, 1, 3, None),
    Place(4, 1, 1, 4), Place(None, 0, 0, None) }

At(tx, p) == tx @@ p

(* One candidate, anything; or three that all mean to be stamps. *)
Alone == {"t1" :> At(x, p) : x \in OddTxs \cup GoodTxs, p \in Places}

Rivals ==
  LET bid == {At(x, p) : x \in GoodTxs, p \in Places}
  IN  {"t1" :> a @@ "t2" :> b @@ "t3" :> At(PublicTx("h1", "d1"), Place(2, 1, 3, 2)) :
         a \in bid, b \in bid}

MCInputs ==
  [requests   : {Both, Shared, Hopeless, Greedy},
   refunds    : MCRefunds,
   candidates : Alone \cup Rivals,
   unresolved : {{}, {"s2", "s3"}},
   now        : {3, 4}]

=============================================================================
